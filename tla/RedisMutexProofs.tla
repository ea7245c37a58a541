-------------------------- MODULE RedisMutexProofs --------------------------
(***************************************************************************)
(* Proofs about RedisMutex for every set of processes and tokens and every  *)
(* TTL: its inductive invariant, mutual exclusion of the leases, what can   *)
(* take the key from a holder, and that it implements LeasePool.            *)
(***************************************************************************)
EXTENDS RedisMutex, FiniteSetTheorems, TLAPS

\* A free key and no runs satisfy the invariant.
LEMMA InitIInv == Init => IInv
  BY TTLAssumption, NoTokenAssumption
     DEF Init, IInv, TypeOK, TokensDistinct, LeaseIsStored, Holds, Absent

\* Every step keeps the types and, with them, the links between the key, the
\* tokens and the leases.
LEMMA NextIInv == IInv /\ [Next]_vars => IInv'
  <1> SUFFICES ASSUME IInv, [Next]_vars PROVE IInv'
    OBVIOUS
  <1> USE TTLAssumption, NoTokenAssumption
      DEF IInv, TypeOK, TokensDistinct, LeaseIsStored, Holds, Absent
  <1>1. ASSUME NEW p \in Process, Invoke(p) PROVE IInv'
    BY <1>1 DEF Invoke, InUse
  <1>2. ASSUME NEW p \in Process, SetGranted(p) PROVE IInv'
    BY <1>2 DEF SetGranted, GoOn, SetKey
  <1>3. ASSUME NEW p \in Process, SetRefused(p) PROVE IInv'
    BY <1>3 DEF SetRefused, Leave
  <1>4. ASSUME NEW p \in Process, SetUnanswered(p) PROVE IInv'
    BY <1>4 DEF SetUnanswered, SetKey, Leave
  <1>5. ASSUME NEW p \in Process, Finish(p) PROVE IInv'
    BY <1>5 DEF Finish
  <1>6. ASSUME NEW p \in Process, Release(p) PROVE IInv'
    BY <1>6 DEF Release, Leave
  <1>7. ASSUME NEW p \in Process, ReleaseUnanswered(p) \/ Crash(p) PROVE IInv'
    BY <1>7 DEF ReleaseUnanswered, Crash, Leave
  <1>8. CASE Tick
    BY <1>8 DEF Tick, Dec
  <1>9. CASE Flush
    BY <1>9 DEF Flush
  <1>10. CASE UNCHANGED vars
    BY <1>10 DEF vars
  <1>11. QED
    BY <1>1, <1>2, <1>3, <1>4, <1>5, <1>6, <1>7, <1>8, <1>9, <1>10
       DEF Next, ProcessStep

\* Whatever the processes do and whatever Redis loses, a lease that no flush has
\* forgotten is the one in the key (concurrency.py:187-223).
THEOREM Invariance == Spec => []IInv
  BY InitIInv, NextIInv, PTL DEF Spec

\* The types of the wrapper's variables and of the key (concurrency.py:133-144).
THEOREM TypeCorrect == Spec => []TypeOK
  <1>1. IInv => TypeOK
    BY DEF IInv
  <1>2. QED
    BY <1>1, Invariance, PTL

\* concurrency(1) admits one process at a time for as long as leases last and
\* nobody flushes (concurrency.py:174).
THEOREM Exclusion == Spec => []MutualExclusion
  <1>1. IInv => MutualExclusion
    BY DEF IInv, TypeOK, TokensDistinct, LeaseIsStored, Holds, MutualExclusion
  <1>2. QED
    BY <1>1, Invariance, PTL

\* A running holder loses its key only to the end of its own lease or to
\* flushredis, never to another process's release (concurrency.py:104-110).
THEOREM KeepsKey == Spec => HolderKeepsKey
  <1> DEFINE Kept(p) ==
        pc[p] = "running" /\ pc'[p] = "running" /\ Holds(p) /\ ~Holds(p)'
          => lease'[p] = 0 \/ Flush
  <1>1. ASSUME IInv, [Next]_vars, NEW p \in Process PROVE Kept(p)
    <2> USE <1>1, TTLAssumption, NoTokenAssumption
        DEF IInv, TypeOK, TokensDistinct, LeaseIsStored, Holds, Absent
    <2>1. ASSUME NEW q \in Process, ProcessStep(q) PROVE Kept(p)
      BY <2>1 DEF ProcessStep, Invoke, SetGranted, GoOn, SetKey, SetRefused,
                  SetUnanswered, Finish, Release, ReleaseUnanswered, Crash, Leave
    <2>2. CASE Tick
      BY <2>2 DEF Tick, Dec
    <2>3. CASE Flush
      BY <2>3
    <2>4. CASE UNCHANGED vars
      BY <2>4 DEF vars
    <2>5. QED
      BY <2>1, <2>2, <2>3, <2>4 DEF Next
  <1>2. IInv /\ [Next]_vars => [\A p \in Process : Kept(p)]_vars
    BY <1>1
  <1>3. QED
    BY <1>2, Invariance, PTL DEF Spec, HolderKeepsKey, Kept

-----------------------------------------------------------------------------
\* Granting: the key was free, so the pool was empty.
LEMMA SetKeyGrants ==
  ASSUME IInv, NEW p \in Process, pc[p] = "acquiring", store.ttl = 0, SetKey(p)
  PROVE  Pool!Grant(token[p])
  <1> USE TTLAssumption, NoTokenAssumption DEF IInv, TypeOK, Absent
  <1>1. token[p] \in Token /\ store.token = NoToken
    OBVIOUS
  <1>2. Left = [t \in Token |-> 0]
    BY <1>1 DEF Left
  <1>3. Left' = [Left EXCEPT ![token[p]] = TTL]
    <2>1. Left' = [t \in Token |-> IF token[p] = t THEN TTL ELSE 0]
      BY DEF Left, SetKey
    <2>2. QED
      BY <1>1, <1>2, <2>1
  <1>4. Pool!Live = {}
    BY <1>2 DEF Pool!Live
  <1>5. Pool!Cardinality(Pool!Live) < 1
    <2>1. Pool!Cardinality({}) = Cardinality({})
      BY DEF Pool!Cardinality, Cardinality, Pool!IsFiniteSet, IsFiniteSet
    <2>2. QED
      BY <1>4, <2>1, FS_EmptySet
  <1>6. QED
    BY <1>1, <1>2, <1>3, <1>5 DEF Pool!Grant

\* Every step of the mutex is a step of the pool or changes nothing of it.
LEMMA StepRefines == IInv /\ IInv' /\ [Next]_vars => [Pool!Next]_Left
  <1> SUFFICES ASSUME IInv, IInv', [Next]_vars PROVE [Pool!Next]_Left
    OBVIOUS
  <1> USE TTLAssumption, NoTokenAssumption DEF IInv, TypeOK, Absent
  <1>1. ASSUME UNCHANGED store PROVE UNCHANGED Left
    BY <1>1 DEF Left
  <1>2. ASSUME store' = Absent PROVE Left' = [t \in Token |-> 0]
    BY <1>2 DEF Left
  <1>3. ASSUME NEW p \in Process, ProcessStep(p) PROVE [Pool!Next]_Left
    <2>1. CASE SetGranted(p)
      BY <2>1, SetKeyGrants DEF SetGranted, GoOn, Pool!Next
    <2>2. CASE SetUnanswered(p)
      BY <2>2, <1>1, SetKeyGrants DEF SetUnanswered, Pool!Next
    <2>3. CASE Release(p)
      <3>1. CASE store.token = token[p]
        <4>1. Left' = [Left EXCEPT ![token[p]] = 0]
          BY <2>3, <3>1 DEF Release, Left
        <4>2. QED
          BY <2>3, <4>1 DEF Release, Pool!Next, Pool!Return
      <3>2. QED
        BY <2>3, <3>1, <1>1 DEF Release
    <2>4. QED
      BY <1>3, <1>1, <2>1, <2>2, <2>3
         DEF ProcessStep, Invoke, SetRefused, Finish, ReleaseUnanswered, Crash
  <1>4. CASE Tick
    <2>1. Left' = [t \in Token |-> IF Left[t] = 0 THEN 0 ELSE Left[t] - 1]
      <3>1. CASE store.ttl > 1
        BY <1>4, <3>1 DEF Tick, Left
      <3>2. CASE ~(store.ttl > 1)
        BY <1>4, <3>2, <1>2 DEF Tick, Left
      <3>3. QED
        BY <3>1, <3>2
    <2>2. QED
      BY <2>1 DEF Pool!Next, Pool!Elapse
  <1>5. CASE Flush
    BY <1>5, <1>2 DEF Flush, Pool!Next, Pool!Clear
  <1>6. QED
    BY <1>1, <1>3, <1>4, <1>5 DEF Next, vars

\* The Redis mutex implements a pool of one lease.
THEOREM Refinement == Spec => ImplementsLeasePool
  <1>1. Init => Pool!Init
    BY NoTokenAssumption DEF Init, Absent, Left, Pool!Init
  <1>2. QED
    BY <1>1, Invariance, StepRefines, PTL DEF Spec, ImplementsLeasePool, Pool!Spec
=============================================================================
