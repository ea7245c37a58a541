------------------------ MODULE RedisSemaphoreProofs ------------------------
(***************************************************************************)
(* Proofs about RedisSemaphore for every limit, TTL and finite sets of      *)
(* processes and tokens: its inductive invariant, the bound on the leases,  *)
(* who is turned away, and that it implements LeasePool.                    *)
(***************************************************************************)
EXTENDS RedisSemaphore, FiniteSetTheorems, Functions, TLAPS

\* Every subset of the tokens has a cardinality.
LEMMA TokensFinite ==
  ASSUME NEW S \in SUBSET Token
  PROVE  IsFiniteSet(S) /\ Cardinality(S) \in Nat
  BY TokenAssumption, FS_Subset, FS_CardinalityType

\* Purging the lapsed members and adding one where there is room for it keeps
\* the set within its limit; so does removing members.
LEMMA MembersBounded ==
  ASSUME TypeOK, Cardinality(members) <= Limit,
         NEW p \in Process, pc[p] = "acquiring"
  PROVE  /\ HasRoom /\ AddMember(p) => Cardinality(members') <= Limit
         /\ OnlyPurge => Cardinality(members') <= Limit
  <1> USE LimitAssumption DEF TypeOK
  <1>1. Purged \in SUBSET members /\ members \in SUBSET Token
    BY DEF Purged
  <1>2. Cardinality(Purged) <= Cardinality(members)
    BY <1>1, TokensFinite, FS_Subset
  <1>3. Cardinality(Purged) \in Nat /\ Cardinality(members) \in Nat
        /\ IsFiniteSet(Purged)
    BY <1>1, TokensFinite
  <1>4. Cardinality(Purged \union {token[p]}) <= Cardinality(Purged) + 1
    <2>1. Cardinality(Purged \union {token[p]}) =
            IF token[p] \in Purged THEN Cardinality(Purged) ELSE Cardinality(Purged) + 1
      BY <1>3, FS_AddElement, Zenon
    <2>2. QED
      BY <1>3, <2>1
  <1>5. Cardinality(Purged \union {token[p]}) \in Nat
    <2>1. Purged \union {token[p]} \in SUBSET Token
      BY <1>1
    <2>2. QED
      BY <2>1, TokensFinite
  <1>6. HasRoom /\ AddMember(p) => Cardinality(members') <= Limit
    BY <1>3, <1>4, <1>5 DEF HasRoom, AddMember
  <1>7. OnlyPurge => Cardinality(members') <= Limit
    BY <1>2, <1>3 DEF OnlyPurge
  <1>8. QED
    BY <1>6, <1>7

\* An empty set of members and no runs satisfy the invariant.
LEMMA InitIInv == Init => IInv
  BY TTLAssumption, TokenAssumption, LimitAssumption, FS_EmptySet
     DEF Init, IInv, TypeOK, TokensDistinct

\* Every step keeps the types, the links between members and leases, and the
\* bound on the members.
LEMMA NextIInv == IInv /\ [Next]_vars => IInv'
  <1> SUFFICES ASSUME IInv, [Next]_vars PROVE IInv'
    OBVIOUS
  <1> USE TTLAssumption, TokenAssumption, LimitAssumption
      DEF IInv, TypeOK, TokensDistinct
  <1>1. ASSUME NEW p \in Process, Invoke(p) PROVE IInv'
    BY <1>1 DEF Invoke, InUse
  <1>2. ASSUME NEW p \in Process, AcquireGranted(p) PROVE IInv'
    <2>1. Cardinality(members') <= Limit
      BY <1>2, MembersBounded DEF AcquireGranted
    <2>2. QED
      BY <1>2, <2>1 DEF AcquireGranted, AddMember, Purged
  <1>3. ASSUME NEW p \in Process, AcquireRefused(p) PROVE IInv'
    <2>1. Cardinality(members') <= Limit
      BY <1>3, MembersBounded DEF AcquireRefused
    <2>2. QED
      BY <1>3, <2>1 DEF AcquireRefused, OnlyPurge, Purged, Leave
  <1>4. ASSUME NEW p \in Process, AcquireUnanswered(p) PROVE IInv'
    <2>1. Cardinality(members') <= Limit
      BY <1>4, MembersBounded DEF AcquireUnanswered
    <2>2. QED
      BY <1>4, <2>1 DEF AcquireUnanswered, AddMember, OnlyPurge, Purged, Leave
  <1>5. ASSUME NEW p \in Process, Finish(p) PROVE IInv'
    BY <1>5 DEF Finish
  <1>6. ASSUME NEW p \in Process, Release(p) PROVE IInv'
    <2>1. Cardinality(members \ {token[p]}) <= Limit
      <3>1. Cardinality(members \ {token[p]}) <= Cardinality(members)
        BY TokensFinite, FS_Subset
      <3>2. QED
        BY <3>1, TokensFinite
    <2>2. QED
      BY <1>6, <2>1 DEF Release, Leave
  <1>7. ASSUME NEW p \in Process, ReleaseUnanswered(p) \/ Crash(p) PROVE IInv'
    BY <1>7 DEF ReleaseUnanswered, Crash, Leave
  <1>8. CASE Tick
    BY <1>8 DEF Tick, Dec
  <1>9. CASE Flush
    BY <1>9, FS_EmptySet DEF Flush
  <1>10. CASE UNCHANGED vars
    BY <1>10 DEF vars
  <1>11. QED
    BY <1>1, <1>2, <1>3, <1>4, <1>5, <1>6, <1>7, <1>8, <1>9, <1>10
       DEF Next, ProcessStep

\* Leases that no flush has forgotten are members of the sorted set, which never
\* has more of them than the limit (concurrency.py:112-131).
THEOREM Invariance == Spec => []IInv
  BY InitIInv, NextIInv, PTL DEF Spec

\* At most limit processes hold a lease with time left, when no flush is
\* recent (concurrency.py:174).
THEOREM Bounded == Spec => []AtMostLimit
  <1>1. ASSUME IInv, exposure = 0 PROVE Cardinality(Leased) <= Limit
    <2> DEFINE f == [p \in Leased |-> token[p]]
    <2>1. f \in Injection(Leased, members)
      <3>1. \A p \in Leased : token[p] \in members /\ token[p] # NoToken
        BY <1>1, TokenAssumption DEF IInv, TypeOK, Leased
      <3>2. f \in [Leased -> members]
        BY <3>1
      <3>3. \A p, q \in Leased : f[p] = f[q] => p = q
        BY <1>1, <3>1 DEF IInv, TokensDistinct, Leased
      <3>4. IsInjective(f)
        BY <3>3 DEF IsInjective
      <3>5. QED
        BY <3>2, <3>4 DEF Injection
    <2>2. IsFiniteSet(members) /\ Cardinality(members) \in Nat
      BY <1>1, TokensFinite DEF IInv, TypeOK
    <2>3. Cardinality(Leased) <= Cardinality(members) /\ IsFiniteSet(Leased)
      BY <2>1, <2>2, FS_Injection
    <2>4. Cardinality(Leased) \in Nat
      BY <2>3, FS_CardinalityType
    <2>5. QED
      BY <1>1, <2>2, <2>3, <2>4, LimitAssumption DEF IInv
  <1>2. IInv => AtMostLimit
    BY <1>1 DEF AtMostLimit
  <1>3. QED
    BY <1>2, Invariance, PTL

\* What is left after the script has removed lapsed members are the live ones.
LEMMA LiveIsPurged ==
  ASSUME TypeOK
  PROVE  Purged = {t \in Token : left[t] > 0}
  BY TTLAssumption DEF TypeOK, Purged

\* A process is turned away by exactly limit leases with time left, so never
\* by a lapsed one (concurrency.py:121).
THEOREM Refused == Spec => RefusedOnlyWhenFull
  <1> DEFINE Full(p) == AcquireRefused(p)
        => Cardinality({t \in Token : left[t] > 0}) = Limit
  <1>1. ASSUME IInv, NEW p \in Process, AcquireRefused(p)
        PROVE  Cardinality(Purged) = Limit
    <2>1. Purged \in SUBSET members /\ members \in SUBSET Token
      BY <1>1 DEF Purged, IInv, TypeOK
    <2>2. Cardinality(Purged) <= Cardinality(members)
      BY <2>1, TokensFinite, FS_Subset
    <2>3. Cardinality(Purged) \in Nat /\ Cardinality(members) \in Nat
      BY <2>1, TokensFinite
    <2>4. QED
      BY <1>1, <2>2, <2>3, LimitAssumption DEF IInv, AcquireRefused, HasRoom
  <1>2. IInv /\ [Next]_vars => [\A p \in Process : Full(p)]_vars
    BY <1>1, LiveIsPurged DEF IInv
  <1>3. QED
    BY <1>2, Invariance, PTL DEF Spec, RefusedOnlyWhenFull, Full

-----------------------------------------------------------------------------
\* A granted script adds one lease to a pool that had room for it.
LEMMA AddMemberGrants ==
  ASSUME IInv, NEW p \in Process, pc[p] = "acquiring", HasRoom, AddMember(p)
  PROVE  Pool!Grant(token[p])
  <1>1. Pool!Live = Purged
    BY LiveIsPurged DEF IInv, Pool!Live
  <1>2. Pool!Cardinality(Pool!Live) = Cardinality(Purged)
    BY <1>1 DEF Pool!Cardinality, Cardinality
  <1>3. left[token[p]] = 0
    BY DEF IInv, TypeOK
  <1>4. QED
    BY <1>2, <1>3 DEF Pool!Grant, HasRoom, AddMember

\* Every step of the semaphore is a step of the pool or changes nothing of it:
\* a purge removes only leases that have ended.
LEMMA StepRefines == IInv /\ [Next]_vars => [Pool!Next]_left
  <1> SUFFICES ASSUME IInv, [Next]_vars PROVE [Pool!Next]_left
    OBVIOUS
  <1> USE TokenAssumption DEF IInv, TypeOK
  <1>1. ASSUME NEW p \in Process, pc[p] = "acquiring", HasRoom, AddMember(p)
        PROVE  Pool!Next
    BY <1>1, AddMemberGrants DEF Pool!Next
  <1>2. ASSUME NEW p \in Process, ProcessStep(p) PROVE [Pool!Next]_left
    <2>1. CASE AcquireGranted(p)
      BY <1>1, <2>1 DEF AcquireGranted
    <2>2. CASE AcquireUnanswered(p)
      BY <1>1, <2>2 DEF AcquireUnanswered, OnlyPurge
    <2>3. CASE Release(p)
      BY <2>3 DEF Release, Pool!Next, Pool!Return
    <2>4. QED
      BY <1>2, <2>1, <2>2, <2>3
         DEF ProcessStep, Invoke, AcquireRefused, OnlyPurge, Finish,
             ReleaseUnanswered, Crash
  <1>3. CASE Tick
    BY <1>3 DEF Tick, Dec, Pool!Next, Pool!Elapse
  <1>4. CASE Flush
    BY <1>4 DEF Flush, Pool!Next, Pool!Clear
  <1>5. QED
    BY <1>2, <1>3, <1>4 DEF Next, vars

\* The Redis semaphore implements a pool of limit leases.
THEOREM Refinement == Spec => ImplementsLeasePool
  <1>1. Init => Pool!Init
    BY DEF Init, Pool!Init
  <1>2. QED
    BY <1>1, Invariance, StepRefines, PTL DEF Spec, ImplementsLeasePool, Pool!Spec
=============================================================================
