----------------------------- MODULE RedisMutex -----------------------------
(***************************************************************************)
(* The Redis mutex of SimplyTransport/lib/concurrency.py: one lock key, and *)
(* the processes that contend for it, either through concurrency(1) or      *)
(* through try_acquire_lock / release_lock (the two follow one protocol).   *)
(*                                                                          *)
(* A Process is a slot of successive CLI processes (a cron line): when one  *)
(* ends or dies, the slot is idle and the next run starts from nothing.     *)
(* Time is counted in ticks and the key carries its remaining time to live, *)
(* as PTTL reports it, so no clock has to be bounded.                       *)
(***************************************************************************)
EXTENDS Naturals

CONSTANTS
  Process,  \* slots of CLI processes
  Token,    \* the uuid4 values
  NoToken,
  TTL       \* ttl_seconds, in ticks

ASSUME TTLAssumption == TTL \in Nat \ {0}
ASSUME NoTokenAssumption == NoToken \notin Token

VARIABLES
  store,    \* the string under the lock key and its time to live
  pc,       \* where each process is in the wrapper
  token,    \* the wrapper's local variable token
  lease,    \* history: ticks left of the lease Redis granted the process
  exposure  \* history: ticks until every lease a flush forgot has ended

vars == <<store, pc, token, lease, exposure>>

Absent == [token |-> NoToken, ttl |-> 0]

TypeOK ==
  /\ store \in [token : Token \union {NoToken}, ttl : 0 .. TTL]
  /\ store.token = NoToken <=> store.ttl = 0
  /\ pc \in [Process -> {"idle", "acquiring", "running", "releasing"}]
  /\ token \in [Process -> Token \union {NoToken}]
  /\ \A p \in Process : token[p] = NoToken <=> pc[p] = "idle"
  /\ lease \in [Process -> 0 .. TTL]
  /\ exposure \in 0 .. TTL

Init ==
  /\ store = Absent
  /\ pc = [p \in Process |-> "idle"]
  /\ token = [p \in Process |-> NoToken]
  /\ lease = [p \in Process |-> 0]
  /\ exposure = 0

Holds(p) == token[p] # NoToken /\ store.token = token[p]

InUse == {store.token} \union {token[q] : q \in Process}

\* The process ends, or its wrapper returns: nothing of it is left.
Leave(p) ==
  /\ pc' = [pc EXCEPT ![p] = "idle"]
  /\ token' = [token EXCEPT ![p] = NoToken]
  /\ lease' = [lease EXCEPT ![p] = 0]

-----------------------------------------------------------------------------
\* The wrapper draws a token no one uses and sends SET key token NX PX ttl.
Invoke(p) ==
  /\ pc[p] = "idle"
  /\ \E t \in Token \ InUse : token' = [token EXCEPT ![p] = t]
  /\ pc' = [pc EXCEPT ![p] = "acquiring"]
  /\ UNCHANGED <<store, lease, exposure>>

SetKey(p) == store' = [token |-> token[p], ttl |-> TTL]

GoOn(p) ==
  /\ SetKey(p)
  /\ lease' = [lease EXCEPT ![p] = TTL]
  /\ pc' = [pc EXCEPT ![p] = "running"]
  /\ UNCHANGED <<token, exposure>>

\* Mutant: SET without NX.
SetGrantedWithoutNX(p) == pc[p] = "acquiring" /\ GoOn(p)

\* Redis executes the SET and the key was free; the wrapper goes on to func.
SetGranted(p) ==
  /\ pc[p] = "acquiring"
  /\ store.ttl = 0
  /\ GoOn(p)

\* Mutant: the expiry is set whether or not the key was (SETNX, then PEXPIRE).
SetRefusedExtends(p) ==
  /\ pc[p] = "acquiring"
  /\ store.ttl > 0
  /\ store' = [store EXCEPT !.ttl = TTL]
  /\ Leave(p)
  /\ UNCHANGED exposure

\* The key is taken: token is None and the wrapper returns without func.
SetRefused(p) ==
  /\ pc[p] = "acquiring"
  /\ store.ttl > 0
  /\ Leave(p)
  /\ UNCHANGED <<store, exposure>>

\* The client raises a RedisError: the wrapper aborts and, as its token is
\* still None, releases nothing. Redis may have executed the SET all the same.
SetUnanswered(p) ==
  /\ pc[p] = "acquiring"
  /\ \/ store.ttl = 0 /\ SetKey(p)
     \/ UNCHANGED store
  /\ Leave(p)
  /\ UNCHANGED exposure

\* func returns or raises, in time or long after its lease: finally runs.
Finish(p) ==
  /\ pc[p] = "running"
  /\ pc' = [pc EXCEPT ![p] = "releasing"]
  /\ UNCHANGED <<store, token, lease, exposure>>

\* Mutant: a plain DEL in place of compare-and-delete.
ReleaseWithoutCompare(p) ==
  /\ pc[p] = "releasing"
  /\ store' = Absent
  /\ Leave(p)
  /\ UNCHANGED exposure

\* _MUTEX_RELEASE_LUA: GET the key and DEL it if it still holds the token.
Release(p) ==
  /\ pc[p] = "releasing"
  /\ store' = IF store.token = token[p] THEN Absent ELSE store
  /\ Leave(p)
  /\ UNCHANGED exposure

\* The EVAL never reaches Redis: the RedisError is logged and swallowed.
ReleaseUnanswered(p) ==
  /\ pc[p] = "releasing"
  /\ Leave(p)
  /\ UNCHANGED <<store, exposure>>

\* The process is killed: finally does not run.
Crash(p) ==
  /\ pc[p] # "idle"
  /\ Leave(p)
  /\ UNCHANGED <<store, exposure>>

-----------------------------------------------------------------------------
Dec(n) == IF n = 0 THEN 0 ELSE n - 1

\* A tick of time; Redis drops the key when its time to live is over.
Tick ==
  /\ store' = IF store.ttl > 1 THEN [store EXCEPT !.ttl = @ - 1] ELSE Absent
  /\ lease' = [p \in Process |-> Dec(lease[p])]
  /\ exposure' = Dec(exposure)
  /\ UNCHANGED <<pc, token>>

\* flushredis deletes every key of the database, the lock keys included.
Flush ==
  /\ store' = Absent
  /\ exposure' = TTL
  /\ UNCHANGED <<pc, token, lease>>

ProcessStep(p) ==
  \/ Invoke(p)
  \/ SetGranted(p)
  \/ SetRefused(p)
  \/ SetUnanswered(p)
  \/ Finish(p)
  \/ Release(p)
  \/ ReleaseUnanswered(p)
  \/ Crash(p)

Next ==
  \/ \E p \in Process : ProcessStep(p)
  \/ Tick
  \/ Flush

Spec == Init /\ [][Next]_vars

\* Only time is fair: a process may hang, die or be late at any step.
FairSpec == Spec /\ WF_vars(Tick)

-----------------------------------------------------------------------------
\* concurrency(1) is mutual exclusion (concurrency.py:174) for as long as the
\* leases last: two processes never both have time left on a granted lease,
\* whatever crashed, overran or lost an answer before; and a flush can break
\* this for one TTL at most.
MutualExclusion ==
  exposure = 0 =>
    \A p, q \in Process : lease[p] > 0 /\ lease[q] > 0 => p = q

TokensDistinct ==
  \A p, q \in Process : token[p] = token[q] /\ token[p] # NoToken => p = q

LeaseIsStored ==
  \A p \in Process :
    /\ lease[p] > exposure => Holds(p)
    /\ Holds(p) => lease[p] = store.ttl

\* Why it holds, and the inductive invariant of the proofs: a lease that has
\* outlived every flush is the one in the key (nothing but its own release
\* or the end of its time can have taken it out), and whoever finds its token
\* in the key has exactly the time the key has left.
IInv == TypeOK /\ TokensDistinct /\ LeaseIsStored

\* A holder that is still running loses its key to time or to a flush, never
\* to what another process does: in particular not to the late release of one
\* that overran its own lease (concurrency.py:104-110).
HolderKeepsKey ==
  [][\A p \in Process :
       pc[p] = "running" /\ pc'[p] = "running" /\ Holds(p) /\ ~Holds(p)'
         => lease'[p] = 0 \/ Flush]_vars

\* Whatever becomes of its owner, every grant ends: a lock abandoned by a
\* crash or by a lost answer does not lock the job out for ever.
EveryGrantEnds ==
  \A t \in Token : store.token = t ~> store.token # t

\* The mutex is a pool of one lease.
Left == [t \in Token |-> IF store.token = t THEN store.ttl ELSE 0]

Pool == INSTANCE LeasePool WITH left <- Left, Limit <- 1

ImplementsLeasePool == Pool!Spec
=============================================================================
