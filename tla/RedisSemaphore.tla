--------------------------- MODULE RedisSemaphore ---------------------------
(***************************************************************************)
(* The Redis semaphore of SimplyTransport/lib/concurrency.py, which         *)
(* concurrency(limit) uses for limit > 1: one sorted set whose members are  *)
(* the tokens of the leases, scored by the time each lease ends, changed by *)
(* a Lua script that Redis runs as one step.  Slots, time and the history   *)
(* variables are those of RedisMutex; a score is kept as the ticks between  *)
(* now and the end of the lease, 0 once it has ended.                       *)
(***************************************************************************)
EXTENDS Naturals, FiniteSets

CONSTANTS
  Process,  \* slots of CLI processes
  Token,    \* the uuid4 values
  NoToken,
  Limit,    \* concurrency's argument limit
  TTL       \* ttl_seconds, in ticks

ASSUME ProcessAssumption == IsFiniteSet(Process)
ASSUME TokenAssumption == IsFiniteSet(Token) /\ NoToken \notin Token
ASSUME LimitAssumption == Limit \in Nat /\ Limit > 1
ASSUME TTLAssumption == TTL \in Nat \ {0}

VARIABLES
  members,  \* the tokens in the sorted set
  left,     \* what is left of each member's lease
  pc, token, lease, exposure

vars == <<members, left, pc, token, lease, exposure>>

TypeOK ==
  /\ members \subseteq Token
  /\ left \in [Token -> 0 .. TTL]
  /\ \A t \in Token \ members : left[t] = 0
  /\ pc \in [Process -> {"idle", "acquiring", "running", "releasing"}]
  /\ token \in [Process -> Token \union {NoToken}]
  /\ \A p \in Process : token[p] = NoToken <=> pc[p] = "idle"
  /\ lease \in [Process -> 0 .. TTL]
  /\ exposure \in 0 .. TTL

Init ==
  /\ members = {}
  /\ left = [t \in Token |-> 0]
  /\ pc = [p \in Process |-> "idle"]
  /\ token = [p \in Process |-> NoToken]
  /\ lease = [p \in Process |-> 0]
  /\ exposure = 0

InUse == members \union {token[q] : q \in Process}

Leave(p) ==
  /\ pc' = [pc EXCEPT ![p] = "idle"]
  /\ token' = [token EXCEPT ![p] = NoToken]
  /\ lease' = [lease EXCEPT ![p] = 0]

-----------------------------------------------------------------------------
Invoke(p) ==
  /\ pc[p] = "idle"
  /\ \E t \in Token \ InUse : token' = [token EXCEPT ![p] = t]
  /\ pc' = [pc EXCEPT ![p] = "acquiring"]
  /\ UNCHANGED <<members, left, lease, exposure>>

\* Mutant: the script counts without ZREMRANGEBYSCORE.
NothingPurged == members

\* What ZREMRANGEBYSCORE key -inf now leaves in the set.
Purged == {t \in members : left[t] > 0}

\* Mutant: count <= limit.
RoomForOneMore == Cardinality(Purged) <= Limit

HasRoom == Cardinality(Purged) < Limit

\* ZADD key (now + ttl) token, after the purge.
AddMember(p) ==
  /\ members' = Purged \union {token[p]}
  /\ left' = [left EXCEPT ![token[p]] = TTL]

OnlyPurge == members' = Purged /\ UNCHANGED left

\* The script returns 1; the wrapper goes on to func.
AcquireGranted(p) ==
  /\ pc[p] = "acquiring"
  /\ HasRoom
  /\ AddMember(p)
  /\ lease' = [lease EXCEPT ![p] = TTL]
  /\ pc' = [pc EXCEPT ![p] = "running"]
  /\ UNCHANGED <<token, exposure>>

\* The script returns 0; the wrapper returns None without func.
AcquireRefused(p) ==
  /\ pc[p] = "acquiring"
  /\ ~HasRoom
  /\ OnlyPurge
  /\ Leave(p)
  /\ UNCHANGED exposure

\* A RedisError: the wrapper aborts with its token still None, whether Redis
\* ran the script or not.
AcquireUnanswered(p) ==
  /\ pc[p] = "acquiring"
  /\ \/ HasRoom /\ AddMember(p)
     \/ ~HasRoom /\ OnlyPurge
     \/ UNCHANGED <<members, left>>
  /\ Leave(p)
  /\ UNCHANGED exposure

Finish(p) ==
  /\ pc[p] = "running"
  /\ pc' = [pc EXCEPT ![p] = "releasing"]
  /\ UNCHANGED <<members, left, token, lease, exposure>>

\* Mutant: DEL in place of ZREM, as for the mutex.
ReleaseDeletesKey(p) ==
  /\ pc[p] = "releasing"
  /\ members' = {}
  /\ left' = [t \in Token |-> 0]
  /\ Leave(p)
  /\ UNCHANGED exposure

\* ZREM key token: harmless if the member was purged meanwhile.
Release(p) ==
  /\ pc[p] = "releasing"
  /\ members' = members \ {token[p]}
  /\ left' = [left EXCEPT ![token[p]] = 0]
  /\ Leave(p)
  /\ UNCHANGED exposure

ReleaseUnanswered(p) ==
  /\ pc[p] = "releasing"
  /\ Leave(p)
  /\ UNCHANGED <<members, left, exposure>>

Crash(p) ==
  /\ pc[p] # "idle"
  /\ Leave(p)
  /\ UNCHANGED <<members, left, exposure>>

-----------------------------------------------------------------------------
Dec(n) == IF n = 0 THEN 0 ELSE n - 1

\* A tick of Redis's clock; members whose lease has ended stay until a purge.
Tick ==
  /\ left' = [t \in Token |-> Dec(left[t])]
  /\ lease' = [p \in Process |-> Dec(lease[p])]
  /\ exposure' = Dec(exposure)
  /\ UNCHANGED <<members, pc, token>>

\* flushredis.
Flush ==
  /\ members' = {}
  /\ left' = [t \in Token |-> 0]
  /\ exposure' = TTL
  /\ UNCHANGED <<pc, token, lease>>

ProcessStep(p) ==
  \/ Invoke(p)
  \/ AcquireGranted(p)
  \/ AcquireRefused(p)
  \/ AcquireUnanswered(p)
  \/ Finish(p)
  \/ Release(p)
  \/ ReleaseUnanswered(p)
  \/ Crash(p)

Next ==
  \/ \E p \in Process : ProcessStep(p)
  \/ Tick
  \/ Flush

Spec == Init /\ [][Next]_vars

-----------------------------------------------------------------------------
Leased == {p \in Process : lease[p] > 0}

\* At most limit holders at a time (concurrency.py:174) while leases last, the
\* leases that Redis purged without their owners' knowledge and those it
\* granted without an answer included; a flush breaks it for one TTL at most.
AtMostLimit == exposure = 0 => Cardinality(Leased) <= Limit

TokensDistinct ==
  \A p, q \in Process : token[p] = token[q] /\ token[p] # NoToken => p = q

\* Why it holds, and the inductive invariant of the proofs: a lease that has
\* outlived every flush is a member with as much time left, a token is no
\* member before its script has run, and the set never has more than limit
\* members, the lapsed ones included.
IInv ==
  /\ TypeOK
  /\ TokensDistinct
  /\ \A p \in Process : pc[p] = "acquiring" => token[p] \notin members
  /\ \A p \in Process :
       lease[p] > exposure => token[p] \in members /\ left[token[p]] = lease[p]
  /\ Cardinality(members) <= Limit

\* A caller is turned away only by leases that are still running: a lapsed
\* one that nobody removed does not count (concurrency.py:121).
RefusedOnlyWhenFull ==
  [][\A p \in Process :
       AcquireRefused(p) => Cardinality({t \in Token : left[t] > 0}) = Limit]_vars

\* The semaphore is a pool of limit leases.
Pool == INSTANCE LeasePool

ImplementsLeasePool == Pool!Spec
=============================================================================
