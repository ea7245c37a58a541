----------------------------- MODULE LeasePool -----------------------------
(***************************************************************************)
(* What SimplyTransport/lib/concurrency.py promises its callers, whatever  *)
(* Redis structure keeps the promise: a pool of at most Limit leases, each *)
(* named by a token, each ending by itself TTL ticks after it was granted. *)
(* RedisMutex implements it with Limit = 1, RedisSemaphore with any Limit. *)
(***************************************************************************)
EXTENDS Naturals, FiniteSets

CONSTANTS Token, Limit, TTL

\* left[t]: ticks until the lease named t ends; 0 when there is no such lease.
VARIABLE left

Live == {t \in Token : left[t] > 0}

Init == left = [t \in Token |-> 0]

Grant(t) ==
  /\ left[t] = 0
  /\ Cardinality(Live) < Limit
  /\ left' = [left EXCEPT ![t] = TTL]

Return(t) == left' = [left EXCEPT ![t] = 0]

Elapse == left' = [t \in Token |-> IF left[t] = 0 THEN 0 ELSE left[t] - 1]

\* flushredis (or a restart of a Redis that keeps nothing) forgets every lease.
Clear == left' = [t \in Token |-> 0]

Next ==
  \/ \E t \in Token : Grant(t) \/ Return(t)
  \/ Elapse
  \/ Clear

Spec == Init /\ [][Next]_left
=============================================================================
