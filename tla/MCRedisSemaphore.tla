-------------------------- MODULE MCRedisSemaphore --------------------------
(***************************************************************************)
(* RedisSemaphore for TLC: two slots of the semaphore and three processes,  *)
(* so that one is turned away or takes a lapsed lease's place; five tokens, *)
(* so that two abandoned members leave each process one of its own.  Tokens *)
(* and processes are interchangeable and no liveness is checked.            *)
(***************************************************************************)
EXTENDS RedisSemaphore, TLC

CONSTANTS p1, p2, p3, t1, t2, t3, t4, t5

MCProcess == {p1, p2, p3}
MCToken == {t1, t2, t3, t4, t5}
MCLimit == 2
MCTTL == 2

Symmetry == Permutations(MCProcess) \union Permutations(MCToken)
=============================================================================
