---------------------------- MODULE MCRedisMutex ----------------------------
(***************************************************************************)
(* RedisMutex for TLC.  Three processes are enough for one to hold the key, *)
(* one to be late with a lease it lost and one to contend; one token more   *)
(* than processes, so that an abandoned key still leaves each a fresh one.  *)
(***************************************************************************)
EXTENDS RedisMutex

CONSTANTS p1, p2, p3, t1, t2, t3, t4

MCProcess == {p1, p2, p3}
MCToken == {t1, t2, t3, t4}
MCTTL == 2
=============================================================================
