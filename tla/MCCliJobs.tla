----------------------------- MODULE MCCliJobs -----------------------------
(***************************************************************************)
(* CliJobs for TLC: one static import line, two slots of importrealtime (a  *)
(* run that is still going when cron starts the next) and one seed, which   *)
(* writes the same tables under another lock.                               *)
(***************************************************************************)
EXTENDS CliJobs

CONSTANTS gtfs, rt1, rt2, seed

MCJob == {gtfs, rt1, rt2, seed}

MCCommandOf ==
  [j \in MCJob |-> IF j = gtfs THEN "importgtfs"
                   ELSE IF j = seed THEN "seedrealtimefromfile"
                   ELSE "importrealtime"]
=============================================================================
