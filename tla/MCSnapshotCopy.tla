--------------------------- MODULE MCSnapshotCopy ---------------------------
(***************************************************************************)
(* SnapshotCopy for TLC: the two commands that import trip updates, three   *)
(* runs (two that meet and one after them), two keys, so that snapshots can *)
(* be empty, equal, overlapping or disjoint.  The commands do the same here  *)
(* and no liveness is checked: they are interchangeable.                    *)
(***************************************************************************)
EXTENDS SnapshotCopy, TLC

CONSTANTS importrealtime, seedrealtimefromfile

MCWriter == {importrealtime, seedrealtimefromfile}

Symmetry == Permutations(MCWriter)
=============================================================================
