--------------------------- MODULE MCBatchQueue ---------------------------
(***************************************************************************)
(* BatchQueue for TLC with the code's own sizes (two consumers, a queue of  *)
(* two) and two batches more than fit in the queue and in the consumers'    *)
(* hands, so that the producer waits.                                       *)
(***************************************************************************)
EXTENDS BatchQueue

CONSTANTS c1, c2

MCConsumer == {c1, c2}
MCBatches == 6
MCQueueMax == 2
=============================================================================
