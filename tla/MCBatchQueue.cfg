SPECIFICATION FairQueueSpec
CONSTANTS
  c1 = c1
  c2 = c2
  Consumer <- MCConsumer
  Batches <- MCBatches
  QueueMax <- MCQueueMax
CHECK_DEADLOCK FALSE
INVARIANTS
  ImportedIsComplete
  LossIsBounded
PROPERTIES
  Terminates
