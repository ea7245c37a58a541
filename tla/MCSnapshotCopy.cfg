SPECIFICATION Spec
CONSTANTS
  importrealtime = importrealtime
  seedrealtimefromfile = seedrealtimefromfile
  Writer <- MCWriter
  Keys = 2
  MaxRuns = 3
SYMMETRY Symmetry
CHECK_DEADLOCK FALSE
INVARIANTS
  ShowsOneSnapshot
  IdsAreReserved
  TablesInStep
