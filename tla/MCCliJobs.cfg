SPECIFICATION FairSpec
CONSTANTS
  gtfs = gtfs
  rt1 = rt1
  rt2 = rt2
  seed = seed
  Nobody = Nobody
  Orphan = Orphan
  Job <- MCJob
  CommandOf <- MCCommandOf
  Files = 2
  MaxImports = 1
  MaxFaults = 1
INVARIANTS
  SameCommandExclusive
  OutdatedOnlyByRace
PROPERTIES
  RealtimeCatchesUp
