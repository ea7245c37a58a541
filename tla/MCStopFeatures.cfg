SPECIFICATION Spec
CONSTANTS
  s1 = s1
  s2 = s2
  Scripts <- MCScripts
  MaxArchives = 2
  MaxImports = 2
  MaxForced = 1
  MaxFaults = 1
INVARIANTS
  OneCopy
  FeaturesHaveStops
PROPERTY
  CatchesUp
