SPECIFICATION Spec
CONSTANTS
  s1 = s1
  s2 = s2
  m1 = m1
  Scripts <- MCScripts
  Manual <- MCManual
  FileSeq <- MCFileSeq
  CopyFiles <- MCCopyFiles
  Nobody = Nobody
  Orphan = Orphan
  MaxFeeds = 2
  MaxManual = 1
  MaxFaults = 1
INVARIANTS
  CompletedIsWhole
  TablesOfOneFeed
  IndexesComeBack
PROPERTIES
  
  CatchesUp
