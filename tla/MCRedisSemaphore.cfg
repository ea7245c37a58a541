SPECIFICATION Spec
CONSTANTS
  p1 = p1
  p2 = p2
  p3 = p3
  t1 = t1
  t2 = t2
  t3 = t3
  t4 = t4
  t5 = t5
  NoToken = NoToken
  Process <- MCProcess
  Token <- MCToken
  Limit <- MCLimit
  TTL <- MCTTL
SYMMETRY Symmetry
INVARIANTS
  AtMostLimit
PROPERTIES
  RefusedOnlyWhenFull
  ImplementsLeasePool
