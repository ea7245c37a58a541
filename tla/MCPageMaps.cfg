SPECIFICATION PageSpec
CONSTANTS
  search = search
  route = route
  stop = stop
  static = static
  nearby = nearby
  agency = agency
  NoPage = NoPage
  Page <- MCPage
  KindOf <- MCKindOf
  First <- MCFirst
  Pushes <- MCPushes
  Replaces <- MCReplaces
  FrameLimit = 2
  MaxBodies = 4
  MaxRefreshes = 1
  MaxFaults = 2
INVARIANTS
  ShowsItsOwn
  
PROPERTIES
  RefreshComesBack
  MapArrives
CHECK_DEADLOCK FALSE
