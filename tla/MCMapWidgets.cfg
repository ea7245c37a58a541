SPECIFICATION Spec
CONSTANTS
  r1 = r1
  r2 = r2
  s1 = s1
  s2 = s2
  None = None
  Focus = s1
  Route <- MCRoute
  Stop <- MCStop
  Map <- MCMap
  MaxRequests = 2
INVARIANTS
  IInv
  ShowsWhatWasAsked
PROPERTIES
  
  LoadingEnds
  PanelIsSwitches
CHECK_DEADLOCK FALSE
