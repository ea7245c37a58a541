SPECIFICATION InputSpec
CONSTANTS
  a = a
  b = b
  c = c
  Points <- MCPoints
  Lines <- MCLines
  Stops <- MCStops
  Seqs = {1, 2, 3}
  FeedRows <- MCFeedRows
  Row <- MCRows
  Column <- MCColumn
  Numeric = {"number"}
  Number <- MCNumber
  TextRank <- MCTextRank
  MaxListeners = 3
  HourLen = 12
  MinuteLen = 2
  Before = 2
  After = 12
  Delays <- MCDelays
  GtfsTimes <- MCGtfsTimes
INVARIANTS
  HeadingIsNearest
  
  EtaIsTrue
  BoardInOrder
  ArrowTellsOrder
CHECK_DEADLOCK FALSE
