CONSTANTS
  Polled <- MCPolled
  Values <- MCValues
  Missing = Missing
  MaxPending = 1
  MaxChanges = 0
SPECIFICATION FairSpec
PROPERTIES
  EngineGaugeCatchesUp
CHECK_DEADLOCK FALSE
