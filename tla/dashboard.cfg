CONSTANTS
  Polled <- MCPolled
  Values <- MCValues
  Missing = Missing
  MaxPending = 2
  MaxChanges = 2
SPECIFICATION FairSpec
INVARIANTS
  TypeOK
  ViewFollowsFlows
PROPERTIES
  DashboardCatchesUp
CHECK_DEADLOCK FALSE
