CONSTANTS
  code = code
  x1 = x1
  x2 = x2
  NoSend = NoSend
  Sends = {x1, x2}
  Screens <- MCScreens
  Items = {code}
  MaxScreens = 1
  MaxLoops = 1
  MaxPending = 1
  MaxFaults = 0
SPECIFICATION Spec
INVARIANTS
  SentReportIsWhole
CHECK_DEADLOCK FALSE
