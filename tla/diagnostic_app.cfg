CONSTANTS
  code = code
  x1 = x1
  x2 = x2
  NoSend = NoSend
  Sends = {x1}
  Screens <- MCScreens
  Items = {code}
  MaxScreens = 2
  MaxLoops = 2
  MaxPending = 2
  MaxFaults = 1
SPECIFICATION FairSpec
INVARIANTS
  TypeOK
  ShownIsCurrent
PROPERTIES
  OnlyCarAndGoneScreensAreFatal
  ListCatchesUp
  EveryClickIsAnswered
CHECK_DEADLOCK FALSE
