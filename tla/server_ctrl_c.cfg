CONSTANTS
  rpm = rpm
  bogus = bogus
  foreign = foreign
  HalfDid = HalfDid
  KnownDids = {rpm}
  UnknownDids = {bogus}
  ForeignSessions = {foreign}
  Arrivals <- MCTwoArrivals
  MaxRequests = 2
  Faults = {"signal"}
SPECIFICATION FairSpec
PROPERTIES
  ShutdownCompletes
CHECK_DEADLOCK FALSE
