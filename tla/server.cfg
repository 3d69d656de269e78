CONSTANTS
  rpm = rpm
  bogus = bogus
  foreign = foreign
  HalfDid = HalfDid
  KnownDids = {rpm}
  UnknownDids = {bogus}
  ForeignSessions = {foreign}
  Arrivals <- MCArrivals
  MaxRequests = 3
  Faults = {"signal", "socket_error", "write_error", "throw"}
SPECIFICATION FairSpec
INVARIANTS
  TypeOK
  FifoService
  NoLostWakeup
  QueueIsGuarded
  ReadsOnlyInAllowedSession
  NoThreadOutlivesServer
PROPERTIES
  ImplementsResponder
  EveryRequestHandled
  ShutdownOnNextRequest
CHECK_DEADLOCK FALSE
