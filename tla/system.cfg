CONSTANTS
  rpm = rpm
  bogus = bogus
  t1 = t1
  t2 = t2
  HalfDid = HalfDid
  KnownDids = {rpm}
  UnknownDids = {bogus}
  ForeignSessions = {}
  Arrivals <- MCArrivals
  MaxRequests = 0
  Faults = {"signal", "socket_error", "throw"}
  Callers = {t1, t2}
  Calls <- MCCalls
  MaxCalls = 2
  ClientFaults = {"write_error"}
  MaxStarts = 1
SPECIFICATION FairSystemSpec
PROPERTIES
  ImplementsExchange
  SessionDecidesReads
  EveryCallIsServed
CHECK_DEADLOCK FALSE
