CONSTANTS
  rpm = rpm
  speed = speed
  bogus = bogus
  foreign = foreign
  HalfDid = HalfDid
  KnownDids = {rpm, speed}
  UnknownDids = {bogus}
  ForeignSessions = {foreign}
  t1 = t1
  t2 = t2
  Callers = {t1, t2}
  Calls <- MCAllCalls
  MaxCalls = 3
  Faults = {"late", "write_error", "socket_error", "lose", "restart"}
SPECIFICATION FairSpec
INVARIANTS
  TypeOK
  AnswersOwnCall
  NothingLeftOver
  SessionAgreement
  OutOfStepForGood
PROPERTIES
  EveryCallReturns
CHECK_DEADLOCK FALSE
