CONSTANTS
  foreign = foreign
  HalfDid = HalfDid
  KnownDids <- MCKnownDids
  UnknownDids <- MCUnknownDids
  ForeignSessions = {foreign}
  Interfaces = {"can0", "can1"}
  Can0 = "can0"
  BufferSize = 10
  MaxPdu = 12
  Faults = {"no_isotp"}
  ReaderRequests <- MCReaderRequests
  MaxRuns = 4
SPECIFICATION BenchSpec
INVARIANTS
  BenchTypeOK
  FirstTestsPass
  ReadsAreWhole
  OnlyLongResponsesVanish
  SuccessComesOverTheBus
PROPERTIES
  BytesFollowProtocol
CHECK_DEADLOCK FALSE
