CONSTANTS
  foreign = foreign
  HalfDid = HalfDid
  KnownDids <- MCKnownDids
  UnknownDids <- MCUnknownDids
  ForeignSessions = {foreign}
  Interfaces = {"can0"}
  Can0 = "can0"
  BufferSize = 10
  MaxPdu = 12
  Faults = {}
  ReaderRequests <- MCReaderRequests
  MaxRuns = 1
SPECIFICATION BenchSpec
INVARIANTS
  ClientTestAsAnnounced
CHECK_DEADLOCK FALSE
