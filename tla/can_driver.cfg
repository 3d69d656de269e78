CONSTANTS
  n1 = n1
  n2 = n2
  Nodes = {n1, n2}
  Frames <- MCFrames
  StrayBytes <- MCStrayBytes
  MaxTransmits = 2
  MaxFailures <- MCMaxFailures
SPECIFICATION FairSpec
INVARIANTS
  TypeOK
  NothingReceivedIsLost
  SentAsAccepted
  ArrivesIntact
PROPERTIES
  CompletionMeansSent
  CompletionIsReported
CHECK_DEADLOCK FALSE
