CONSTANTS
  n1 = n1
  n2 = n2
  Nodes = {n1, n2}
  Frames = {}
  Requests <- MCRequests
  Answers <- MCAnswers
  Refusals <- MCRefusals
  StrayBytes <- MCStrayBytes
  MaxTransmits = 3
  MaxFailures <- MCMaxFailures
SPECIFICATION UdsSpec
INVARIANTS
  MessagesArriveWhole
CHECK_DEADLOCK FALSE
