SPECIFICATION FairSpec
CONSTANTS
  Calls = 3
  RequestLen <- Requests
  ResponseLen <- Responses
  MaxLen = 3
  IdModulus = 4
  MaxLosses = 2
  MaxFaults = 2
  MaxDrops = 2
CHECK_DEADLOCK FALSE
INVARIANTS
  TypeOK
  WholeRequests
  OwnAnswer
PROPERTIES
  RunsAtMostOnce
  EachCallEnds
