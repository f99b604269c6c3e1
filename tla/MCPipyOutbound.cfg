SPECIFICATION FairSpec
CONSTANTS
  Requests = {r1, r2}
  Clusters = {"a", "b", "d"}
  TargetClusters <- MCTargetClusters
  Endpoints <- MCEndpoints
  WithPath = {"a2", "d2", "b1"}
  NumRetries <- MCNumRetries
  Breakers = {"a"}
  MinRequestAmount = 2
  StatTimeWindow = 1
  DegradedTimeWindow = 2
  ErrorAmountThreshold = 2
  ErrorRatioThreshold = 60
  SlowAmountThreshold = 2
  SlowRatioThreshold = 50
  DegradedStatusCode = "5xx"
  None = None
INVARIANTS
  CallsAreBounded
  
  PathsDoNotPileUp
PROPERTIES
  OpensForCause
  ClosesInTime
  EveryRequestAnswered
CHECK_DEADLOCK FALSE
