SPECIFICATION FairSpec
CONSTANTS
  Keys = {k1}
  Clients = {c1, c2}
  ClientOps = {"issue", "get"}
  Rotator = Rotator
  Issuers = {A, B}
  NoIssuer = NoIssuer
  NoCert = NoCert
  Validity = 9
  RenewBefore = 2
  Noise = 0
  CheckInterval = 0
  MaxTime = 0
  MaxMRCEvents = 2
  MaxReleases = 1
  MaxFailures = 1
INVARIANTS
  
  HoldersAreTold
PROPERTY ConvergesToIssuers
CHECK_DEADLOCK FALSE
