SPECIFICATION Spec
CONSTANTS
  Keys = {k1}
  Clients = {c1, c2}
  ClientOps = {"issue", "get"}
  Rotator = Rotator
  Issuers = {A}
  NoIssuer = NoIssuer
  NoCert = NoCert
  Validity = 9
  RenewBefore = 2
  Noise = 0
  CheckInterval = 0
  MaxTime = 0
  MaxMRCEvents = 1
  MaxReleases = 0
  MaxFailures = 0
INVARIANT IssueReturnsCertificate
CHECK_DEADLOCK FALSE
