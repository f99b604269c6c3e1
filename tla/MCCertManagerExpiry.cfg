SPECIFICATION Spec
CONSTANTS
  Keys = {k1, k2}
  Clients = {c1}
  ClientOps = {"issue"}
  Rotator = Rotator
  Issuers = {A}
  NoIssuer = NoIssuer
  NoCert = NoCert
  Validity = 5
  RenewBefore = 3
  Noise = 1
  CheckInterval = 2
  MaxTime = 6
  MaxMRCEvents = 1
  MaxReleases = 0
  MaxFailures = 0
INVARIANTS
  NoCachedCertExpired
SYMMETRY MCKeySymmetry
CHECK_DEADLOCK FALSE
