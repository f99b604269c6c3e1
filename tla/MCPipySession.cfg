SPECIFICATION FairSpec
CONSTANTS
  Pods = {p1, p2}
  Limits = {0, 1}
  MaxCleanups = 2
INVARIANTS
  
  SessionsAreRegistered
  RegisteredIsServed
PROPERTIES
  ServedPodsStay
  RegistryFollowsPods
CHECK_DEADLOCK FALSE
