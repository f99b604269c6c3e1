SPECIFICATION FairSpec
CONSTANTS
  Proxies = {p1}
  Configs = {1, 2}
  MaxChanges = 2
  MaxFailures = 2
  MaxRestarts = 2
  MaxCrashes = 1
  MaxReregistrations = 2
INVARIANTS
  CommittedIsWhole
  
  
PROPERTY EventuallyPublishes
CHECK_DEADLOCK FALSE
