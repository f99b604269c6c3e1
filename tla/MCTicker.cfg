SPECIFICATION FairSpec
CONSTANTS
  Intervals <- MCIntervals
  Unset = Unset
  Junk = Junk
  MinTickInterval = 2
  Ids = {t1, t2, t3, t4}
  MaxUpdates = 3
INVARIANTS
  TickerFollowsConfig
  GuardedStopHasTaker
PROPERTY ResyncsContinue
CHECK_DEADLOCK FALSE
