SPECIFICATION Spec
CONSTANTS
  Intervals <- MCIntervals
  Unset = Unset
  Junk = Junk
  MinTickInterval = 2
  Ids = {t1, t2, t3, t4}
  MaxUpdates = 2
INVARIANT StopNeverBlocks
SYMMETRY MCSymmetry
CHECK_DEADLOCK FALSE
