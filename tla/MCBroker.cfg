SPECIFICATION FairSpec
CONSTANTS
  Messages <- MCMessages
  MaxAdds = 3
  SlidingWindow = 2
  MaxWindow = 3
INVARIANTS
  TimersFollowBatch
  HeldAtMostWindow
  DispatchAccounting
PROPERTIES
  NoUpdateDropped
  EveryUpdatePublished
CHECK_DEADLOCK FALSE
