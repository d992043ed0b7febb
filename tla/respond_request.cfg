\* One request with every kind of reply and callback.
SPECIFICATION FairSpec
CONSTANTS
  Timeouts = {1, 3}
  Results <- MCResults
  MaxReplies = 3
  MaxLate = 1
  MaxBlocked = 3
  MaxLost = 2
INVARIANTS
  TypeOK
  WaitsInTime
  WaitsLongEnough
PROPERTY
  ReturnsOrBlocks
CHECK_DEADLOCK FALSE
