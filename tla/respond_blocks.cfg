\* A reply that leaves exactly nothing of the timeout makes the next wait endless.
SPECIFICATION FairSpec
CONSTANTS
  Timeouts = {3}
  Results <- OnlyOk
  MaxReplies = 1
  MaxLate = 1
  MaxBlocked = 3
  MaxLost = 1
PROPERTY
  RequestReturns
CHECK_DEADLOCK FALSE
