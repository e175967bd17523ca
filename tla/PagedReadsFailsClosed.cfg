SPECIFICATION LoopSpec
CONSTANTS
  Listable = {1, 2, 3, 4, 5}
  Wanted = {1, 3, 4, 5}
  PageSize = 2
  ScanLimit = 4
  MaxRequests = 3
  WalkDepth = 2
  ReturnLimit = 2
  MaxChanges = 0
INVARIANT FailsClosed
CHECK_DEADLOCK FALSE
