SPECIFICATION MCSpec
CONSTANTS
  N = 3
  Records = {r1, r2}
  Concurrency = 2
  MaxForeignWrites = 1
  Listable = {1, 2, 3, 4, 5}
  Wanted = {1, 3, 4, 5}
  PageSize = 2
  ScanLimit = 4
  MaxRequests = 3
  WalkDepth = 2
  ReturnLimit = 2
  MaxChanges = 2
INVARIANTS OutcomesAreTrue OneWriterPerRecord CompletionAnnounced ReadsWhatStayed RefusedForCause WindowsTile
PROPERTIES StaleWriteOnlyInWindow CallReturns ScanReturns
CHECK_DEADLOCK FALSE
