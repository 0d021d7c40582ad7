SPECIFICATION FairSpec
CONSTANTS
  MaxRuns = 2
  MaxAttempts = 2
  MaxBlocks = 2
  MaxSyncs = 1
INVARIANTS
  TypeOK
  OneLoop
  StaleAttemptCancelled
PROPERTIES
  StopReturns
  CancelledSearchEnds
  WatchersEnd
CHECK_DEADLOCK FALSE
