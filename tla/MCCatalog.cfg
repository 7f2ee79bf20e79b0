SPECIFICATION Spec
CONSTANTS
  Jobs = {1, 2, 3, 4}
  QueueOf <- MCQueueOf
  TaskOf <- MCTaskOf
  CreatedAt <- MCCreatedAt
  StartsIn <- MCStartsIn
  Scores = {1, 2}
  Filters <- MCFilters
  AnyValue = AnyValue
  maxPageSize = 2
  maxBulkRetry = 3
  MaxMoves = 2
INVARIANTS ListMatchesReference SteadyListedOnce StatsCountSteady BulkRetriesLongestDead
CHECK_DEADLOCK FALSE
