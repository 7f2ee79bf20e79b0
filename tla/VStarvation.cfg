SPECIFICATION FairSpec
CONSTANTS
  Queues = {1, 2}
  Pools = {"a"}
  Config <- MCConfig
  Names = {"", "high", "urgent"}
  Band = 4
  MaxTime = 1
  MaxPending = 2
PROPERTY NoQueueStarves
CHECK_DEADLOCK FALSE
