SPECIFICATION FairSpec
CONSTANTS
  Queues = {1, 2}
  Pools = {"a", "b", "c"}
  Config <- MCConfig
  Names = {"", "high", "urgent"}
  Band = 4
  MaxTime = 1
  MaxPending = 2
PROPERTIES PauseHolds HeavierQueuesFirst BestJobFirst FirstQueueIsServed
CHECK_DEADLOCK FALSE
