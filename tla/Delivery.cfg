SPECIFICATION FairSpec
CONSTANTS
  Jobs = {j1, j2}
  Workers = {w1, w2}
  NoWorker = NoWorker
  Unroutable = {j2}
  MaxRetries = 1
  BatchLimit = 1
  LeaseFor = 1
  Grace = 1
  Timeout = 1
  Backoff = 1
  Delay = 1
  Retention = 1
  MaxFaults = 3
INVARIANTS TypeOK ExclusiveExecution SetMatchesState NothingRetryableLost DeadIsEarned
  HandlerKeepsLease RunnerIsRecorded EveryRunCounted BoundedRuns
PROPERTIES Lifecycle EventuallySettled
CHECK_DEADLOCK FALSE
