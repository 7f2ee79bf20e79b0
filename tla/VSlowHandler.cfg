SPECIFICATION Spec
CONSTANTS
  Jobs = {j1, j2}
  Workers = {w1, w2}
  NoWorker = NoWorker
  Unroutable = {j2}
  MaxRetries = 1
  BatchLimit = 1
  LeaseFor = 1
  Grace = 1
  Timeout = 3
  Backoff = 1
  Delay = 1
  Retention = 1
  MaxFaults = 2
INVARIANT SlowHandlerKeepsLease
CHECK_DEADLOCK FALSE
