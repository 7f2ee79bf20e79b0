SPECIFICATION FairInspectorSpec
CONSTANTS
  Jobs = {j1}
  Workers = {w1, w2}
  NoWorker = NoWorker
  Unroutable = {}
  MaxRetries = 1
  BatchLimit = 1
  LeaseFor = 1
  Grace = 1
  Timeout = 1
  Backoff = 1
  Delay = 1
  Retention = 1
  MaxFaults = 1
  Operators = {o1, o2}
  Requests = {"retry", "retryAll", "kill", "delete"}
  MaxRequests = 2
  PageLimit = 1
INVARIANT EveryRunWasOffered
PROPERTIES OnlySaveResurrects ThroughIsFinal QueueDrains
CHECK_DEADLOCK FALSE
