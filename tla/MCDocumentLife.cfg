SPECIFICATION Spec
CONSTANTS
  DefaultMaxRetries = 1
  DefaultBaseDelay = 2
  DefaultMaxDelay = 4
  MaxAllowedRetries = 2
  MaxAllowedBaseDelay = 4
  PerMilli = 2
  PerSecond = 2
  DefaultTimeout = 2
  MaxTimeout = 4
  leaseGrace = 2
  Requests <- MCRequests
  LeaseFor = 4
  Retention = 2
  Worker = "w"
  Start = 3
  End = 11
  MaxTrail = 3
INVARIANTS ReadBack StampsMatchState DueWithinPolicy OpenAttemptsAreOrphans
PROPERTIES NeverEarly ScriptsMatchAggregate
CHECK_DEADLOCK FALSE
