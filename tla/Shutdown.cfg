SPECIFICATION FairSpec
CONSTANTS
  Workers = {w1, w2}
  Sweeps = {"reclaim"}
  MaxBacklog = 1
  MaxRequests = 1
  MaxFaults = 1
INVARIANTS
  DrainIsComplete
  OneClaimAfterCancel
  APIClosedBeforeDrain
  SweepsOutliveWorkers
PROPERTY ShutdownTerminates
CHECK_DEADLOCK FALSE
