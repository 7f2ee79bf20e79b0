SPECIFICATION FairSpec
CONSTANTS
  Requests = {r1, r2, r3}
  Keys = {k1}
  None = None
  Operators = {o1, o2}
  Expiring = TRUE
  FaultKinds = {"refused", "applied", "crash"}
  MaxFaults = 2
INVARIANTS OneJobPerHeldKey DuplicateNamesOriginal RollbackFreesKey
PROPERTY Answered
CHECK_DEADLOCK FALSE
