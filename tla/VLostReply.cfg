SPECIFICATION Spec
CONSTANTS
  Requests = {r1, r2, r3}
  Keys = {k1}
  None = None
  Operators = {}
  Expiring = FALSE
  FaultKinds = {"applied"}
  MaxFaults = 1
INVARIANT OneJobPerKey
CHECK_DEADLOCK FALSE
