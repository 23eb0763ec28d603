SPECIFICATION Spec
CONSTANTS
  NodeCount = 2
  Gates = {1}
  Officers = {}
  Cancels = FALSE
  MaxCrashResumes = 1
  MaxDeliveries = 1
  SlowRuns = TRUE
  Expiry = FALSE
  FaultKinds = {}
  MaxJobs = 4
  MaxFaults = 0
INVARIANTS GateNeedsApproval
CHECK_DEADLOCK FALSE
