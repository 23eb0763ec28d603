SPECIFICATION Spec
CONSTANTS
  NodeCount = 4
  Gates = {2, 3}
  Officers = {o1, o2, o3}
  Cancels = TRUE
  MaxCrashResumes = 0
  MaxDeliveries = 1
  SlowRuns = FALSE
  Expiry = FALSE
  FaultKinds = {}
  MaxJobs = 4
  MaxFaults = 0
SYMMETRY Sym
INVARIANTS GateNeedsDecision NodeOnce
PROPERTIES ImplementsPromise CancelStopsLaterTasks
CHECK_DEADLOCK FALSE
