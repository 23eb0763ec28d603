SPECIFICATION Spec
CONSTANTS
  NodeCount = 2
  Gates = {1}
  Officers = {o1}
  Cancels = TRUE
  MaxCrashResumes = 1
  MaxDeliveries = 1
  SlowRuns = FALSE
  Expiry = TRUE
  FaultKinds = {"worker", "save", "enqueue", "cache", "api", "sweeper", "timer", "insert"}
  MaxJobs = 5
  MaxFaults = 1
INVARIANTS TypeOK CrashResumesBounded
CHECK_DEADLOCK FALSE
