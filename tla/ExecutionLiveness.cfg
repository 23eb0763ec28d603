SPECIFICATION FairSpec
CONSTANTS
  NodeCount = 2
  Gates = {1}
  Officers = {o1}
  Cancels = TRUE
  MaxCrashResumes = 0
  MaxDeliveries = 2
  SlowRuns = TRUE
  Expiry = FALSE
  FaultKinds = {"worker", "save", "sweeper", "api"}
  MaxJobs = 4
  MaxFaults = 1
PROPERTIES EveryRunSettles
CHECK_DEADLOCK FALSE
