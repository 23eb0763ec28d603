SPECIFICATION LiveSpec
CONSTANTS
  Jobs = {j1}
  Procs = {p1, p2}
  Concurrency = 1
  PromoteLimit = 2
  NoJob = NoJob
  MaxRetries = 2
  ClaimCount = 2
  SlowJobs = FALSE
  MaxEntries = 2
  MaxEnds = 3
  MaxFaults = 0
PROPERTIES EveryJobSettles
CHECK_DEADLOCK FALSE
