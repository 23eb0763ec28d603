SPECIFICATION MCSpec
CONSTANTS
  Jobs = {j1, j2, j3}
  Procs = {p1, p2}
  Concurrency = 1
  PromoteLimit = 2
  NoJob = NoJob
  MaxRetries = 2
  ClaimCount = 2
  SlowJobs = TRUE
  MaxEntries = 3
  MaxEnds = 2
  MaxFaults = 1
SYMMETRY Sym
INVARIANTS QueueSound RetriesBounded FinalStatusAtRest RunsBounded
PROPERTIES ImplementsLedger
CHECK_DEADLOCK FALSE
