SPECIFICATION Spec
CONSTANTS
  Replicas = {r1, r2}
  Requests = {q1}
  Occurrences = {1, 2}
  Grace = 0
  FaultKinds = {"lock", "overlap", "read", "insert", "enqueue", "release", "election", "load", "publish", "listener", "shutdown", "crash"}
  MaxMinute = 2
  MaxExpiries = 1
  MaxFaults = 1
  NoReplica = NoReplica
  NoLock = NoLock
INVARIANTS TypeOK OneRunPerOccurrence NoOverlap
CHECK_DEADLOCK FALSE
SYMMETRY Symmetry
