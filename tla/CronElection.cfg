SPECIFICATION ElectionSpec
CONSTANTS
  Replicas = {r1, r2}
  Requests = {}
  Occurrences = {1}
  Grace = 0
  FaultKinds = {"lock", "release", "election", "load", "shutdown", "crash"}
  MaxMinute = 1
  MaxExpiries = 1
  MaxFaults = 2
  NoReplica = NoReplica
  NoLock = NoLock
PROPERTIES LeadershipSettles
CHECK_DEADLOCK FALSE
