SPECIFICATION MCSpec
CONSTANTS
  Requests = {r1, r2, r3}
  Operations = {"update", "patch", "deploy", "undeploy", "rollback", "erase", "archive", "restore", "delete", "rotate", "duplicate"}
  Keep = 1
  MaxDeaths = 1
  Graphs = {"plain", "hooked"}
  Refused = {}
  Hooked = {"hooked"}
  NoToken = NoToken
  Calls = {q1, q2}
  Kinds = {"file", "webhook"}
  Processes = {p1}
  Callers <- Identities
  Scopes = {"org"}
  CacheTTL = 1
  Grace = 0
  Replay = 0
  Window = 2
  HookLimit = 1
  MaxTime = 2
  MaxHalts = 1
  MaxRotations = 1
  MaxFaults = 1
SYMMETRY Symmetry
CHECK_DEADLOCK FALSE
INVARIANTS AuthoringSound AdmissionSound
PROPERTIES ImplementsLineage HaltBites
