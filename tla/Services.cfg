SPECIFICATION MCSpec
CONSTANTS
  Jobs = {j1, j2, j3}
  MinSize = 1
  MaxSize = 2
  MaxContainers = 3
  MaxReaps = 1
  MaxDeaths = 1
  MaxFaults = 1
  Runs = {j1, j2, j3}
  MaxConcurrent = 2
  Timeout = 1
  SlotTTL = 2
  Limit = 1
  MaxPauses = 1
  MaxTime = 3
  Calls = {1, 2, 3, 4}
  Threshold = 2
  Recovery = 2
  MaxClock = 4
  Users = {"u1", "u2"}
  Window = 2
  UserLimit = 1
  OrgLimit = 2
  MaxCalls = 5
  Context = 12
  Buffer = 1
  Ceiling = 10
  OutputCaps = {2, 6}
  InputCap = 9
  Systems = {0, 2}
  Prompts = {0, 1, 4, 8, 10, 11, 12}
  Wanted = {1, 4, 9}
  Attempts = 3
  ToolRounds = 2
  Readers = {j1, j2, j3}
  MaxVersion = 2
SYMMETRY Symmetry
INVARIANTS SlotsSound LimiterSound LlmSound PoolSound FilesTagNotNewer
PROPERTY BreakerLeftAlone
CHECK_DEADLOCK FALSE
