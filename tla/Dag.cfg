SPECIFICATION MCSpec
CONSTANTS
  NodeCount = 4
  Kinds = {"trigger", "cond", "switch", "soft", "gate"}
  MaxSpecial = 2
  MaxRestarts = 1
INVARIANTS TypeOK CompletedSettlesAll SkippedExactly FailureHasCulprit
PROPERTIES ParentsFirst RecordedNotRerun
CHECK_DEADLOCK FALSE
