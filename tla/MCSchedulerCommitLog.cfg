SPECIFICATION Spec
CONSTANTS
  NSlices = 2
  MaxStep = 1
  MaxAttempts = 2
  Modes = {"sequential", "fork_join", "pooled"}
  Faults = {"commit_log"}
INVARIANTS NoSecondCommit
CHECK_DEADLOCK FALSE
