SPECIFICATION Spec
CONSTANTS
  NSlices = 2
  MaxStep = 1
  MaxAttempts = 2
  Modes = {"sequential", "fork_join", "pooled"}
  Faults = {"finalize"}
PROPERTIES RecoversThatCheckpoint
CHECK_DEADLOCK FALSE
