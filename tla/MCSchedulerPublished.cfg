SPECIFICATION Spec
CONSTANTS
  NSlices = 2
  MaxStep = 1
  MaxAttempts = 2
  Modes = {"sequential", "fork_join", "pooled"}
  Faults = {"publish", "published"}
INVARIANTS NoUnhandledCommit
CHECK_DEADLOCK FALSE
