SPECIFICATION Spec
CONSTANTS
  NSlices = 2
  MaxStep = 1
  MaxAttempts = 3
  Modes = {"sequential", "fork_join", "pooled"}
  Faults = {"call", "torn", "reject", "discard", "publish", "published", "finalize", "recover"}
INVARIANTS TypeOK ManifestsCoherent LineageContinuous WayBack
PROPERTIES AcknowledgedBeforeCommit
CHECK_DEADLOCK FALSE
