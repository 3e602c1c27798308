SPECIFICATION Spec
CONSTANTS
  MaxStep = 1
  MaxAttempts = 2
  Faults = {"refuse"}
INVARIANTS FinalizeIdempotent
CHECK_DEADLOCK FALSE
