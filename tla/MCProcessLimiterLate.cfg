SPECIFICATION Spec
CONSTANTS
  Launches = {l1, l2}
  MaxProcesses = 1
  Faults = {"late"}
INVARIANTS ReleasedByWatcher
CHECK_DEADLOCK FALSE
