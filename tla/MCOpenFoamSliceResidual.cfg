SPECIFICATION Spec
CONSTANTS
  SliceCount = 2
  MaxSteps = 1
  MaxRuns = 1
  MaxProcesses = 2
  Modes = {"pooled"}
  Faults = {"crash"}
INVARIANT Clean
CHECK_DEADLOCK FALSE
