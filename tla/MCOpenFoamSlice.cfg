SPECIFICATION FairSpec
CONSTANTS
  SliceCount = 2
  MaxSteps = 2
  MaxRuns = 2
  MaxProcesses = 1
  Modes = {"oneshot", "limited", "persistent", "pooled"}
  Faults = {"crash", "hang", "slow"}
INVARIANTS TypeOK AcceptedIsRead LoadAnswersMotion NoFalseAlarm ContinuesCommitted CleanExit
PROPERTIES StepEnds ImplementsExchange
CHECK_DEADLOCK FALSE
