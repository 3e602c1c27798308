SPECIFICATION FairSpec
CONSTANTS
  NSlices = 2
  MaxStep = 1
  MaxAttempts = 3
  Modes = {"sequential", "fork_join", "pooled"}
  Faults = {"call", "torn", "silent", "reject", "discard", "publish", "published", "finalize", "commit_log", "recover", "restore"}
INVARIANTS CommitInv FailedIsQuiet
PROPERTIES ImplementsCommitTree ImplementsStaging StepEnds
CHECK_DEADLOCK FALSE
