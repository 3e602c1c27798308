SPECIFICATION FairSpec
CONSTANTS
  MaxStep = 1
  MaxAttempts = 3
  Faults = {"refuse", "unwritten", "exit", "timeout", "step", "crash"}
INVARIANTS TypeOK InStep NativeMatchesJson CallsLegal
PROPERTIES ImplementsContract CallEnds
CHECK_DEADLOCK FALSE
