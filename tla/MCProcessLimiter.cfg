SPECIFICATION FairSpec
CONSTANTS
  Launches = {l1, l2, l3}
  MaxProcesses = 2
  Faults = {"timeout", "spawn", "late", "slow", "stuck"}
INVARIANTS TypeOK AdmissionBound Accounted ShutdownLeavesNothing PermitsOwned
PROPERTIES LaunchEnds
CHECK_DEADLOCK FALSE
