SPECIFICATION Spec
CONSTANTS
  Steps = 3
  MaxIterations = 4
  Versions = {"v1", "v2"}
  Faults = {"construct", "trial", "evidence", "discard", "promote", "shutdown"}
INVARIANTS TypeOK HeldIsPromoted Coherent RestoresPredictor OneEngine OnlyLastOrphan CleanEnd PromotedNotDiscarded
PROPERTIES Ends Implements
CHECK_DEADLOCK FALSE
