SPECIFICATION Spec
CONSTANTS
  Nodes = {0, 1, 2, 3, 4}
  Entry = 0
  Functions <- MCFunctions
INVARIANTS
  AttachedIsOpen
  EpochIsOneVariable
  CompiledIsAccepted
  DetachedIsNotWritten
PROPERTIES
  AnalysisEnds
CHECK_DEADLOCK FALSE
