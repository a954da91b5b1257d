SPECIFICATION Spec
CONSTANTS
  Functions <- MCFunctions
  Budgets <- MCBudgets
  MaxSteps = 12
INVARIANTS
  ReadsAreKept
  RemovedIsMerged
CHECK_DEADLOCK FALSE
