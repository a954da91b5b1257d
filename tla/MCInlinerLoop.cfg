SPECIFICATION Spec
CONSTANTS
  x = x
  u = u
  v1 = v1
  v2 = v2
  v3 = v3
  v4 = v4
  Locals = {x, u, v1, v2, v3, v4}
  Names = {"f1", "f2", "f3", "f4"}
  Cases <- LoopCases
INVARIANTS
  ArgumentsAreIndependent
CHECK_DEADLOCK FALSE
