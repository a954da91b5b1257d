SPECIFICATION CopySpec
CONSTANTS
  x1 = x1
  x2 = x2
  x3 = x3
  x4 = x4
  x5 = x5
  Spill = spill
  MaxWidth = 5
  Locals <- MCLocals
  Assignments <- MCAssignments
PROPERTIES
  Implements
CHECK_DEADLOCK FALSE
