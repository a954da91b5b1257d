SPECIFICATION Spec
CONSTANTS
  Functions <- MCFunctions
  MaxSteps = 10
INVARIANTS
  ReadsAreTheSame
  GroupsStayApart
