SPECIFICATION Spec
CONSTANTS
  Cases <- MCCases
  RecoveryRounds = 4
  SlotScanLimit = 3
  FlagNames <- MCFlagNames
  EventLimit = 7
  LocalOrder <- MCLocalOrder
  FunctionBudget = 3
  MinScopeDeclarations = 2
  MinimumBudget = 1
  MaxAddedDepth = 2
  MaxGroup = 3
  Oracles <- MCOracles
INVARIANTS
  BindingsResolve
  Lua51HasNoContinue
  
PROPERTIES
  PassesKeepMeaning
CHECK_DEADLOCK FALSE
