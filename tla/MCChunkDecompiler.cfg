SPECIFICATION DriverSpec
CONSTANTS
  MainLength = 4
  Chunks <- MCChunks
  Budgets = {7}
  MaxDepth = 4
  MaxUsize = 9
INVARIANTS
  OrderIsTopological
  SearchInvariant
  PlanIsExact
  RefusalIsJustified
  OverflowIsCharged
  PlanIsFollowed
  WorkIsPlanned
  ReleasedIsUnneeded
  EveryClosureLinks
PROPERTIES
  DriverReturns
CHECK_DEADLOCK FALSE
