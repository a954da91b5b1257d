SPECIFICATION SchedulerSpec
CONSTANTS
  a = a
  b = b
  c = c
  broken = broken
  Functions = {a, b, c, broken}
  Broken = {broken}
  MaxRounds = 2
  Passes <- MCPasses
  Fingerprints <- MCFingerprints
INVARIANTS
  FactsAreCurrent
  ResultIsStable
  RepeatedIsACircle
  LimitMeansProgress
PROPERTIES
  IdleRoundIsRepeated
  SchedulerReturns
CHECK_DEADLOCK FALSE
