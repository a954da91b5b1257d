SPECIFICATION Spec
CONSTANTS
  Fuel = 14
  Prototypes <- MCPrototypes
  Oracles <- MCOracles
INVARIANTS LiftedMeansTheSame CompiledLifts OriginsMatch
CHECK_DEADLOCK FALSE
