SPECIFICATION Spec
CONSTANTS
  ByteLimit = 256
  MaxDepth = 3
  FieldsPerFlush = 50
  Fuel = 14
  Budget = 40
  Chunks <- MCChunks
  Oracles <- MCOracles
INVARIANTS LiftedMeansTheSame ValidatedLifts PlanIsLifted
CHECK_DEADLOCK FALSE
