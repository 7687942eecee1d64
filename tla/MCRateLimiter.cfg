CONSTANTS
  WeightPerMin = 3
  OrdersPerMin = 2
  OrdersPer10Sec = 1
  Minute = 3
  TenSec = 2
  Weights <- MCWeights
  MaxTime = 6
SPECIFICATION Spec
INVARIANTS
  TypeOK
  SustainedRate
  TokensAccountForGrants
PROPERTY RefusedOrderCostsNothing
