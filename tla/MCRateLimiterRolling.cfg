CONSTANTS
  WeightPerMin = 3
  OrdersPerMin = 2
  OrdersPer10Sec = 4
  Minute = 3
  TenSec = 2
  Weights <- MCWeights
  MaxTime = 6
SPECIFICATION Spec
INVARIANT RollingWindowRespected
