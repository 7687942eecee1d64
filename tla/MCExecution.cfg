CONSTANTS
  WeightPerMin = 4
  OrdersPerMin = 2
  OrdersPer10Sec = 1
  Minute = 2
  TenSec = 1
  Weights <- MCWeights
  MaxTime = 3
  Threads = {btc, eth}
  Light = 1
  Heavy = 2
  None = None
SPECIFICATION ExecSpec
INVARIANTS
  ExecTypeOK
  ArrivalsBounded
  EveryRequestPaid
CHECK_DEADLOCK FALSE
