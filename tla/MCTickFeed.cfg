CONSTANTS
  Symbols = {btc, eth}
  Capacity = 2
  ReconnectBase = 1
  ReconnectMax = 3
  MaxTicks = 3
  Nobody = Nobody
SPECIFICATION FairSpec
INVARIANTS
  TypeOK
  EngineSeenWhole
PROPERTIES
  TicksInOrder
  ShutdownCompletes
  StreamEndNoticed
  StartFailureFatal
  BackoffSaturates
CHECK_DEADLOCK FALSE
