SPECIFICATION Spec
CONSTANTS
  Symbols = {btc, eth}
  Capacity = 2
  ReconnectBase = 1
  ReconnectMax = 3
  MaxTicks = 2
  Nobody = Nobody
PROPERTIES TicksRouted
CHECK_DEADLOCK FALSE
