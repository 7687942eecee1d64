CONSTANTS
  MaxConsecLosses = 3
  DailyDdPct = 3
  None = None
  Prices <- MCPrices
  StartBalance = 1340000
  MaxTrades = 4
SPECIFICATION Spec
INVARIANTS
  TypeOK
  DrawdownContained
PROPERTIES
  BracketSound
  SlotSimulated
CHECK_DEADLOCK FALSE
