CONSTANTS
  None = None
  MaxOrders = 3
  Step = 2
  Lot = 6
  Slips <- OneSlip
  PollEvery = 2
  MaxCloseRetries = 2
  MaxConsecLosses = 2
  Faults <- PartialFills
SPECIFICATION Spec
INVARIANTS
  OneEntryOrderLive
