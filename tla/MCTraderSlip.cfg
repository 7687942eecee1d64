CONSTANTS
  None = None
  MaxOrders = 3
  Step = 1
  Lot = 7
  Slips <- TenthSlips
  PollEvery = 2
  MaxCloseRetries = 2
  MaxConsecLosses = 2
  Faults <- NoFaults
SPECIFICATION Spec
INVARIANTS
  GuaranteedFill
