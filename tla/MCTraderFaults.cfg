CONSTANTS
  None = None
  MaxOrders = 2
  Step = 2
  Lot = 6
  Slips <- OneSlip
  PollEvery = 2
  MaxCloseRetries = 2
  MaxConsecLosses = 1
  Faults <- AllFaults
SPECIFICATION Spec
INVARIANTS
  TypeOK
  AttemptsLeft
  SlotMatchesExchange
PROPERTIES
  CloseOnlyReduces
  SlotKept
