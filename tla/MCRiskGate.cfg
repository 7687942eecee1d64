SPECIFICATION Spec
CONSTANTS
  RefreshEvery = 4
  DailyDdPct = 20
  MaxConsecLosses = 2
  InitialBalance = 5
  Loss = 1
  Gain = 1
  MaxBalance = 6
  MaxDay = 2
  MaxMissed = 1
  MaxStrays = 1
  MaxElsewhere = 2
INVARIANTS TypeOK
PROPERTIES OvershootBounded
