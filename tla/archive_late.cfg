SPECIFICATION Spec
CONSTANTS
  Slot = {r1}
  NTables = 1
  Lookback = 2
  Retain = 3
  Lag <- TwoDaysLate
  MaxMissed = 0
  MaxDay = 6
  MaxVer = 2
SYMMETRY Slots
INVARIANTS
  FinalHotInLake
