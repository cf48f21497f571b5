SPECIFICATION Spec
CONSTANTS
  Slot = {r1, r2}
  NTables = 2
  Lookback = 2
  Retain = 3
  Lag <- OneDayLate
  MaxMissed = 0
  MaxDay = 5
  MaxVer = 2
SYMMETRY Slots
INVARIANTS
  TypeOK
  LakeFromHot
  FinalHotInLake
PROPERTIES
  LakeNeverRegresses
  KeepsBothTiers
