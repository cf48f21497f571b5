SPECIFICATION Spec
CONSTANTS
  Slot = {r1, r2}
  NChunks = 2
  OnePerDay = TRUE
  MaxDay = 3
  None = None
SYMMETRY Slots
INVARIANTS
  TypeOK
  OnlyWholeDumps
  StoredMeansBackedUp
