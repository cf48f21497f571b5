SPECIFICATION Spec
CONSTANTS
  Slot = {r1, r2}
  NChunks = 2
  OnePerDay = FALSE
  MaxDay = 1
  None = None
SYMMETRY Slots
INVARIANTS
  OnlyWholeDumps
