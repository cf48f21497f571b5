SPECIFICATION Spec
CONSTANTS
  Slot = {s1, s2, s3}
  Asset = {"national"}
  Request = {"intensity"}
  Key = {"n0"}
  RequestsOf <- AssetRequests
  KeysOf <- ResponseKeys
  WithActual = {"intensity"}
  MaxAttempts = 3
  MaxRev = 3
  None = None
SYMMETRY Slots
INVARIANTS
  TypeOK
  HotComesFromSource
  PendingIsMerge
PROPERTIES
  RealisedKept
