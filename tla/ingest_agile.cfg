SPECIFICATION FairSpec
CONSTANTS
  Slot = {s1, s2}
  Asset = {"agile"}
  Request = {"ratesA", "ratesB"}
  Key = {"pA", "pB"}
  RequestsOf <- AssetRequests
  KeysOf <- ResponseKeys
  WithActual = {}
  MaxAttempts = 3
  MaxRev = 1
  None = None
INVARIANTS
  NobodyWaitsInVain
PROPERTIES
  StoresWholeBatches
  RunsAdvance
  RunsEnd
