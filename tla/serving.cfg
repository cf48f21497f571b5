SPECIFICATION FairServing
CONSTANTS
  Thread = {t1, t2}
  Worker = {w1}
  WorkerOf <- OneProcess
  Key = {k1, k2}
  MaxSize = 1
  TTL = 2
  MaxQuery = 0
  MaxTime = 3
  Slot = {s1}
  Served = {"current", "status"}
  MaxOutages = 1
INVARIANTS
  TypeOK
  ServingTypeOK
  BoundedStaleness
  RecoversByItself
  ConnectionsAreSafe
PROPERTIES
  RequestsAdvance
  RequestsEnd
