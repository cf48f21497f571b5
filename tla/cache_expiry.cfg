SPECIFICATION Spec
CONSTANTS
  Thread = {t1, t2}
  Worker = {w1}
  WorkerOf <- OneProcess
  Key = {k1, k2}
  MaxSize = 1
  TTL = 2
  MaxQuery = 1
  MaxTime = 4
INVARIANTS
  MissesHitPostgres
