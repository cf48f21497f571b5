SPECIFICATION FairSpec
CONSTANTS
  Migrator = {m1, m2, m3}
  NFiles = 3
  Repeatable = {1, 3}
  MaxFailures = 1
INVARIANTS
  TypeOK
  LedgerIsTruthful
  EachFileOnce
  AppliedInOrder
  DoneMeansApplied
PROPERTIES
  Converges
  UpgradesAtomically
