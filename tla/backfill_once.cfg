SPECIFICATION Spec
CONSTANTS
  Launch = 6
  Known <- WithGaps
  MonthStart <- Months
  ChunkDays = 2
  Lookback = 2
  MaxDay = 9
  MaxRuns = 3
INVARIANTS
  TypeOK
  DoneMeansComplete
  OneCopyPerRun
