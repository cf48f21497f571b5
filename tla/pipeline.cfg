SPECIFICATION FairSpec
CONSTANTS
  Window <- Windows
  Lead <- Leads
  Step <- QuietPrice
  Outage <- Outages
  Retain = 2
  Outlook = 2
  Mart = {"generation_mix_long"}
  Build = {b1, b2}
  MaxRuns <- MixOverlaps
  MaxPeriod = 3
INVARIANTS
  TypeOK
  NoGaps
  OneRunCatchesUp
PROPERTIES
  SettledStaysServed
  MixMartFollows
  EverythingServed
