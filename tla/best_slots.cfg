SPECIFICATION FairSpec
CONSTANTS
  Window <- Windows
  Lead <- Leads
  Step <- DailyPrice
  Outage <- Outages
  Retain = 2
  Outlook = 2
  Mart = {"half_hourly", "best_slots_24h", "generation_mix_long"}
  Build = {b1}
  MaxRuns <- OneEach
  MaxPeriod = 3
PROPERTIES
  RanksUpcoming
