\* Up to two runs with two destinations to ping.
SPECIFICATION Spec
CONSTANTS
  Dests = {d1, d2}
  MaxRuns = 2
  SettingsFiles <- UsualFiles
INVARIANTS
  TypeOK
  IInv
  PlotsCompleteData
  InterruptsSuffice
  StuckNeedsEarlierRun
PROPERTIES
  CampaignEnds
\* The campaign ends or dies, or waits for good (CampaignEnds).
CHECK_DEADLOCK FALSE
