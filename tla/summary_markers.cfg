\* A reset: its marker counts in the mean.
SPECIFICATION Spec
CONSTANTS
  d1 = d1
  d2 = d2
  Tails <- MCTails
  Hundred = 100
  PerPage = 12
  Campaigns <- ResetCampaigns
INVARIANT SummariesAreOfRtts
CHECK_DEADLOCK FALSE
