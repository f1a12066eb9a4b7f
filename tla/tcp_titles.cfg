\* A connection that broke: the title of the next step's page is the step's before.
SPECIFICATION Spec
CONSTANTS
  d1 = d1
  d2 = d2
  Tails <- MCTails
  Hundred = 100
  PerPage = 12
  Campaigns <- BrokenCampaigns
INVARIANT TitlesNameTheirStreams
CHECK_DEADLOCK FALSE
