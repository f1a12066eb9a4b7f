\* A percentile of one in four values, pages of two runs.
SPECIFICATION Spec
CONSTANTS
  d1 = d1
  d2 = d2
  Tails <- MCTails
  Hundred = 4
  PerPage = 2
  Campaigns <- MCCampaigns
INVARIANTS
  TypeOK
  IInv
  PlotsShowTheirFiles
  OneTimeAxis
  LimitsKeepTheMiddle
  BoxesKeepEveryRtt
  PagesAreTheLongStreams
  MarksShareTheAxis
  TitlesSkipShortStreams
  DoneMeansDrawn
PROPERTIES
  PlotterFinishes
\* The plotter ends or dies.
CHECK_DEADLOCK FALSE
