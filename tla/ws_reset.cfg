\* Two iterations over up to three connections, without -tcpStats: resets come
\* fast enough to fill the channel.
SPECIFICATION Spec
CONSTANTS
  Reps = 2
  IdModulus = 8
  SockOpt = FALSE
  AddrHas1000 = FALSE
  MaxBreaks = 2
INVARIANTS
  GapsAreMarked
  MarkersDelimitConnections
  CompletedIsComplete
  SizeReadFirst
  ChannelHasAllMissed
PROPERTIES
  ReaderVisitsEveryConnection
  CsvSpec
  HealthyCloseCompletes
  EndsOrOrphaned
  ServerReleases
\* The client ends, or its reader is orphaned (EndsOrOrphaned).
CHECK_DEADLOCK FALSE
