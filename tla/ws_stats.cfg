\* With -tcpStats: two readers of one channel, which two resets more than fill;
\* -reps is the last value of msgId, so the loop's end is 0, reached by wrapping.
SPECIFICATION Spec
CONSTANTS
  Reps = 2
  IdModulus = 3
  SockOpt = TRUE
  AddrHas1000 = FALSE
  MaxBreaks = 2
INVARIANTS
  TypeOK
  IInv
PROPERTIES
  EndsOrOrphaned
\* The client ends, or its reader is orphaned (EndsOrOrphaned).
CHECK_DEADLOCK FALSE
