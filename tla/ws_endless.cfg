\* -reps=0 and no fault: msgId wraps, and the client stops by itself.
SPECIFICATION Spec
CONSTANTS
  Reps = 0
  IdModulus = 3
  SockOpt = FALSE
  AddrHas1000 = FALSE
  MaxBreaks = 0
PROPERTIES
  RunsUntilInterrupted
CHECK_DEADLOCK FALSE
