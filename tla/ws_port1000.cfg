\* A port with 1000 in it: the reader leaves at the first break.
SPECIFICATION Spec
CONSTANTS
  Reps = 2
  IdModulus = 8
  SockOpt = FALSE
  AddrHas1000 = TRUE
  MaxBreaks = 1
INVARIANTS
  CompletedIsComplete
CHECK_DEADLOCK FALSE
