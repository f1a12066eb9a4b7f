\* Stats may take the reader's copy of the new connection.
SPECIFICATION Spec
CONSTANTS
  Reps = 1
  IdModulus = 8
  SockOpt = TRUE
  AddrHas1000 = FALSE
  MaxBreaks = 1
PROPERTIES
  HealthyCloseCompletes
CHECK_DEADLOCK FALSE
