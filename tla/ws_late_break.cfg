\* One iteration, one break: the reader may wait for a connection for good.
SPECIFICATION Spec
CONSTANTS
  Reps = 1
  IdModulus = 8
  SockOpt = FALSE
  AddrHas1000 = FALSE
  MaxBreaks = 1
PROPERTIES
  MainFinishes
CHECK_DEADLOCK FALSE
