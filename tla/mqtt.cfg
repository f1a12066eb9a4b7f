\* Requests lost, sent again, or an earlier client's; signals; failed rows; -reps=0.
SPECIFICATION Spec
CONSTANT Setups <- UsualSetups
INVARIANTS
  TypeOK
  CountFollowsWrites
  ExitHasEveryRow
  NothingVanishes
  BlockedTakesTwoSignals
  IInv
PROPERTIES
  FileSpec
  EndsUnlessDroppedOrMiscounted
  SignalEnds
\* The client ends, or waits for good (EndsUnlessDroppedOrMiscounted).
CHECK_DEADLOCK FALSE
