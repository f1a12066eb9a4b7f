------------------------------- MODULE RttCsv -------------------------------
(***************************************************************************)
(* What the client promises about its CSV file of round-trip times: one    *)
(* row per iteration, in order, an iteration being left out only where a   *)
(* marker row (RTT -1) says that the connection was reset.                 *)
(***************************************************************************)
EXTENDS Naturals, Sequences

CONSTANT MaxStamp   \* the last iteration there can be

VARIABLES
  rows,    \* rows: the iteration that a row is about, and is it a marker
  closed   \* no more rows are written

vars == <<rows, closed>>

LastStamp == IF rows = <<>> THEN 0 ELSE rows[Len(rows)].stamp

Init == rows = <<>> /\ closed = FALSE

AddRow(t, marker) == rows' = Append(rows, [stamp |-> t, marker |-> marker])

Measure == ~closed /\ AddRow(LastStamp + 1, FALSE) /\ UNCHANGED closed

\* The iterations between LastStamp and t went with the old connection.
Mark ==
  /\ ~closed
  /\ \E t \in LastStamp + 1 .. MaxStamp : AddRow(t, TRUE)
  /\ UNCHANGED closed

Close == ~closed /\ closed' = TRUE /\ UNCHANGED rows

Next == Measure \/ Mark \/ Close

Spec == Init /\ [][Next]_vars
=============================================================================
