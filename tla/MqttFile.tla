------------------------------ MODULE MqttFile ------------------------------
(***************************************************************************)
(* The file of an MQTT measurement, as its reader may take it: every row   *)
(* answers a request that was published before, or one of an earlier       *)
(* client; a request has one row where messages come once; a row may fail  *)
(* to be written, and nobody learns of it; nothing is written after the    *)
(* end; and the measurement ends on a signal or with as many rows, written *)
(* or failed, as requests.  MqttSystem implements it.                      *)
(***************************************************************************)
EXTENDS Naturals, FiniteSets

VARIABLES
  reps,       \* how many requests there are to publish; never changes
  once,       \* messages come once; never changes
  published,  \* how many are published
  writes,     \* rows of each request and, at reps, of an earlier client's
  failed,     \* those of them that could not be written
  signalled,  \* a signal came
  ended

vars == <<reps, once, published, writes, failed, signalled, ended>>

Init ==
  /\ reps \in Nat /\ once \in BOOLEAN
  /\ published = 0
  /\ writes = [i \in 0 .. reps |-> 0]
  /\ failed = [i \in 0 .. reps |-> 0]
  /\ ~signalled /\ ~ended

Publish ==
  /\ ~ended /\ published < reps
  /\ published' = published + 1
  /\ UNCHANGED <<reps, once, writes, failed, signalled, ended>>

Row(i) ==
  /\ ~ended
  /\ i < published \/ i = reps
  /\ once /\ i < reps => writes[i] = 0
  /\ writes' = [writes EXCEPT ![i] = @ + 1]
  /\ \/ UNCHANGED failed
     \/ failed' = [failed EXCEPT ![i] = @ + 1]
  /\ UNCHANGED <<reps, once, published, signalled, ended>>

Signal ==
  /\ ~ended
  /\ signalled' = TRUE
  /\ UNCHANGED <<reps, once, published, writes, failed, ended>>

\* Each row, written or failed: its message, and the how manieth of it.
Lines == UNION {{i} \X (1 .. writes[i]) : i \in 0 .. reps}

Total == Cardinality(Lines)

\* With no request to publish, only a signal ends it.
End ==
  /\ ~ended
  /\ signalled \/ (reps > 0 /\ Total >= reps)
  /\ ended' = TRUE
  /\ UNCHANGED <<reps, once, published, writes, failed, signalled>>

Next == Publish \/ Signal \/ End \/ \E i \in 0 .. reps : Row(i)

Spec == Init /\ [][Next]_vars
=============================================================================
