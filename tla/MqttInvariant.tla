--------------------------- MODULE MqttInvariant ---------------------------
(***************************************************************************)
(* The inductive invariant behind the safety properties of MqttSystem: how *)
(* far the shared counter and the values read from it may be, where a      *)
(* value of the channel `shutdown` came from, and in how many places a     *)
(* request is.                                                             *)
(***************************************************************************)
EXTENDS MqttSystem

\* Handlers that have written their row and not yet counted it.
Uncounted == {h \in DOMAIN handlers : handlers[h].pc \in {"load", "store"}}

(* The counter, and a handler's value of it that is still to be stored or  *)
(* to be compared, leave a row for each of those handlers.                 *)
CountsLeaveRoom ==
  /\ IsFiniteSet(File!Lines)
  /\ received + Cardinality(Uncounted) <= RowCount
  /\ \A h \in DOMAIN handlers :
       /\ handlers[h].pc = "store" =>
            handlers[h].seen + Cardinality(Uncounted) <= RowCount
       /\ handlers[h].pc = "compare" =>
            /\ handlers[h].seen + 1 + Cardinality(Uncounted) <= RowCount
            /\ received > 0

AllRowsWritten == Reps > 0 /\ RowCount >= Reps

\* The main goroutine has taken a value from `shutdown` and not put it back.
Holding == main \in {"repush", "leaving", "exited"}

(* Until the file has as many rows as requests, every value of `shutdown`, *)
(* in the channel or taken from it, is a signal.                           *)
ShutdownIsEarned ==
  \/ AllRowsWritten
  \/ /\ \A h \in DOMAIN handlers : handlers[h].pc # "send"
     /\ shutdown + (IF Holding THEN 1 ELSE 0) <= signals

\* The loop of PublishRequests stays within the requests.
LoopInRange ==
  /\ main = "subscribe" => currentMessageID = 0
  /\ main = "publish" => currentMessageID < Reps
  /\ main \in {"pace", "repush"} => currentMessageID + 1 < Reps
  /\ PublishedCount <= Reps

(* Every copy of a request is somewhere; only a published one is copied,   *)
(* and only with QoS 1.                                                    *)
RequestsInPlace ==
  /\ NothingVanishes
  /\ \A i \in Requests : i >= PublishedCount \/ qos # 1 => duplicates[i] = 0

IInv ==
  /\ TypeOK
  /\ CountsLeaveRoom
  /\ ShutdownIsEarned
  /\ LoopInRange
  /\ RequestsInPlace
=============================================================================
