------------------------------- MODULE MCMqtt -------------------------------
(***************************************************************************)
(* Setups for TLC.                                                         *)
(***************************************************************************)
EXTENDS MqttInvariant

Setup(reps, level, stale, again, lost, sent, failing) ==
  [reps |-> reps, qos |-> level, stale |-> stale, duplicates |-> again,
   losses |-> lost, signals |-> sent, failures |-> failing]

(* Two requests that the network may lose, with a signal; two that a       *)
(* broken connection may; two that may be sent again, with two signals, or *)
(* with a connection that breaks; none to send; three with no faults; and  *)
(* two whose rows may fail.                                                *)
UsualSetups ==
  { Setup(2, 0, 1, 0, 0, 1, 0), Setup(2, 2, 1, 0, 1, 0, 0), Setup(2, 1, 0, 1, 0, 2, 0),
    Setup(2, 1, 0, 1, 1, 0, 0), Setup(0, 1, 1, 1, 1, 1, 1), Setup(3, 2, 0, 0, 0, 1, 0),
    Setup(2, 2, 0, 0, 0, 0, 1) }

\* A redelivery, and no signal.
DuplicateSetups == { Setup(2, 1, 0, 1, 0, 0, 0) }
=============================================================================
