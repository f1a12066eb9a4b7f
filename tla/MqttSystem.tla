----------------------------- MODULE MqttSystem -----------------------------
(***************************************************************************)
(* One MQTT measurement: the client, the server and the broker.            *)
(***************************************************************************)
EXTENDS MqttClient, MqttServer

vars == <<brokerVars, clientVars, server>>

Init == BrokerInit /\ ClientInit /\ ServerInit

MainStep    == Main /\ UNCHANGED server
HandlerStep == \E h \in DOMAIN handlers : OnMessage(h) /\ UNCHANGED server
ServerStep  == Server /\ UNCHANGED clientVars

ProcessUp(p) == IF p = "client" THEN Alive ELSE server # "exited"

BrokerStep ==
  \/ \E t \in Topics, i \in Ids :
       (Lose(t, i) \/ Redeliver(t, i)) /\ UNCHANGED <<clientVars, server>>
  \/ \E p \in Parties :
       /\ ProcessUp(p)
       /\ ConnectionLost(p) \/ Reconnected(p)
       /\ UNCHANGED <<clientVars, server>>
  \/ \E i \in Ids : Deliver(i) /\ UNCHANGED server

Next == MainStep \/ HandlerStep \/ ServerStep \/ BrokerStep \/ (Signal /\ UNCHANGED server)

(* Goroutines are scheduled, messages under way arrive, and the server is  *)
(* started.  Nothing makes a connection break, a message be lost or sent   *)
(* again, or a signal come.                                                *)
Fairness ==
  /\ WF_vars(MainStep)
  /\ WF_vars(HandlerStep)
  /\ WF_vars(ServerSubscribe /\ UNCHANGED clientVars)
  /\ WF_vars(\E i \in Ids : ServerOnMessage(i) /\ UNCHANGED clientVars)
  /\ WF_vars(\E i \in Ids : Deliver(i) /\ UNCHANGED server)

Spec == Init /\ [][Next]_vars /\ Fairness

(***************************************************************************)
(* Safety.                                                                 *)
(***************************************************************************)

(* Every variable has its type; the channel `shutdown` holds at most one   *)
(* value (cmd/client/client.go, main).                                     *)
TypeOK == BrokerTypeOK /\ ClientTypeOK /\ ServerTypeOK

\* How many requests have been published.
PublishedCount ==
  IF main \in {"subscribe", "publish"} \/ Reps = 0 THEN currentMessageID ELSE currentMessageID + 1

\* The client's file, as MqttFile has it.
File == INSTANCE MqttFile WITH
  reps <- Reps, once <- (qos # 1), published <- PublishedCount,
  signalled <- (signals > 0), ended <- (main = "exited")

RowCount == File!Total

(* A response is counted only after its row is written, or its write has   *)
(* failed unnoticed: when handlers race on `received`, it may fall behind  *)
(* the rows but never run ahead of them (onMessage).                       *)
CountFollowsWrites == received <= RowCount

(* A client that ended by itself has written a row for each request, and   *)
(* one only, where the QoS rules out duplicates and no earlier client's    *)
(* response came in: whatever the order and the races of the handlers.     *)
(* A row whose write failed counts for one (onMessage).                    *)
ExitHasEveryRow ==
  main = "exited" /\ signals = 0 /\ qos # 1 /\ writes[Stale] = 0 =>
    \A i \in Requests : writes[i] = 1

\* In how many places a request is.
Places(i) == inflight["request"][i] + inflight["response"][i] + InHandlers(i) + writes[i]

(* Whatever the network, the broker and the client do, each published      *)
(* request and each copy the broker made of it is in one place: under way, *)
(* with a handler, a row, or dropped -- at QoS 0, with a broken            *)
(* connection, for want of a subscriber, or with the client's end; and     *)
(* nothing exists of a request before it is published (publishRequest,     *)
(* onMessage of both programs).                                            *)
NothingVanishes ==
  \A i \in Requests :
    Places(i) + dropped[i] = IF i < PublishedCount THEN 1 + duplicates[i] ELSE 0

(* The system implements the file of MqttFile: every row answers a request *)
(* published before, once where the QoS has it so, and a client without a  *)
(* signal ends with as many rows as -reps, never with -reps=0              *)
(* (PublishRequests, onMessage).                                           *)
FileSpec == File!Spec

(* The requester took a signal and cannot put it back: another value took  *)
(* its place, and the only goroutine that receives is the one that waits.  *)
Blocked == main = "repush" /\ shutdown = ShutdownCap

\* A response more than this client's requests have: a message came twice, or
\* an earlier client's was handled.
ExtraResponse == writes[Stale] > 0 \/ \E i \in Requests : duplicates[i] > 0

(* With one signal only an extra response blocks the client: it has        *)
(* `received` reach -reps, and a value put in `shutdown`, while a request  *)
(* is still to be published (PublishRequests, onMessage).                  *)
BlockedTakesTwoSignals == Blocked => signals > 1 \/ ExtraResponse

(* "All responses received" (pkg/logic/client.go): the client says so when *)
(* the counter reaches -reps, whichever responses it counted.              *)
AllResponsesReceived ==
  main = "exited" /\ signals = 0 => \A i \in Requests : writes[i] > 0

(***************************************************************************)
(* Liveness.                                                               *)
(***************************************************************************)

Miscounted ==
  /\ handlers = <<>>
  /\ received < RowCount \/ received > Reps

(* Without -reps=0 the client ends by itself, unless a request is dropped, *)
(* increments run into each other, the counter passes -reps between two    *)
(* comparisons (more responses than requests), or the client is blocked.   *)
EndsUnlessDroppedOrMiscounted ==
  Reps > 0 =>
    <>(main = "exited" \/ (\E i \in Requests : dropped[i] > 0) \/ Miscounted \/ Blocked)

(* A signal ends the client, wherever it finds it, unless it is blocked.   *)
SignalEnds == (signals > 0) ~> (main = "exited" \/ Blocked)
=============================================================================
