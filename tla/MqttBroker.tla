----------------------------- MODULE MqttBroker -----------------------------
(***************************************************************************)
(* The MQTT broker and the paho client library, as the code under src/     *)
(* sees them.  Nothing here is code of the repository but the options of   *)
(* common.go: clean sessions, automatic reconnection (the library's        *)
(* default), and messages handed to their handler each in a goroutine of   *)
(* its own (SetOrderMatters(false)), so that their order is arbitrary.     *)
(*                                                                         *)
(* A message is known by its id; both topics carry the same ids.           *)
(***************************************************************************)
EXTENDS Naturals, FiniteSetsExt

(* The setups to look at: the flags -reps and -qos, and the bounds of what *)
(* the environment does: requests of an earlier client still under way,    *)
(* redeliveries, connection losses, signals to the client, and writes of   *)
(* each message's row that fail.                                           *)
CONSTANT Setups

ASSUME SetupsAssumption ==
  Setups \subseteq [reps : Nat, qos : 0 .. 2, stale : Nat, duplicates : Nat,
                   losses : Nat, signals : Nat, failures : Nat]

VARIABLE setup   \* one of them; never changes

Reps == setup.reps
qos  == setup.qos

\* Requests of this client, and of an earlier client still under way.
Requests == IF Reps = 0 THEN {} ELSE 0 .. Reps - 1
Stale    == Reps
Ids      == 0 .. Reps

Parties == {"client", "server"}
Topics  == {"request", "response"}

Writer(t) == IF t = "request" THEN "client" ELSE "server"
Reader(t) == IF t = "request" THEN "server" ELSE "client"

VARIABLES
  inflight,    \* copies of each message on its way to the topic's subscriber
  link,        \* each party's session with the broker
  dropped,     \* history: copies of each message that nobody will handle
  duplicates,  \* history: copies the broker made of each message
  losses       \* connection losses so far

brokerVars == <<setup, inflight, link, dropped, duplicates, losses>>

BrokerTypeOK ==
  /\ setup \in Setups
  /\ inflight \in [Topics -> [Ids -> Nat]]
  /\ link \in [Parties -> {"down", "connected", "subscribed"}]
  /\ dropped \in [Ids -> Nat]
  /\ duplicates \in [Ids -> Nat]
  /\ losses \in 0 .. setup.losses

NoCopies == [i \in Ids |-> 0]

BrokerInit ==
  /\ setup \in Setups
  /\ \E stale \in 0 .. setup.stale :
       inflight = [t \in Topics |->
                     [i \in Ids |-> IF t = "request" /\ i = Stale THEN stale ELSE 0]]
  /\ link = [p \in Parties |-> "connected"]
  /\ dropped = NoCopies
  /\ duplicates = NoCopies
  /\ losses = 0

OneDropped(i) == [dropped EXCEPT ![i] = @ + 1]

(* Publish on topic t.  The broker discards what nobody is subscribed to;  *)
(* while the connection is down, the library keeps a message only if its   *)
(* QoS is not 0.                                                           *)
Publish(t, i) ==
  /\ IF /\ link[Reader(t)] = "subscribed"
        /\ link[Writer(t)] = "down" => qos > 0
     THEN inflight' = [inflight EXCEPT ![t][i] = @ + 1] /\ UNCHANGED dropped
     ELSE dropped' = OneDropped(i) /\ UNCHANGED inflight
  /\ UNCHANGED <<setup, link, duplicates, losses>>

\* A message of topic t is there for its subscriber.
Arrives(t, i) == link[Reader(t)] = "subscribed" /\ inflight[t][i] > 0

Taken(t, i) == [inflight EXCEPT ![t][i] = @ - 1]

(* Subscribe and wait for the token, whose error is not looked at: a       *)
(* subscription made while the connection is down is thrown away.          *)
Subscribed(p) == [link EXCEPT ![p] = IF @ = "down" THEN @ ELSE "subscribed"]

(* Disconnect, or the end of the process, ends the clean session: what was *)
(* on its way to the party goes with it, and so does what it held itself.  *)
Discarded(p) ==
  inflight' = [t \in Topics |-> IF Reader(t) = p THEN NoCopies ELSE inflight[t]]

ReadBy(p) == IF p = "client" THEN "response" ELSE "request"

Leave(p, held) ==
  /\ link' = [link EXCEPT ![p] = "down"]
  /\ Discarded(p)
  /\ dropped' = [i \in Ids |-> dropped[i] + inflight[ReadBy(p)][i] + held[i]]

(* At most once: a message is lost.                                        *)
Lose(t, i) ==
  /\ qos = 0 /\ inflight[t][i] > 0
  /\ inflight' = Taken(t, i)
  /\ dropped' = OneDropped(i)
  /\ UNCHANGED <<setup, link, duplicates, losses>>

(* At least once: a message is sent again.                                 *)
Redeliver(t, i) ==
  /\ qos = 1 /\ inflight[t][i] > 0
  /\ MapThenSumSet(LAMBDA j : duplicates[j], Ids) < setup.duplicates
  /\ duplicates' = [duplicates EXCEPT ![i] = @ + 1]
  /\ inflight' = [inflight EXCEPT ![t][i] = @ + 1]
  /\ UNCHANGED <<setup, link, dropped, losses>>

ConnectionLost(p) ==
  /\ link[p] # "down" /\ losses < setup.losses
  /\ losses' = losses + 1
  /\ Leave(p, NoCopies)
  /\ UNCHANGED <<setup, duplicates>>

(* The library connects again, but a clean session has no subscriptions    *)
(* and defaultConnectionHandler (common.go) makes none.                    *)
Reconnected(p) ==
  /\ link[p] = "down"
  /\ link' = [link EXCEPT ![p] = "connected"]
  /\ UNCHANGED <<setup, inflight, dropped, duplicates, losses>>
=============================================================================
