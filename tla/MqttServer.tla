----------------------------- MODULE MqttServer -----------------------------
(***************************************************************************)
(* The MQTT server (cmd/server, pkg/logic/server.go): subscribes to the    *)
(* requests and publishes each one back as a response.                     *)
(***************************************************************************)
EXTENDS MqttBroker

VARIABLE server   \* where the server's main is

ServerTypeOK == server \in {"starting", "serving", "exited"}

ServerInit == server = "starting"

\* What the broker held for the server's topic before is not delivered late.
ServerSubscribe ==
  /\ server = "starting"
  /\ server' = "serving"
  /\ link' = Subscribed("server")
  /\ UNCHANGED <<setup, inflight, dropped, duplicates, losses>>

\* Mutant: the answer is published as a message of its own, with a zero id.
ResponseIdReset(i) == 0

\* The response is the request with the server's timestamp and payload.
ResponseId(i) == i

(* onMessage: the request is taken and its response published, in a        *)
(* goroutine that shares nothing with the others.                          *)
ServerOnMessage(i) ==
  /\ server = "serving" /\ Arrives("request", i)
  /\ IF link["client"] = "subscribed"
     THEN /\ inflight' = [Taken("request", i) EXCEPT !["response"][ResponseId(i)] = @ + 1]
          /\ UNCHANGED dropped
     ELSE inflight' = Taken("request", i) /\ dropped' = OneDropped(i)
  /\ UNCHANGED <<setup, link, duplicates, losses, server>>

\* A signal ends it.
ServerShutdown ==
  /\ server = "serving"
  /\ server' = "exited"
  /\ Leave("server", NoCopies)
  /\ UNCHANGED <<setup, duplicates, losses>>

Server == ServerSubscribe \/ (\E i \in Ids : ServerOnMessage(i)) \/ ServerShutdown
=============================================================================
