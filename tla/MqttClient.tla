----------------------------- MODULE MqttClient -----------------------------
(***************************************************************************)
(* The MQTT client (cmd/client, pkg/logic/client.go).  The main goroutine  *)
(* subscribes to the responses, publishes the requests and waits on the    *)
(* channel `shutdown`; every response is handled by a goroutine of its own *)
(* (onMessage), which writes its row, counts it in the shared, unguarded   *)
(* `received` and sends on `shutdown` when it is the last.  A SIGINT or a  *)
(* SIGTERM is put in the same channel.                                     *)
(***************************************************************************)
EXTENDS MqttBroker, Sequences, FiniteSets

VARIABLES
  main,              \* where the main goroutine is
  currentMessageID,  \* the request that is published next
  shutdown,          \* how many values the channel `shutdown` holds
  received,          \* the subscriber's counter
  handlers,          \* the goroutines of onMessage, none after it returned
  writes,            \* rows handed to the CSV file, by the message they are of
  failed,            \* those of them the file did not take
  signals            \* signals so far

mainVars   == <<main, currentMessageID>>
clientVars == <<mainVars, shutdown, received, handlers, writes, failed, signals>>

ShutdownCap == 1

Handler == [pc : {"write", "load", "store", "compare", "send"},
            id : Ids, seen : Nat]

ClientTypeOK ==
  /\ main \in {"subscribe", "publish", "pace", "repush", "wait", "leaving", "exited"}
  /\ currentMessageID \in 0 .. Reps
  /\ shutdown \in 0 .. ShutdownCap
  /\ received \in Nat
  /\ handlers \in Seq(Handler)
  /\ writes \in [Ids -> Nat]
  /\ failed \in [Ids -> 0 .. setup.failures]
  /\ signals \in 0 .. setup.signals

ClientInit ==
  /\ main = "subscribe"
  /\ currentMessageID = 0
  /\ shutdown = 0
  /\ received = 0
  /\ handlers = <<>>
  /\ writes = NoCopies
  /\ failed = NoCopies
  /\ signals = 0

(***************************************************************************)
(* The main goroutine.                                                     *)
(***************************************************************************)

\* With -reps=0 the loop of PublishRequests is not entered.
Subscribe ==
  /\ main = "subscribe"
  /\ main' = IF Reps = 0 THEN "wait" ELSE "publish"
  /\ link' = Subscribed("client")
  /\ UNCHANGED <<setup, inflight, dropped, duplicates, losses>>
  /\ UNCHANGED <<currentMessageID, shutdown, received, handlers, writes, failed, signals>>

\* Mutant: the loop leaves one request early.
LastTooEarly == currentMessageID + 2 >= Reps

Last == currentMessageID = Reps - 1

(* One turn of the loop: the last request is followed by no wait.          *)
PublishRequest ==
  /\ main = "publish"
  /\ Publish("request", currentMessageID)
  /\ main' = IF Last THEN "wait" ELSE "pace"
  /\ UNCHANGED <<currentMessageID, shutdown, received, handlers, writes, failed, signals>>

(* The select: the timer, or a signal, which is put back for main.         *)
PaceElapsed ==
  /\ main = "pace"
  /\ main' = "publish"
  /\ currentMessageID' = currentMessageID + 1
  /\ UNCHANGED <<brokerVars, shutdown, received, handlers, writes, failed, signals>>

PaceSignal ==
  /\ main = "pace" /\ shutdown > 0
  /\ shutdown' = shutdown - 1
  /\ main' = "repush"
  /\ UNCHANGED <<brokerVars, currentMessageID, received, handlers, writes, failed, signals>>

\* Mutant: a value is added to a full channel.
HasRoomAlways == TRUE

\* A send on `shutdown` waits while the channel is full.
HasRoom == shutdown < ShutdownCap

\* Mutant: the signal is swallowed instead of put back.
RepushedNone == shutdown

Repushed == shutdown + 1

Repush ==
  /\ main = "repush" /\ HasRoom
  /\ shutdown' = Repushed
  /\ main' = "wait"
  /\ UNCHANGED <<brokerVars, currentMessageID, received, handlers, writes, failed, signals>>

TakeShutdown ==
  /\ main = "wait" /\ shutdown > 0
  /\ shutdown' = shutdown - 1
  /\ main' = "leaving"
  /\ UNCHANGED <<brokerVars, currentMessageID, received, handlers, writes, failed, signals>>

\* Responses handed to a handler that has not come to its row.
InHandlers(i) == Cardinality({h \in DOMAIN handlers : handlers[h].id = i /\ handlers[h].pc = "write"})

(* Disconnect gives the handlers a moment; then the process ends, and with *)
(* it the handlers still running.                                          *)
Exit ==
  /\ main = "leaving"
  /\ main' = "exited"
  /\ handlers' = <<>>
  /\ Leave("client", [i \in Ids |-> InHandlers(i)])
  /\ UNCHANGED <<setup, duplicates, losses, currentMessageID, shutdown, received, writes, failed, signals>>

Main ==
  \/ Subscribe \/ PublishRequest \/ PaceElapsed \/ PaceSignal
  \/ Repush \/ TakeShutdown \/ Exit

\* Notify drops a signal when the channel is full.
Signal ==
  /\ main # "exited" /\ signals < setup.signals
  /\ signals' = signals + 1
  /\ shutdown' = ShutdownCap
  /\ UNCHANGED <<brokerVars, mainVars, received, handlers, writes, failed>>

(***************************************************************************)
(* The goroutines of onMessage.                                            *)
(***************************************************************************)

Alive == main # "exited"

Deliver(i) ==
  /\ Alive /\ Arrives("response", i)
  /\ inflight' = Taken("response", i)
  /\ handlers' = Append(handlers, [pc |-> "write", id |-> i, seen |-> 0])
  /\ UNCHANGED <<setup, link, dropped, duplicates, losses>>
  /\ UNCHANGED <<mainVars, shutdown, received, writes, failed, signals>>

At(h, pc) == Alive /\ handlers[h].pc = pc
Goto(h, pc) == handlers' = [handlers EXCEPT ![h].pc = pc]
Done(h) == handlers' = SubSeq(handlers, 1, h - 1) \o SubSeq(handlers, h + 1, Len(handlers))

\* Mutant: a response is counted before its row is written, and the row lost.
RowUnwritten(i) == writes

RowWritten(i) == [writes EXCEPT ![i] = @ + 1]

(* The error of WriteString is discarded: the row may not be in the file.  *)
RowKept(i) ==
  \/ UNCHANGED failed
  \/ failed[i] < setup.failures /\ failed' = [failed EXCEPT ![i] = @ + 1]

WriteRow(h) ==
  /\ At(h, "write")
  /\ writes' = RowWritten(handlers[h].id)
  /\ RowKept(handlers[h].id)
  /\ Goto(h, "load")
  /\ UNCHANGED <<brokerVars, mainVars, shutdown, received, signals>>

\* received += 1 is a load and a store, and nothing guards them.
Load(h) ==
  /\ At(h, "load")
  /\ handlers' = [handlers EXCEPT ![h].pc = "store", ![h].seen = received]
  /\ UNCHANGED <<brokerVars, mainVars, shutdown, received, writes, failed, signals>>

Store(h) ==
  /\ At(h, "store")
  /\ received' = handlers[h].seen + 1
  /\ Goto(h, "compare")
  /\ UNCHANGED <<brokerVars, mainVars, shutdown, writes, failed, signals>>

\* Mutant: the test fires at the last response but one.
ReachedEarly(v) == v + 1 = Reps

Reached(v) == v = Reps

(* The comparison uses the value just stored or loads it again: the        *)
(* compiler may do either.                                                 *)
Compare(h) ==
  /\ At(h, "compare")
  /\ \E v \in {handlers[h].seen + 1, received} :
       IF Reached(v) THEN Goto(h, "send") ELSE Done(h)
  /\ UNCHANGED <<brokerVars, mainVars, shutdown, received, writes, failed, signals>>

SendShutdown(h) ==
  /\ At(h, "send") /\ HasRoom
  /\ shutdown' = shutdown + 1
  /\ Done(h)
  /\ UNCHANGED <<brokerVars, mainVars, received, writes, failed, signals>>

OnMessage(h) == WriteRow(h) \/ Load(h) \/ Store(h) \/ Compare(h) \/ SendShutdown(h)
=============================================================================
