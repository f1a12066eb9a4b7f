----------------------------- MODULE MqttProofs -----------------------------
(***************************************************************************)
(* Proofs about MqttSystem, for every value of its constants: any number   *)
(* of requests, every QoS, and any number of duplicates, losses and        *)
(* signals.                                                                *)
(***************************************************************************)
EXTENDS MqttInvariant, Counting

USE SetupsAssumption

(***************************************************************************)
(* Lemmas about the operators.                                             *)
(***************************************************************************)

(* What a setup is.                                                        *)
LEMMA SetupTypes ==
  ASSUME BrokerTypeOK
  PROVE  /\ Reps \in Nat /\ qos \in 0 .. 2
         /\ setup.signals \in Nat /\ setup.duplicates \in Nat /\ setup.losses \in Nat
         /\ setup.failures \in Nat
         /\ Requests \subseteq Ids /\ Ids \subseteq Nat /\ Requests \subseteq Nat
         /\ Stale \in Ids /\ Stale \notin Requests
         /\ \A i \in Requests : i < Reps
  <1>1. /\ Reps \in Nat /\ qos \in 0 .. 2
        /\ setup.signals \in Nat /\ setup.duplicates \in Nat /\ setup.losses \in Nat
        /\ setup.failures \in Nat
    BY DEF BrokerTypeOK, Reps, qos
  <1>2. QED
    BY <1>1 DEF Requests, Ids, Stale

(* The setup never changes, and nothing that is derived from it.           *)
LEMMA SetupSame ==
  ASSUME setup' = setup
  PROVE  /\ Reps' = Reps /\ qos' = qos /\ Ids' = Ids /\ Requests' = Requests
         /\ Stale' = Stale
  BY DEF Reps, qos, Ids, Requests, Stale

(* A message is sent.                                                      *)
LEMMA OneMore ==
  ASSUME BrokerTypeOK, NEW t \in Topics, NEW i \in Ids
  PROVE  /\ [inflight EXCEPT ![t][i] = @ + 1] \in [Topics -> [Ids -> Nat]]
         /\ \A u \in Topics, j \in Ids :
              [inflight EXCEPT ![t][i] = @ + 1][u][j]
                = inflight[u][j] + (IF u = t /\ j = i THEN 1 ELSE 0)
  <1>1. inflight \in [Topics -> [Ids -> Nat]]
    BY DEF BrokerTypeOK
  <1>2. QED
    BY <1>1

(* A message is taken.                                                     *)
LEMMA OneFewer ==
  ASSUME BrokerTypeOK, NEW t \in Topics, NEW i \in Ids, inflight[t][i] > 0
  PROVE  /\ Taken(t, i) \in [Topics -> [Ids -> Nat]]
         /\ \A u \in Topics, j \in Ids :
              Taken(t, i)[u][j] = inflight[u][j] - (IF u = t /\ j = i THEN 1 ELSE 0)
  <1>1. inflight \in [Topics -> [Ids -> Nat]]
    BY DEF BrokerTypeOK
  <1>2. QED
    BY <1>1 DEF Taken

(* A message is dropped.                                                   *)
LEMMA OneGone ==
  ASSUME BrokerTypeOK, NEW i \in Ids
  PROVE  /\ OneDropped(i) \in [Ids -> Nat]
         /\ \A j \in Ids : OneDropped(i)[j] = dropped[j] + (IF j = i THEN 1 ELSE 0)
  <1>1. dropped \in [Ids -> Nat]
    BY DEF BrokerTypeOK
  <1>2. QED
    BY <1>1 DEF OneDropped

(* No message has a copy at first.                                         *)
LEMMA NoCopiesType == NoCopies \in [Ids -> Nat] /\ \A i \in Ids : NoCopies[i] = 0
  BY DEF NoCopies

\* The states of a handler that has not written a row for message i, and of
\* one that has written it and not counted it.
Writing(i) == {r \in Handler : r.pc = "write" /\ r.id = i}
ToCount    == {r \in Handler : r.pc \in {"load", "store"}}

(* The handlers are counted by their states.                               *)
HandlersCounted ==
  /\ Cardinality(Uncounted) = Count(handlers, ToCount)
  /\ Cardinality(Uncounted) \in Nat
  /\ \A i : InHandlers(i) = Count(handlers, Writing(i)) /\ InHandlers(i) \in Nat
  /\ DOMAIN handlers = 1 .. Len(handlers)
  /\ \A h \in DOMAIN handlers : handlers[h] \in Handler

(* Sets of handlers have as many members as Count counts.                  *)
LEMMA HandlersByState == ClientTypeOK => HandlersCounted
  <1> SUFFICES ASSUME ClientTypeOK PROVE HandlersCounted
    OBVIOUS
  <1>1. handlers \in Seq(Handler)
    BY DEF ClientTypeOK
  <1>2. DOMAIN handlers = 1 .. Len(handlers)
        /\ \A h \in DOMAIN handlers : handlers[h] \in Handler
    BY <1>1, LenProperties, ElementOfSeq
  <1>3. Uncounted = Hits(handlers, ToCount)
    BY <1>2 DEF Uncounted, Hits, ToCount
  <1>4. ASSUME NEW i
        PROVE  InHandlers(i) = Count(handlers, Writing(i)) /\ InHandlers(i) \in Nat
    <2>1. {h \in DOMAIN handlers : handlers[h].id = i /\ handlers[h].pc = "write"}
            = Hits(handlers, Writing(i))
      BY <1>2 DEF Hits, Writing
    <2>2. QED
      BY <1>1, <2>1, HitsFinite DEF InHandlers, Count
  <1>5. QED
    BY <1>1, <1>2, <1>3, <1>4, HitsFinite DEF HandlersCounted, Count

(* A handler's record when it moves on.                                    *)
LEMMA HandlerGoes ==
  ASSUME ClientTypeOK, NEW h \in DOMAIN handlers,
         NEW pc \in {"write", "load", "store", "compare", "send"}
  PROVE  /\ [handlers EXCEPT ![h].pc = pc]
              = [handlers EXCEPT ![h] = [handlers[h] EXCEPT !.pc = pc]]
         /\ [handlers[h] EXCEPT !.pc = pc] \in Handler
         /\ [handlers[h] EXCEPT !.pc = pc].pc = pc
         /\ [handlers[h] EXCEPT !.pc = pc].id = handlers[h].id
         /\ [handlers[h] EXCEPT !.pc = pc].seen = handlers[h].seen
  <1>1. handlers[h] \in Handler
    BY HandlersByState DEF HandlersCounted
  <1>2. QED
    BY <1>1 DEF Handler

(***************************************************************************)
(* Type correctness.                                                       *)
(***************************************************************************)

(* At first every variable has its type.                                   *)
LEMMA TypeInit == Init => TypeOK
  <1> SUFFICES ASSUME Init PROVE TypeOK
    OBVIOUS
  <1>1. setup \in Setups
    BY DEF Init, BrokerInit
  <1>2. /\ Reps \in Nat
        /\ setup.stale \in Nat /\ setup.signals \in Nat
        /\ setup.duplicates \in Nat /\ setup.losses \in Nat /\ setup.failures \in Nat
    BY <1>1 DEF Reps
  <1>3. inflight \in [Topics -> [Ids -> Nat]]
    <2>1. PICK stale \in 0 .. setup.stale :
            inflight = [t \in Topics |->
                          [i \in Ids |-> IF t = "request" /\ i = Stale THEN stale ELSE 0]]
      BY DEF Init, BrokerInit
    <2>2. stale \in Nat
      BY <1>2
    <2>3. QED
      BY <2>1, <2>2
  <1>4. BrokerTypeOK
    <2>1. /\ link = [p \in Parties |-> "connected"] /\ losses = 0
          /\ dropped = NoCopies /\ duplicates = NoCopies
      BY DEF Init, BrokerInit
    <2>2. link \in [Parties -> {"down", "connected", "subscribed"}]
      BY <2>1
    <2>3. losses \in 0 .. setup.losses
      BY <1>2, <2>1
    <2>4. QED
      BY <1>1, <1>3, <2>1, <2>2, <2>3, NoCopiesType DEF BrokerTypeOK
  <1>5. <<>> \in Seq(Handler)
    BY EmptySeq
  <1>6. ClientTypeOK
    <2>1. writes \in [Ids -> Nat] /\ failed \in [Ids -> 0 .. setup.failures]
      BY <1>2, NoCopiesType DEF Init, ClientInit, NoCopies
    <2>2. QED
      BY <1>2, <1>5, <2>1 DEF Init, ClientInit, ClientTypeOK, ShutdownCap
  <1>7. ServerTypeOK
    BY DEF Init, ServerInit, ServerTypeOK
  <1>8. QED
    BY <1>4, <1>6, <1>7 DEF TypeOK

(* A publication keeps the broker's types.                                 *)
LEMMA TypePublish ==
  ASSUME BrokerTypeOK, NEW t \in Topics, NEW i \in Ids, Publish(t, i)
  PROVE  BrokerTypeOK'
  <1>1. setup' = setup /\ link' = link /\ duplicates' = duplicates /\ losses' = losses
    BY DEF Publish
  <1>2. inflight' \in [Topics -> [Ids -> Nat]] /\ dropped' \in [Ids -> Nat]
    <2>1. CASE inflight' = [inflight EXCEPT ![t][i] = @ + 1] /\ dropped' = dropped
      BY <2>1, OneMore DEF BrokerTypeOK
    <2>2. CASE dropped' = OneDropped(i) /\ inflight' = inflight
      BY <2>2, OneGone DEF BrokerTypeOK
    <2>3. QED
      BY <2>1, <2>2 DEF Publish
  <1>3. QED
    BY <1>1, <1>2, SetupSame DEF BrokerTypeOK

(* So does the end of a session.                                           *)
LEMMA TypeLeave ==
  ASSUME BrokerTypeOK, NEW p \in Parties, NEW held \in [Ids -> Nat], Leave(p, held),
         setup' = setup, duplicates' = duplicates, losses' \in 0 .. setup.losses
  PROVE  BrokerTypeOK'
  <1>1. link' \in [Parties -> {"down", "connected", "subscribed"}]
    BY DEF BrokerTypeOK, Leave
  <1>2. inflight' \in [Topics -> [Ids -> Nat]]
    BY NoCopiesType DEF BrokerTypeOK, Leave, Discarded
  <1>3. dropped' \in [Ids -> Nat]
    <2>1. inflight[ReadBy(p)] \in [Ids -> Nat]
      BY DEF ReadBy, Topics, BrokerTypeOK
    <2>2. \A i \in Ids : dropped[i] + inflight[ReadBy(p)][i] + held[i] \in Nat
      BY <2>1 DEF BrokerTypeOK
    <2>3. QED
      BY <2>2 DEF Leave
  <1>4. QED
    BY <1>1, <1>2, <1>3, SetupSame DEF BrokerTypeOK

(* And a subscription.                                                     *)
LEMMA TypeSubscribed ==
  ASSUME BrokerTypeOK, NEW p \in Parties
  PROVE  Subscribed(p) \in [Parties -> {"down", "connected", "subscribed"}]
  BY DEF BrokerTypeOK, Subscribed

(* The steps of the main goroutine.                                        *)
LEMMA TypeMain == TypeOK /\ LoopInRange /\ MainStep => TypeOK'
  <1> SUFFICES ASSUME TypeOK, LoopInRange, Main, UNCHANGED server PROVE TypeOK'
    BY DEF MainStep
  <1> USE DEF TypeOK
  <1>1. ServerTypeOK'
    BY DEF ServerTypeOK
  <1>2. Parties = {"client", "server"} /\ "client" \in Parties /\ "request" \in Topics
    BY DEF Parties, Topics
  <1>3. CASE Subscribe
    <2>1. BrokerTypeOK'
      BY <1>2, <1>3, TypeSubscribed, SetupSame DEF Subscribe, BrokerTypeOK
    <2>2. ClientTypeOK'
      BY <1>3, SetupSame DEF Subscribe, ClientTypeOK, Handler
    <2>3. QED
      BY <1>1, <2>1, <2>2
  <1>4. CASE PublishRequest
    <2>1. BrokerTypeOK'
      <3>1. currentMessageID \in Ids
        BY DEF ClientTypeOK, Ids
      <3>2. QED
        BY <1>2, <1>4, <3>1, TypePublish DEF PublishRequest
    <2>2. ClientTypeOK'
      <3>1. setup' = setup
        BY <1>4 DEF PublishRequest, Publish
      <3>2. QED
        BY <1>4, <3>1, SetupSame DEF PublishRequest, ClientTypeOK, Handler
    <2>3. QED
      BY <1>1, <2>1, <2>2
  <1>5. CASE PaceSignal \/ Repush \/ TakeShutdown
    <2>1. BrokerTypeOK' /\ setup' = setup
      BY <1>5, SetupSame DEF PaceSignal, Repush, TakeShutdown, brokerVars, BrokerTypeOK
    <2>2. ClientTypeOK'
      BY <1>5, <2>1, SetupSame
         DEF PaceSignal, Repush, Repushed, HasRoom, TakeShutdown, ShutdownCap, ClientTypeOK, Handler
    <2>3. QED
      BY <1>1, <2>1, <2>2
  <1>6. CASE Exit
    <2>1. BrokerTypeOK'
      <3>1. [i \in Ids |-> InHandlers(i)] \in [Ids -> Nat]
        BY HandlersByState DEF HandlersCounted
      <3>2. QED
        BY <1>2, <1>6, <3>1, TypeLeave DEF Exit, BrokerTypeOK
    <2>2. <<>> \in Seq(Handler)'
      BY EmptySeq
    <2>3. ClientTypeOK'
      BY <1>6, <2>2, SetupSame DEF Exit, ClientTypeOK
    <2>4. QED
      BY <1>1, <2>1, <2>3
  <1>7. CASE PaceElapsed
    <2>1. BrokerTypeOK' /\ setup' = setup
      BY <1>7, SetupSame DEF PaceElapsed, brokerVars, BrokerTypeOK
    <2>2. currentMessageID' \in 0 .. Reps'
      BY <1>7, <2>1, SetupTypes, SetupSame DEF PaceElapsed, LoopInRange, ClientTypeOK
    <2>3. ClientTypeOK'
      BY <1>7, <2>1, <2>2, SetupSame DEF PaceElapsed, ClientTypeOK, Handler
    <2>4. QED
      BY <1>1, <2>1, <2>3
  <1>8. QED
    BY <1>3, <1>4, <1>5, <1>6, <1>7 DEF Main

(* A handler that moves on, and one that is gone.                          *)
LEMMA TypeHandlers ==
  ASSUME ClientTypeOK, setup' = setup, NEW h \in DOMAIN handlers
  PROVE  /\ \A x \in Handler :
              handlers' = [handlers EXCEPT ![h] = x] => handlers' \in Seq(Handler)'
         /\ Done(h) => handlers' = Without(handlers, h) /\ handlers' \in Seq(Handler)'
  <1>1. handlers \in Seq(Handler)
    BY DEF ClientTypeOK
  <1>2. Handler' = Handler
    BY SetupSame DEF Handler
  <1>3. ASSUME NEW x \in Handler PROVE [handlers EXCEPT ![h] = x] \in Seq(Handler)
    BY <1>1, ExceptSeq, LenProperties
  <1>4. Without(handlers, h) \in Seq(Handler)
    BY <1>1, WithoutProperties
  <1>5. Done(h) => handlers' = Without(handlers, h)
    BY DEF Done, Without
  <1>6. QED
    BY <1>2, <1>3, <1>4, <1>5

(* The steps of the handlers.                                              *)
LEMMA TypeHandler ==
  ASSUME TypeOK, NEW h \in DOMAIN handlers, OnMessage(h), UNCHANGED server
  PROVE  TypeOK'
  <1> USE DEF TypeOK
  <1>1. handlers[h] \in Handler
    BY HandlersByState DEF HandlersCounted
  <1>2. /\ BrokerTypeOK' /\ setup' = setup /\ ServerTypeOK'
        /\ main' = main /\ currentMessageID' = currentMessageID /\ signals' = signals
    BY SetupSame DEF OnMessage, WriteRow, Load, Store, Compare, SendShutdown,
                     brokerVars, mainVars, BrokerTypeOK, ServerTypeOK
  <1>3. handlers' \in Seq(Handler)'
    <2>1. ASSUME NEW pc \in {"write", "load", "store", "compare", "send"}, Goto(h, pc)
          PROVE  handlers' \in Seq(Handler)'
      BY <1>2, <2>1, HandlerGoes, TypeHandlers DEF Goto
    <2>2. ASSUME Load(h) PROVE handlers' \in Seq(Handler)'
      <3>1. handlers' = [handlers EXCEPT ![h] =
                           [handlers[h] EXCEPT !.pc = "store", !.seen = received]]
        BY <1>1, <2>2 DEF Load, Handler
      <3>2. [handlers[h] EXCEPT !.pc = "store", !.seen = received] \in Handler
        BY <1>1 DEF Handler, ClientTypeOK
      <3>3. QED
        BY <1>2, <3>1, <3>2, TypeHandlers
    <2>3. QED
      BY <1>2, <2>1, <2>2, TypeHandlers DEF OnMessage, WriteRow, Store, Compare, SendShutdown
  <1>4. writes' \in [Ids -> Nat]
    <2>1. writes \in [Ids -> Nat]
      BY DEF ClientTypeOK
    <2>2. CASE WriteRow(h)
      <3>1. handlers[h].id \in Ids /\ writes' = RowWritten(handlers[h].id)
        BY <1>1, <2>2 DEF WriteRow, Handler
      <3>2. QED
        BY <2>1, <3>1 DEF RowWritten
    <2>3. CASE ~WriteRow(h)
      BY <2>1, <2>3 DEF OnMessage, Load, Store, Compare, SendShutdown
    <2>4. QED
      BY <2>2, <2>3
  <1>9. failed' \in [Ids -> 0 .. setup.failures]
    <2>1. failed \in [Ids -> 0 .. setup.failures] /\ setup.failures \in Nat
      BY SetupTypes DEF ClientTypeOK
    <2>2. CASE WriteRow(h)
      <3>1. handlers[h].id \in Ids /\ RowKept(handlers[h].id)
        BY <1>1, <2>2 DEF WriteRow, Handler
      <3>2. QED
        BY <2>1, <3>1 DEF RowKept
    <2>3. CASE ~WriteRow(h)
      BY <2>1, <2>3 DEF OnMessage, Load, Store, Compare, SendShutdown
    <2>4. QED
      BY <2>2, <2>3
  <1>5. received' \in Nat
    BY <1>1 DEF OnMessage, WriteRow, Load, Store, Compare, SendShutdown, ClientTypeOK, Handler
  <1>6. shutdown' \in 0 .. ShutdownCap
    BY DEF OnMessage, WriteRow, Load, Store, Compare, SendShutdown, HasRoom, ShutdownCap,
           ClientTypeOK
  <1>7. ClientTypeOK'
    BY <1>2, <1>3, <1>4, <1>5, <1>6, <1>9, SetupSame DEF ClientTypeOK
  <1>8. QED
    BY <1>2, <1>7

(* The steps that leave the client as it is.                               *)
LEMMA TypeClientSame ==
  ASSUME ClientTypeOK, UNCHANGED <<setup, clientVars>>
  PROVE  ClientTypeOK'
  BY SetupSame DEF ClientTypeOK, Handler, clientVars, mainVars

(* The steps of the server.                                                *)
LEMMA TypeServer == TypeOK /\ ServerStep => TypeOK'
  <1> SUFFICES ASSUME TypeOK, Server, UNCHANGED clientVars PROVE TypeOK'
    BY DEF ServerStep
  <1> USE DEF TypeOK
  <1>1. setup' = setup
    BY DEF Server, ServerSubscribe, ServerOnMessage, ServerShutdown
  <1>2. ClientTypeOK'
    BY <1>1, TypeClientSame
  <1>3. "server" \in Parties /\ "request" \in Topics /\ "response" \in Topics
    BY DEF Parties, Topics
  <1>4. ServerTypeOK'
    BY DEF Server, ServerSubscribe, ServerOnMessage, ServerShutdown, ServerTypeOK
  <1>5. CASE ServerSubscribe
    <2>1. BrokerTypeOK'
      BY <1>3, <1>5, TypeSubscribed, SetupSame DEF ServerSubscribe, BrokerTypeOK
    <2>2. QED
      BY <1>2, <1>4, <2>1
  <1>6. ASSUME NEW i \in Ids, ServerOnMessage(i) PROVE BrokerTypeOK'
    <2>1. Taken("request", i) \in [Topics -> [Ids -> Nat]]
      BY <1>3, <1>6, OneFewer DEF ServerOnMessage, Arrives
    <2>2. [Taken("request", i) EXCEPT !["response"][ResponseId(i)] = @ + 1]
            \in [Topics -> [Ids -> Nat]]
      BY <1>3, <2>1 DEF ResponseId
    <2>3. inflight' \in [Topics -> [Ids -> Nat]] /\ dropped' \in [Ids -> Nat]
      <3>1. CASE link["client"] = "subscribed"
        BY <1>6, <2>2, <3>1 DEF ServerOnMessage, BrokerTypeOK
      <3>2. CASE link["client"] # "subscribed"
        <4>1. inflight' = Taken("request", i) /\ dropped' = OneDropped(i)
          BY <1>6, <3>2 DEF ServerOnMessage
        <4>2. QED
          BY <2>1, <4>1, OneGone
      <3>3. QED
        BY <3>1, <3>2
    <2>4. QED
      BY <1>6, <2>3, SetupSame DEF ServerOnMessage, BrokerTypeOK
  <1>7. CASE ServerShutdown
    <2>1. BrokerTypeOK'
      BY <1>3, <1>7, TypeLeave, NoCopiesType DEF ServerShutdown, BrokerTypeOK
    <2>2. QED
      BY <1>2, <1>4, <2>1
  <1>8. QED
    BY <1>2, <1>4, <1>5, <1>6, <1>7 DEF Server

(* The steps of the broker and the library.                                *)
LEMMA TypeBroker == TypeOK /\ BrokerStep => TypeOK'
  <1> SUFFICES ASSUME TypeOK, BrokerStep PROVE TypeOK'
    OBVIOUS
  <1> USE DEF TypeOK
  <1>1. ASSUME NEW t \in Topics, NEW i \in Ids, Lose(t, i) PROVE BrokerTypeOK'
    <2>1. inflight' \in [Topics -> [Ids -> Nat]] /\ dropped' \in [Ids -> Nat]
      BY <1>1, OneFewer, OneGone DEF Lose
    <2>2. QED
      BY <1>1, <2>1, SetupSame DEF Lose, BrokerTypeOK
  <1>2. ASSUME NEW t \in Topics, NEW i \in Ids, Redeliver(t, i) PROVE BrokerTypeOK'
    <2>1. inflight' \in [Topics -> [Ids -> Nat]]
      BY <1>2, OneMore DEF Redeliver
    <2>2. duplicates' \in [Ids -> Nat]
      BY <1>2 DEF Redeliver, BrokerTypeOK
    <2>3. QED
      BY <1>2, <2>1, <2>2, SetupSame DEF Redeliver, BrokerTypeOK
  <1>3. ASSUME NEW p \in Parties, ConnectionLost(p) PROVE BrokerTypeOK'
    <2>1. losses' \in 0 .. setup.losses
      BY <1>3, SetupTypes DEF ConnectionLost, BrokerTypeOK
    <2>2. QED
      BY <1>3, <2>1, TypeLeave, NoCopiesType DEF ConnectionLost
  <1>4. ASSUME NEW p \in Parties, Reconnected(p) PROVE BrokerTypeOK'
    BY <1>4, SetupSame DEF Reconnected, BrokerTypeOK
  <1>5. CASE \E i \in Ids : Deliver(i) /\ UNCHANGED server
    <2>1. PICK i \in Ids : Deliver(i) /\ UNCHANGED server
      BY <1>5
    <2>2. "response" \in Topics
      BY DEF Topics
    <2>3. BrokerTypeOK' /\ setup' = setup
      <3>1. inflight' \in [Topics -> [Ids -> Nat]]
        BY <2>1, <2>2, OneFewer DEF Deliver, Arrives
      <3>2. QED
        BY <2>1, <3>1, SetupSame DEF Deliver, BrokerTypeOK
    <2>4. handlers' \in Seq(Handler)
      <3>1. [pc |-> "write", id |-> i, seen |-> 0] \in Handler
        BY DEF Handler
      <3>2. QED
        BY <2>1, <3>1, AppendProperties DEF Deliver, ClientTypeOK
    <2>5. ClientTypeOK'
      BY <2>1, <2>3, <2>4, SetupSame DEF Deliver, ClientTypeOK, Handler, mainVars
    <2>6. QED
      BY <2>1, <2>3, <2>5 DEF ServerTypeOK
  <1>6. ASSUME BrokerTypeOK', UNCHANGED <<setup, clientVars, server>> PROVE TypeOK'
    BY <1>6, TypeClientSame DEF ServerTypeOK
  <1>7. QED
    BY <1>1, <1>2, <1>3, <1>4, <1>5, <1>6
       DEF BrokerStep, Lose, Redeliver, ConnectionLost, Reconnected

(* A signal.                                                               *)
LEMMA TypeSignal == TypeOK /\ Signal /\ UNCHANGED server => TypeOK'
  <1> SUFFICES ASSUME TypeOK, Signal, UNCHANGED server PROVE TypeOK'
    OBVIOUS
  <1>1. BrokerTypeOK' /\ setup' = setup /\ ServerTypeOK'
    BY SetupSame DEF TypeOK, Signal, brokerVars, BrokerTypeOK, ServerTypeOK
  <1>2. signals' \in 0 .. setup.signals
    BY SetupTypes DEF TypeOK, Signal, ClientTypeOK
  <1>3. ClientTypeOK'
    BY <1>1, <1>2, SetupSame DEF TypeOK, Signal, ClientTypeOK, Handler, mainVars, ShutdownCap
  <1>4. QED
    BY <1>1, <1>3 DEF TypeOK

(* Every step keeps the types, the loop of PublishRequests being in range. *)
LEMMA TypeNext == TypeOK /\ LoopInRange /\ [Next]_vars => TypeOK'
  <1> SUFFICES ASSUME TypeOK, LoopInRange, [Next]_vars PROVE TypeOK'
    OBVIOUS
  <1>1. CASE HandlerStep
    BY <1>1, TypeHandler DEF HandlerStep
  <1>2. CASE UNCHANGED vars
    BY <1>2, TypeClientSame, SetupSame
       DEF vars, brokerVars, TypeOK, BrokerTypeOK, ServerTypeOK
  <1>3. QED
    BY <1>1, <1>2, TypeMain, TypeServer, TypeBroker, TypeSignal DEF Next

(***************************************************************************)
(* The effects of the steps on the counted sets.                           *)
(***************************************************************************)

(* MqttFile counts as this module does.                                    *)
LEMMA RowCountIs == RowCount = Cardinality(File!Lines)
  <1>1. \A S : File!Cardinality(S) = Cardinality(S)
    BY DEF File!Cardinality, Cardinality
  <1>2. QED
    BY <1>1 DEF RowCount, File!Total

(* The rows of the file are counted with the file finite.                  *)
LEMMA RowCountType ==
  ASSUME IsFiniteSet(File!Lines)
  PROVE  RowCount \in Nat
  BY RowCountIs, FS_CardinalityType

\* What the rows of the file are.
LinesNumbered ==
  \A p : p \in File!Lines <=> \E i \in Ids : \E n \in 1 .. writes[i] : p = <<i, n>>

(* The lines of the file are numbered from 1.                              *)
LEMMA LinesOf == LinesNumbered
  BY DEF LinesNumbered, File!Lines, Ids

(* A row more is a row more.                                               *)
LEMMA RowAdded ==
  ASSUME TypeOK, TypeOK', setup' = setup, IsFiniteSet(File!Lines),
         NEW i \in Ids, writes' = [writes EXCEPT ![i] = @ + 1]
  PROVE  IsFiniteSet(File!Lines') /\ RowCount' = RowCount + 1
  <1> DEFINE p == <<i, writes[i] + 1>>
  <1>1. /\ writes \in [Ids -> Nat] /\ writes' \in [Ids -> Nat] /\ Ids' = Ids
        /\ \A j \in Ids : writes'[j] = IF j = i THEN writes[i] + 1 ELSE writes[j]
    BY SetupSame DEF TypeOK, ClientTypeOK
  <1>2. \A q : q \in File!Lines' <=> \E j \in Ids : \E n \in 1 .. writes'[j] : q = <<j, n>>
    <2>1. LinesNumbered'
      BY LinesOf, PTL
    <2>2. QED
      BY <1>1, <2>1 DEF LinesNumbered
  <1>3. 1 .. writes[i] + 1 = (1 .. writes[i]) \cup {writes[i] + 1} /\ writes[i] \in Nat
    BY <1>1
  <1>4. \A q : q \in File!Lines' <=> q \in File!Lines \/ q = p
    BY <1>1, <1>2, <1>3, LinesOf DEF LinesNumbered
  <1>5. p \notin File!Lines
    <2>1. \A n \in 1 .. writes[i] : n # writes[i] + 1
      BY <1>3
    <2>2. \A j \in Ids : \A n \in 1 .. writes[j] : p = <<j, n>> => j = i /\ n = writes[i] + 1
      OBVIOUS
    <2>3. QED
      BY <2>1, <2>2, LinesOf DEF LinesNumbered
  <1> HIDE DEF p
  <1>6. File!Lines' = File!Lines \cup {p}
    BY <1>4
  <1>7. IsFiniteSet(File!Lines') /\ Cardinality(File!Lines') = Cardinality(File!Lines) + 1
    BY <1>5, <1>6, FS_AddElement
  <1>8. RowCount = Cardinality(File!Lines) /\ RowCount' = Cardinality(File!Lines')
    <2>1. (RowCount = Cardinality(File!Lines))'
      BY RowCountIs, PTL
    <2>2. QED
      BY <2>1, RowCountIs
  <1>9. QED
    BY <1>7, <1>8

(* The rows are the same.                                                  *)
LEMMA RowsSame ==
  ASSUME setup' = setup, writes' = writes
  PROVE  File!Lines' = File!Lines /\ RowCount' = RowCount
  BY SetupSame DEF File!Lines, RowCount, File!Total

(* The states a handler is counted by do not change.                       *)
LEMMA StatesSame ==
  ASSUME setup' = setup
  PROVE  ToCount' = ToCount /\ \A i : Writing(i)' = Writing(i)
  BY SetupSame DEF ToCount, Writing, Handler

(* One handler's state is another.                                         *)
LEMMA HandlersDiffer ==
  ASSUME handlers \in Seq(Handler), handlers' \in Seq(Handler),
         DOMAIN handlers' = DOMAIN handlers, NEW h \in DOMAIN handlers, NEW T,
         \A k \in DOMAIN handlers : k # h => handlers'[k] = handlers[k]
  PROVE  Count(handlers', T)
           = Count(handlers, T) - Weight(handlers[h], T) + Weight(handlers'[h], T)
  BY CountReplace

(* A handler moves on: what that does to the numbers.                      *)
LEMMA HandlerMoves ==
  ASSUME TypeOK, TypeOK', setup' = setup, NEW h \in DOMAIN handlers, NEW x \in Handler,
         handlers' = [handlers EXCEPT ![h] = x]
  PROVE  /\ Cardinality(Uncounted)' = Cardinality(Uncounted)
              - Weight(handlers[h], ToCount) + Weight(x, ToCount)
         /\ \A i : InHandlers(i)' = InHandlers(i)
              - Weight(handlers[h], Writing(i)) + Weight(x, Writing(i))
         /\ DOMAIN handlers' = DOMAIN handlers
         /\ \A k \in DOMAIN handlers : handlers'[k] = IF k = h THEN x ELSE handlers[k]
  <1>1. handlers \in Seq(Handler) /\ HandlersCounted
    BY HandlersByState DEF TypeOK, ClientTypeOK
  <1>2. HandlersCounted'
    <2>1. ClientTypeOK' => HandlersCounted'
      BY HandlersByState, PTL
    <2>2. QED
      BY <2>1 DEF TypeOK
  <1>4. DOMAIN handlers' = DOMAIN handlers
        /\ \A k \in DOMAIN handlers : handlers'[k] = IF k = h THEN x ELSE handlers[k]
    OBVIOUS
  <1>3. ASSUME NEW T
        PROVE  Count(handlers', T)
                 = Count(handlers, T) - Weight(handlers[h], T) + Weight(x, T)
    <2>1. handlers' \in Seq(Handler)
      BY <1>1, ExceptSeq, LenProperties
    <2>2. Count(handlers', T)
            = Count(handlers, T) - Weight(handlers[h], T) + Weight(handlers'[h], T)
      BY <1>1, <1>4, <2>1, HandlersDiffer
    <2>3. QED
      BY <1>4, <2>2
  <1>5. /\ Cardinality(Uncounted)' = Count(handlers', ToCount)
        /\ \A i : InHandlers(i)' = Count(handlers', Writing(i))
    BY <1>2, StatesSame DEF HandlersCounted
  <1>6. QED
    BY <1>1, <1>3, <1>4, <1>5 DEF HandlersCounted

(* A handler is gone.                                                      *)
LEMMA HandlerLeaves ==
  ASSUME TypeOK, TypeOK', setup' = setup, NEW h \in DOMAIN handlers, Done(h)
  PROVE  /\ Cardinality(Uncounted)' = Cardinality(Uncounted) - Weight(handlers[h], ToCount)
         /\ \A i : InHandlers(i)' = InHandlers(i) - Weight(handlers[h], Writing(i))
         /\ \A k \in DOMAIN handlers' : \E j \in DOMAIN handlers : handlers'[k] = handlers[j]
  <1>1. handlers \in Seq(Handler) /\ HandlersCounted
    BY HandlersByState DEF TypeOK, ClientTypeOK
  <1>2. HandlersCounted'
    <2>1. ClientTypeOK' => HandlersCounted'
      BY HandlersByState, PTL
    <2>2. QED
      BY <2>1 DEF TypeOK
  <1>3. handlers' = Without(handlers, h)
    BY TypeHandlers DEF TypeOK
  <1>4. ASSUME NEW T
        PROVE  Count(handlers', T) = Count(handlers, T) - Weight(handlers[h], T)
    BY <1>1, <1>3, CountWithout
  <1>5. ASSUME NEW k \in DOMAIN handlers'
        PROVE  \E j \in DOMAIN handlers : handlers'[k] = handlers[j]
    <2>1. /\ DOMAIN Without(handlers, h) = 1 .. Len(handlers) - 1
          /\ \A l \in 1 .. Len(handlers) - 1 :
               Was(h, l) \in DOMAIN handlers /\ Without(handlers, h)[l] = handlers[Was(h, l)]
      BY <1>1, WithoutProperties
    <2>2. k \in 1 .. Len(handlers) - 1
      BY <1>3, <2>1
    <2>3. QED
      BY <1>3, <2>1, <2>2
  <1>6. /\ Cardinality(Uncounted)' = Count(handlers', ToCount)
        /\ \A i : InHandlers(i)' = Count(handlers', Writing(i))
    BY <1>2, StatesSame DEF HandlersCounted
  <1>7. QED
    BY <1>1, <1>4, <1>5, <1>6 DEF HandlersCounted

(* A handler is started.                                                   *)
LEMMA HandlerStarts ==
  ASSUME TypeOK, TypeOK', NEW i \in Ids, Deliver(i)
  PROVE  /\ Cardinality(Uncounted)' = Cardinality(Uncounted)
         /\ \A j \in Ids : InHandlers(j)' = InHandlers(j) + (IF j = i THEN 1 ELSE 0)
         /\ \A k \in DOMAIN handlers' :
              \/ k \in DOMAIN handlers /\ handlers'[k] = handlers[k]
              \/ handlers'[k].pc = "write"
  <1> DEFINE x == [pc |-> "write", id |-> i, seen |-> 0]
  <1>1. handlers \in Seq(Handler) /\ HandlersCounted
    BY HandlersByState DEF TypeOK, ClientTypeOK
  <1>2. HandlersCounted'
    <2>1. ClientTypeOK' => HandlersCounted'
      BY HandlersByState, PTL
    <2>2. QED
      BY <2>1 DEF TypeOK
  <1>3. x \in Handler /\ setup' = setup /\ handlers' = Append(handlers, x)
    BY DEF Handler, Deliver
  <1>4. \A T : Count(handlers', T) = Count(handlers, T) + Weight(x, T)
    BY <1>1, <1>3, CountAppend
  <1>5. Weight(x, ToCount) = 0
        /\ \A j \in Ids : Weight(x, Writing(j)) = IF j = i THEN 1 ELSE 0
    BY <1>3 DEF Weight, ToCount, Writing
  <1>6. ASSUME NEW k \in DOMAIN handlers'
        PROVE  \/ k \in DOMAIN handlers /\ handlers'[k] = handlers[k]
               \/ handlers'[k].pc = "write"
    <2>1. DOMAIN handlers = 1 .. Len(handlers) /\ Len(handlers) \in Nat
      BY <1>1, LenProperties
    <2>2. DOMAIN handlers' = 1 .. Len(handlers) + 1
      BY <1>1, <1>3, AppendProperties, LenProperties
    <2>3. /\ \A j \in 1 .. Len(handlers) : handlers'[j] = handlers[j]
          /\ handlers'[Len(handlers) + 1] = x
      BY <1>1, <1>3, AppendProperties
    <2>4. QED
      BY <2>1, <2>2, <2>3
  <1>7. /\ Cardinality(Uncounted)' = Count(handlers', ToCount)
        /\ \A j : InHandlers(j)' = Count(handlers', Writing(j))
    BY <1>2, <1>3, StatesSame DEF HandlersCounted
  <1>8. QED
    BY <1>1, <1>4, <1>5, <1>6, <1>7 DEF HandlersCounted

(* The handlers end with the process.                                      *)
LEMMA HandlersEnd ==
  ASSUME handlers' = <<>>
  PROVE  /\ Cardinality(Uncounted)' = 0
         /\ DOMAIN handlers' = {}
         /\ \A i : InHandlers(i)' = 0
  <1>1. DOMAIN handlers' = {}
    OBVIOUS
  <1>2. Uncounted' = {}
    BY <1>1 DEF Uncounted
  <1>3. ASSUME NEW i PROVE InHandlers(i)' = 0
    <2>1. {h \in DOMAIN handlers' : handlers'[h].id = i /\ handlers'[h].pc = "write"} = {}
      BY <1>1
    <2>2. QED
      BY <2>1, FS_EmptySet DEF InHandlers
  <1>4. QED
    BY <1>1, <1>2, <1>3, FS_EmptySet

\* A state in which a handler has written its row and not counted it, and one
\* in which it has not written its row.
IsToCount(pc) == IF pc \in {"load", "store"} THEN 1 ELSE 0
IsToWrite(pc) == IF pc = "write" THEN 1 ELSE 0

(* What a handler counts for.                                              *)
LEMMA WeightOf ==
  ASSUME NEW r \in Handler
  PROVE  /\ Weight(r, ToCount) = IsToCount(r.pc)
         /\ \A i : Weight(r, Writing(i)) = IF i = r.id THEN IsToWrite(r.pc) ELSE 0
  BY DEF Weight, ToCount, Writing, IsToCount, IsToWrite

(* A handler at its next place.                                            *)
LEMMA GoesOn ==
  ASSUME TypeOK, TypeOK', setup' = setup, NEW h \in DOMAIN handlers,
         NEW pc \in {"write", "load", "store", "compare", "send"}, Goto(h, pc)
  PROVE  /\ Cardinality(Uncounted)'
              = Cardinality(Uncounted) - IsToCount(handlers[h].pc) + IsToCount(pc)
         /\ \A i : InHandlers(i)' = InHandlers(i)
              + (IF i = handlers[h].id THEN IsToWrite(pc) - IsToWrite(handlers[h].pc) ELSE 0)
         /\ DOMAIN handlers' = DOMAIN handlers
         /\ \A k \in DOMAIN handlers : k # h => handlers'[k] = handlers[k]
         /\ handlers'[h].pc = pc /\ handlers'[h].seen = handlers[h].seen
  <1> DEFINE x == [handlers[h] EXCEPT !.pc = pc]
  <1>1. x \in Handler /\ x.pc = pc /\ x.id = handlers[h].id /\ x.seen = handlers[h].seen
        /\ handlers' = [handlers EXCEPT ![h] = x]
    BY HandlerGoes DEF TypeOK, Goto
  <1>2. handlers[h] \in Handler /\ Cardinality(Uncounted) \in Nat
        /\ \A i : InHandlers(i) \in Nat
    BY HandlersByState DEF HandlersCounted, TypeOK
  <1> HIDE DEF x
  <1>3. /\ Cardinality(Uncounted)' = Cardinality(Uncounted)
             - Weight(handlers[h], ToCount) + Weight(x, ToCount)
        /\ \A i : InHandlers(i)' = InHandlers(i)
             - Weight(handlers[h], Writing(i)) + Weight(x, Writing(i))
        /\ DOMAIN handlers' = DOMAIN handlers
        /\ \A k \in DOMAIN handlers : handlers'[k] = IF k = h THEN x ELSE handlers[k]
    BY <1>1, HandlerMoves
  <1>4. /\ Weight(handlers[h], ToCount) = IsToCount(handlers[h].pc)
        /\ Weight(x, ToCount) = IsToCount(pc)
        /\ \A i : /\ Weight(handlers[h], Writing(i))
                       = IF i = handlers[h].id THEN IsToWrite(handlers[h].pc) ELSE 0
                  /\ Weight(x, Writing(i)) = IF i = handlers[h].id THEN IsToWrite(pc) ELSE 0
    BY <1>1, <1>2, WeightOf
  <1>5. ASSUME NEW i
        PROVE  InHandlers(i)' = InHandlers(i)
                 + (IF i = handlers[h].id THEN IsToWrite(pc) - IsToWrite(handlers[h].pc) ELSE 0)
    <2>1. InHandlers(i)' = InHandlers(i)
            - (IF i = handlers[h].id THEN IsToWrite(handlers[h].pc) ELSE 0)
            + (IF i = handlers[h].id THEN IsToWrite(pc) ELSE 0)
      BY <1>3, <1>4
    <2>2. QED
      BY <1>2, <2>1 DEF IsToWrite
  <1>6. QED
    BY <1>1, <1>3, <1>4, <1>5

(* A handler that returns.                                                 *)
LEMMA Returns ==
  ASSUME TypeOK, TypeOK', setup' = setup, NEW h \in DOMAIN handlers, Done(h),
         handlers[h].pc \in {"compare", "send"}
  PROVE  /\ Cardinality(Uncounted)' = Cardinality(Uncounted)
         /\ \A i : InHandlers(i)' = InHandlers(i)
         /\ \A k \in DOMAIN handlers' : \E j \in DOMAIN handlers : handlers'[k] = handlers[j]
  <1>1. handlers[h] \in Handler /\ Cardinality(Uncounted) \in Nat
        /\ \A i : InHandlers(i) \in Nat
    BY HandlersByState DEF HandlersCounted, TypeOK
  <1>2. Weight(handlers[h], ToCount) = 0 /\ \A i : Weight(handlers[h], Writing(i)) = 0
    BY <1>1, WeightOf DEF IsToCount, IsToWrite
  <1>3. /\ Cardinality(Uncounted)' = Cardinality(Uncounted) - Weight(handlers[h], ToCount)
        /\ \A i : InHandlers(i)' = InHandlers(i) - Weight(handlers[h], Writing(i))
        /\ \A k \in DOMAIN handlers' : \E j \in DOMAIN handlers : handlers'[k] = handlers[j]
    BY HandlerLeaves
  <1>4. QED
    BY <1>1, <1>2, <1>3

(* A handler that reads the counter.                                       *)
LEMMA Loads ==
  ASSUME TypeOK, TypeOK', NEW h \in DOMAIN handlers, Load(h)
  PROVE  /\ Cardinality(Uncounted)' = Cardinality(Uncounted)
         /\ \A i : InHandlers(i)' = InHandlers(i)
         /\ DOMAIN handlers' = DOMAIN handlers
         /\ \A k \in DOMAIN handlers : k # h => handlers'[k] = handlers[k]
         /\ handlers'[h].pc = "store" /\ handlers'[h].seen = received
  <1> DEFINE x == [handlers[h] EXCEPT !.pc = "store", !.seen = received]
  <1>1. handlers[h] \in Handler /\ Cardinality(Uncounted) \in Nat
        /\ \A i : InHandlers(i) \in Nat
    BY HandlersByState DEF HandlersCounted, TypeOK
  <1>2. x \in Handler /\ x.pc = "store" /\ x.id = handlers[h].id /\ x.seen = received
        /\ handlers' = [handlers EXCEPT ![h] = x]
    BY <1>1 DEF Handler, TypeOK, ClientTypeOK, Load
  <1>3. setup' = setup /\ handlers[h].pc = "load"
    BY DEF Load, At, brokerVars
  <1> HIDE DEF x
  <1>4. /\ Weight(handlers[h], ToCount) = 1 /\ Weight(x, ToCount) = 1
        /\ \A i : Weight(handlers[h], Writing(i)) = 0 /\ Weight(x, Writing(i)) = 0
    BY <1>1, <1>2, <1>3, WeightOf DEF IsToCount, IsToWrite
  <1>5. /\ Cardinality(Uncounted)' = Cardinality(Uncounted)
             - Weight(handlers[h], ToCount) + Weight(x, ToCount)
        /\ \A i : InHandlers(i)' = InHandlers(i)
             - Weight(handlers[h], Writing(i)) + Weight(x, Writing(i))
        /\ DOMAIN handlers' = DOMAIN handlers
        /\ \A k \in DOMAIN handlers : handlers'[k] = IF k = h THEN x ELSE handlers[k]
    BY <1>2, <1>3, HandlerMoves
  <1>6. QED
    BY <1>1, <1>2, <1>4, <1>5

(***************************************************************************)
(* The counter never runs ahead of the file.                               *)
(***************************************************************************)

(* With the file, the counter and the handlers as they are.                *)
LEMMA CountsSame ==
  ASSUME CountsLeaveRoom, UNCHANGED <<setup, handlers, writes, received>>
  PROVE  CountsLeaveRoom'
  BY RowsSame DEF CountsLeaveRoom, Uncounted

(* A row is written.                                                       *)
LEMMA CountsWriteRow ==
  ASSUME TypeOK, TypeOK', CountsLeaveRoom, NEW h \in DOMAIN handlers, WriteRow(h)
  PROVE  CountsLeaveRoom'
  <1>1. /\ handlers[h].pc = "write" /\ Goto(h, "load")
        /\ setup' = setup /\ received' = received
        /\ writes' = [writes EXCEPT ![handlers[h].id] = @ + 1]
    BY DEF WriteRow, At, RowWritten, brokerVars
  <1>2. /\ received \in Nat /\ RowCount \in Nat /\ Cardinality(Uncounted) \in Nat
        /\ \A k \in DOMAIN handlers : handlers[k] \in Handler
    BY HandlersByState, RowCountType DEF HandlersCounted, TypeOK, ClientTypeOK, CountsLeaveRoom
  <1>3. IsFiniteSet(File!Lines') /\ RowCount' = RowCount + 1
    BY <1>1, <1>2, RowAdded DEF CountsLeaveRoom, Handler
  <1>4. /\ Cardinality(Uncounted)' = Cardinality(Uncounted) + 1
        /\ DOMAIN handlers' = DOMAIN handlers
        /\ \A k \in DOMAIN handlers : k # h => handlers'[k] = handlers[k]
        /\ handlers'[h].pc = "load"
    BY <1>1, <1>2, GoesOn DEF IsToCount
  <1>5. ASSUME NEW k \in DOMAIN handlers'
        PROVE  /\ handlers'[k].pc = "store" =>
                    handlers'[k].seen + Cardinality(Uncounted)' <= RowCount'
               /\ handlers'[k].pc = "compare" =>
                    /\ handlers'[k].seen + 1 + Cardinality(Uncounted)' <= RowCount'
                    /\ received' > 0
    <2>1. CASE k = h
      BY <1>4, <2>1
    <2>2. CASE k # h
      <3>1. handlers'[k] = handlers[k] /\ k \in DOMAIN handlers /\ handlers[k].seen \in Nat
        BY <1>2, <1>4, <2>2 DEF Handler
      <3>2. QED
        BY <1>1, <1>2, <1>3, <1>4, <3>1 DEF CountsLeaveRoom
    <2>3. QED
      BY <2>1, <2>2
  <1>6. received' + Cardinality(Uncounted)' <= RowCount'
    BY <1>1, <1>2, <1>3, <1>4 DEF CountsLeaveRoom
  <1>7. QED
    BY <1>3, <1>5, <1>6 DEF CountsLeaveRoom

(* The counter is read.                                                    *)
LEMMA CountsLoad ==
  ASSUME TypeOK, TypeOK', CountsLeaveRoom, NEW h \in DOMAIN handlers, Load(h)
  PROVE  CountsLeaveRoom'
  <1>1. setup' = setup /\ received' = received /\ writes' = writes
    BY DEF Load, brokerVars
  <1>2. File!Lines' = File!Lines /\ RowCount' = RowCount
    BY <1>1, RowsSame
  <1>3. /\ Cardinality(Uncounted)' = Cardinality(Uncounted)
        /\ DOMAIN handlers' = DOMAIN handlers
        /\ \A k \in DOMAIN handlers : k # h => handlers'[k] = handlers[k]
        /\ handlers'[h].pc = "store" /\ handlers'[h].seen = received
    BY Loads
  <1>4. QED
    BY <1>1, <1>2, <1>3 DEF CountsLeaveRoom

(* The counter is written.                                                 *)
LEMMA CountsStore ==
  ASSUME TypeOK, TypeOK', CountsLeaveRoom, NEW h \in DOMAIN handlers, Store(h)
  PROVE  CountsLeaveRoom'
  <1>1. /\ handlers[h].pc = "store" /\ Goto(h, "compare")
        /\ setup' = setup /\ received' = handlers[h].seen + 1 /\ writes' = writes
    BY DEF Store, At, brokerVars
  <1>2. File!Lines' = File!Lines /\ RowCount' = RowCount
    BY <1>1, RowsSame
  <1>3. /\ received \in Nat /\ RowCount \in Nat /\ Cardinality(Uncounted) \in Nat
        /\ \A k \in DOMAIN handlers : handlers[k] \in Handler
    BY HandlersByState, RowCountType DEF HandlersCounted, TypeOK, ClientTypeOK, CountsLeaveRoom
  <1>4. /\ Cardinality(Uncounted)' = Cardinality(Uncounted) - 1
        /\ DOMAIN handlers' = DOMAIN handlers
        /\ \A k \in DOMAIN handlers : k # h => handlers'[k] = handlers[k]
        /\ handlers'[h].pc = "compare" /\ handlers'[h].seen = handlers[h].seen
    BY <1>1, <1>3, GoesOn DEF IsToCount
  <1>5. handlers[h].seen \in Nat /\ handlers[h].seen + Cardinality(Uncounted) <= RowCount
    BY <1>1, <1>3 DEF CountsLeaveRoom, Handler
  <1>6. ASSUME NEW k \in DOMAIN handlers'
        PROVE  /\ handlers'[k].pc = "store" =>
                    handlers'[k].seen + Cardinality(Uncounted)' <= RowCount'
               /\ handlers'[k].pc = "compare" =>
                    /\ handlers'[k].seen + 1 + Cardinality(Uncounted)' <= RowCount'
                    /\ received' > 0
    <2>1. CASE k = h
      BY <1>1, <1>2, <1>3, <1>4, <1>5, <2>1
    <2>2. CASE k # h
      <3>1. handlers'[k] = handlers[k] /\ k \in DOMAIN handlers /\ handlers[k].seen \in Nat
        BY <1>3, <1>4, <2>2 DEF Handler
      <3>2. QED
        BY <1>1, <1>2, <1>3, <1>4, <1>5, <3>1 DEF CountsLeaveRoom
    <2>3. QED
      BY <2>1, <2>2
  <1>7. received' + Cardinality(Uncounted)' <= RowCount'
    BY <1>1, <1>2, <1>3, <1>4, <1>5
  <1>8. QED
    BY <1>2, <1>6, <1>7 DEF CountsLeaveRoom

(* A handler is done, or goes on to send.                                  *)
LEMMA CountsCompare ==
  ASSUME TypeOK, TypeOK', CountsLeaveRoom, NEW h \in DOMAIN handlers,
         Compare(h) \/ SendShutdown(h)
  PROVE  CountsLeaveRoom'
  <1>1. /\ setup' = setup /\ received' = received /\ writes' = writes
        /\ handlers[h].pc \in {"compare", "send"}
        /\ Done(h) \/ Goto(h, "send")
    BY DEF Compare, SendShutdown, At, brokerVars
  <1>2. File!Lines' = File!Lines /\ RowCount' = RowCount
    BY <1>1, RowsSame
  <1>3. CASE Done(h)
    <2>1. /\ Cardinality(Uncounted)' = Cardinality(Uncounted)
          /\ \A k \in DOMAIN handlers' : \E j \in DOMAIN handlers : handlers'[k] = handlers[j]
      BY <1>1, <1>3, Returns
    <2>2. QED
      BY <1>1, <1>2, <2>1 DEF CountsLeaveRoom
  <1>4. CASE Goto(h, "send")
    <2>1. Cardinality(Uncounted) \in Nat
      BY HandlersByState DEF HandlersCounted, TypeOK
    <2>2. /\ Cardinality(Uncounted)' = Cardinality(Uncounted)
          /\ DOMAIN handlers' = DOMAIN handlers
          /\ \A k \in DOMAIN handlers : k # h => handlers'[k] = handlers[k]
          /\ handlers'[h].pc = "send"
      BY <1>1, <1>4, <2>1, GoesOn DEF IsToCount
    <2>3. QED
      BY <1>1, <1>2, <2>2 DEF CountsLeaveRoom
  <1>5. QED
    BY <1>1, <1>3, <1>4

(* A handler is started.                                                   *)
LEMMA CountsDeliver ==
  ASSUME TypeOK, TypeOK', CountsLeaveRoom, NEW i \in Ids, Deliver(i)
  PROVE  CountsLeaveRoom'
  <1>1. setup' = setup /\ received' = received /\ writes' = writes
    BY DEF Deliver
  <1>2. File!Lines' = File!Lines /\ RowCount' = RowCount
    BY <1>1, RowsSame
  <1>3. /\ Cardinality(Uncounted)' = Cardinality(Uncounted)
        /\ \A k \in DOMAIN handlers' :
             \/ k \in DOMAIN handlers /\ handlers'[k] = handlers[k]
             \/ handlers'[k].pc = "write"
    BY HandlerStarts
  <1>4. QED
    BY <1>1, <1>2, <1>3 DEF CountsLeaveRoom

(* The process ends.                                                       *)
LEMMA CountsExit ==
  ASSUME TypeOK, CountsLeaveRoom, Exit
  PROVE  CountsLeaveRoom'
  <1>1. setup' = setup /\ received' = received /\ writes' = writes /\ handlers' = <<>>
    BY DEF Exit
  <1>2. File!Lines' = File!Lines /\ RowCount' = RowCount
    BY <1>1, RowsSame
  <1>3. Cardinality(Uncounted)' = 0 /\ DOMAIN handlers' = {}
    BY <1>1, HandlersEnd
  <1>4. received \in Nat /\ RowCount \in Nat /\ Cardinality(Uncounted) \in Nat
    BY HandlersByState, RowCountType DEF HandlersCounted, TypeOK, ClientTypeOK, CountsLeaveRoom
  <1>5. QED
    BY <1>1, <1>2, <1>3, <1>4 DEF CountsLeaveRoom

\* The steps that do to the counter, the file and the handlers nothing, except
\* that the process may end.
LEMMA QuietSteps ==
  ASSUME MainStep \/ ServerStep \/ (Signal /\ UNCHANGED server)
         \/ (BrokerStep /\ ~\E i \in Ids : Deliver(i) /\ UNCHANGED server)
  PROVE  /\ UNCHANGED <<setup, writes, received>>
         /\ handlers' = handlers \/ Exit
  BY DEF MainStep, Main, Subscribe, PublishRequest, Publish, PaceElapsed, PaceSignal, Repush,
         TakeShutdown, Exit, ServerStep, Server, ServerSubscribe, ServerOnMessage,
         ServerShutdown, Signal, BrokerStep, Lose, Redeliver, ConnectionLost, Reconnected,
         brokerVars, clientVars, mainVars

(* The counter never runs ahead, whatever the step.                        *)
LEMMA CountsNext ==
  ASSUME TypeOK, TypeOK', CountsLeaveRoom, [Next]_vars
  PROVE  CountsLeaveRoom'
  <1>1. ASSUME NEW h \in DOMAIN handlers, OnMessage(h) PROVE CountsLeaveRoom'
    BY <1>1, CountsWriteRow, CountsLoad, CountsStore, CountsCompare DEF OnMessage
  <1>2. ASSUME NEW i \in Ids, Deliver(i) PROVE CountsLeaveRoom'
    BY <1>2, CountsDeliver
  <1>3. CASE UNCHANGED vars
    BY <1>3, CountsSame DEF vars, brokerVars, clientVars
  <1>4. QED
    BY <1>1, <1>2, <1>3, QuietSteps, CountsSame, CountsExit DEF Next, HandlerStep

(***************************************************************************)
(* Where the values of `shutdown` come from.                               *)
(***************************************************************************)

(* With the channel, the signals, the file and the handlers as they are.   *)
LEMMA EarnedSame ==
  ASSUME ShutdownIsEarned, UNCHANGED <<setup, handlers, writes, shutdown, main, signals>>
  PROVE  ShutdownIsEarned'
  BY RowsSame, SetupSame DEF ShutdownIsEarned, AllRowsWritten, Holding

(* The main goroutine passes on what it takes, and a signal is one more.   *)
LEMMA EarnedMain ==
  ASSUME TypeOK, TypeOK', ShutdownIsEarned, Main \/ Signal
  PROVE  ShutdownIsEarned'
  <1>1. /\ UNCHANGED <<setup, writes>>
        /\ handlers' = handlers \/ handlers' = <<>>
    BY DEF Main, Subscribe, PublishRequest, Publish, PaceElapsed, PaceSignal, Repush,
           TakeShutdown, Exit, Signal, brokerVars
  <1>2. AllRowsWritten' <=> AllRowsWritten
    BY <1>1, RowsSame, SetupSame DEF AllRowsWritten
  <1>3. SUFFICES ASSUME ~AllRowsWritten
                 PROVE  shutdown' + (IF Holding' THEN 1 ELSE 0) <= signals'
                        /\ \A h \in DOMAIN handlers' : handlers'[h].pc # "send"
    BY <1>2 DEF ShutdownIsEarned
  <1>4. /\ shutdown \in {0, 1} /\ shutdown' \in {0, 1} /\ signals \in Nat /\ signals' \in Nat
        /\ shutdown + (IF Holding THEN 1 ELSE 0) <= signals
        /\ \A h \in DOMAIN handlers : handlers[h].pc # "send"
    BY <1>3, SetupTypes DEF ShutdownIsEarned, TypeOK, ClientTypeOK, ShutdownCap
  <1>5. \A h \in DOMAIN handlers' : handlers'[h].pc # "send"
    BY <1>1, <1>4
  <1>6. CASE Subscribe \/ PublishRequest \/ PaceElapsed
    BY <1>4, <1>5, <1>6 DEF Subscribe, PublishRequest, PaceElapsed, Holding
  <1>7. CASE PaceSignal \/ TakeShutdown
    <2>1. /\ shutdown > 0 /\ shutdown' = shutdown - 1 /\ signals' = signals
          /\ main \in {"pace", "wait"}
      BY <1>7 DEF PaceSignal, TakeShutdown
    <2>2. QED
      BY <1>4, <1>5, <2>1 DEF Holding
  <1>8. CASE Repush
    BY <1>4, <1>5, <1>8 DEF Repush, Repushed, Holding
  <1>9. CASE Exit
    BY <1>4, <1>5, <1>9 DEF Exit, Holding
  <1>10. CASE Signal
    BY <1>4, <1>5, <1>10 DEF Signal, Holding, mainVars, ShutdownCap
  <1>11. QED
    BY <1>6, <1>7, <1>8, <1>9, <1>10 DEF Main

(* A handler sends when the file has as many rows as requests.             *)
LEMMA EarnedHandler ==
  ASSUME TypeOK, TypeOK', CountsLeaveRoom, ShutdownIsEarned,
         NEW h \in DOMAIN handlers, OnMessage(h)
  PROVE  ShutdownIsEarned'
  <1>1. UNCHANGED <<setup, main, signals>> /\ Reps' = Reps
    BY SetupSame DEF OnMessage, WriteRow, Load, Store, Compare, SendShutdown, mainVars, brokerVars
  <1>2. /\ RowCount \in Nat /\ Reps \in Nat /\ received \in Nat /\ Cardinality(Uncounted) \in Nat
        /\ \A k \in DOMAIN handlers : handlers[k] \in Handler
    BY HandlersByState, RowCountType, SetupTypes
       DEF HandlersCounted, TypeOK, ClientTypeOK, CountsLeaveRoom
  <1>3. AllRowsWritten => AllRowsWritten'
    <2>1. RowCount' \in {RowCount, RowCount + 1}
      <3>1. CASE WriteRow(h)
        BY <1>1, <1>2, <3>1, RowAdded DEF WriteRow, RowWritten, CountsLeaveRoom, Handler
      <3>2. CASE ~WriteRow(h)
        BY <1>1, <3>2, RowsSame DEF OnMessage, Load, Store, Compare, SendShutdown
      <3>3. QED
        BY <3>1, <3>2
    <2>2. QED
      BY <1>1, <1>2, <2>1 DEF AllRowsWritten
  <1>4. SUFFICES ASSUME ~AllRowsWritten
                 PROVE  ShutdownIsEarned'
    BY <1>3 DEF ShutdownIsEarned
  <1>5. /\ \A k \in DOMAIN handlers : handlers[k].pc # "send"
        /\ shutdown + (IF Holding THEN 1 ELSE 0) <= signals
    BY <1>4 DEF ShutdownIsEarned
  <1>6. ~SendShutdown(h)
    BY <1>5 DEF SendShutdown, At
  <1>7. shutdown' = shutdown /\ (Holding' <=> Holding)
    BY <1>1, <1>6 DEF OnMessage, WriteRow, Load, Store, Compare, Holding
  <1>8. \A k \in DOMAIN handlers' : handlers'[k].pc # "send"
    <2>1. ASSUME NEW pc \in {"load", "compare"}, Goto(h, pc)
          PROVE  \A k \in DOMAIN handlers' : handlers'[k].pc # "send"
      <3>1. /\ DOMAIN handlers' = DOMAIN handlers
            /\ \A k \in DOMAIN handlers : k # h => handlers'[k] = handlers[k]
            /\ handlers'[h].pc = pc
        BY <1>1, <2>1, GoesOn
      <3>2. QED
        BY <1>5, <3>1
    <2>2. CASE Load(h)
      <3>1. /\ DOMAIN handlers' = DOMAIN handlers
            /\ \A k \in DOMAIN handlers : k # h => handlers'[k] = handlers[k]
            /\ handlers'[h].pc = "store"
        BY <2>2, Loads
      <3>2. QED
        BY <1>5, <3>1
    <2>3. CASE Compare(h)
      <3>1. handlers[h].pc = "compare"
        BY <2>3 DEF Compare, At
      <3>2. /\ handlers[h].seen \in Nat /\ received > 0
            /\ handlers[h].seen + 1 <= RowCount /\ received <= RowCount
        BY <1>2, <3>1 DEF CountsLeaveRoom, Handler
      <3>3. \A v \in {handlers[h].seen + 1, received} : ~Reached(v)
        BY <1>2, <1>4, <3>2 DEF Reached, AllRowsWritten
      <3>4. Done(h)
        BY <2>3, <3>3 DEF Compare
      <3>5. \A k \in DOMAIN handlers' : \E j \in DOMAIN handlers : handlers'[k] = handlers[j]
        BY <1>1, <3>1, <3>4, Returns
      <3>6. QED
        BY <1>5, <3>5
    <2>4. QED
      BY <1>6, <2>1, <2>2, <2>3 DEF OnMessage, WriteRow, Store
  <1>9. QED
    BY <1>1, <1>5, <1>7, <1>8 DEF ShutdownIsEarned

(* A handler is started.                                                   *)
LEMMA EarnedDeliver ==
  ASSUME TypeOK, TypeOK', ShutdownIsEarned, NEW i \in Ids, Deliver(i)
  PROVE  ShutdownIsEarned'
  <1>1. UNCHANGED <<setup, writes, shutdown, main, signals>>
    BY DEF Deliver, mainVars
  <1>2. (AllRowsWritten' <=> AllRowsWritten) /\ (Holding' <=> Holding)
    BY <1>1, RowsSame, SetupSame DEF AllRowsWritten, Holding
  <1>3. \A k \in DOMAIN handlers' :
          \/ k \in DOMAIN handlers /\ handlers'[k] = handlers[k]
          \/ handlers'[k].pc = "write"
    BY HandlerStarts
  <1>4. QED
    BY <1>1, <1>2, <1>3 DEF ShutdownIsEarned

(* Every value of `shutdown` is a signal or earned, whatever the step.     *)
LEMMA EarnedNext ==
  ASSUME TypeOK, TypeOK', CountsLeaveRoom, ShutdownIsEarned, [Next]_vars
  PROVE  ShutdownIsEarned'
  <1>1. CASE ServerStep \/ UNCHANGED vars
             \/ (BrokerStep /\ ~\E i \in Ids : Deliver(i) /\ UNCHANGED server)
    <2>1. UNCHANGED <<setup, handlers, writes, shutdown, main, signals>>
      BY <1>1 DEF ServerStep, Server, ServerSubscribe, ServerOnMessage, ServerShutdown, vars,
                  BrokerStep, Lose, Redeliver, ConnectionLost, Reconnected,
                  brokerVars, clientVars, mainVars
    <2>2. QED
      BY <2>1, EarnedSame
  <1>2. QED
    BY <1>1, EarnedMain, EarnedHandler, EarnedDeliver DEF Next, MainStep, HandlerStep

(***************************************************************************)
(* The loop of PublishRequests.                                            *)
(***************************************************************************)

(* The request of the loop stays in range.                                 *)
LEMMA LoopNext ==
  ASSUME TypeOK, LoopInRange, [Next]_vars
  PROVE  LoopInRange'
  <1>1. Reps \in Nat /\ currentMessageID \in 0 .. Reps
    BY SetupTypes DEF TypeOK, ClientTypeOK
  <1>2. CASE UNCHANGED <<setup, main, currentMessageID>>
    BY <1>2, SetupSame DEF LoopInRange, PublishedCount
  <1>3. ASSUME Main PROVE Reps' = Reps
    BY <1>3, SetupSame DEF Main, Subscribe, PublishRequest, Publish, PaceElapsed, PaceSignal,
                           Repush, TakeShutdown, Exit, brokerVars
  <1>4. CASE Subscribe \/ PublishRequest
    BY <1>1, <1>3, <1>4 DEF Main, Subscribe, PublishRequest, Last, LoopInRange, PublishedCount
  <1>5. CASE PaceElapsed
    BY <1>1, <1>3, <1>5 DEF Main, PaceElapsed, LoopInRange, PublishedCount
  <1>6. CASE PaceSignal \/ Repush \/ TakeShutdown \/ Exit
    BY <1>1, <1>3, <1>6 DEF Main, PaceSignal, Repush, TakeShutdown, Exit, LoopInRange,
                            PublishedCount
  <1>7. [Next]_vars => Main \/ UNCHANGED <<setup, main, currentMessageID>>
    BY DEF Next, MainStep, HandlerStep, OnMessage, WriteRow, Load, Store, Compare, SendShutdown,
           ServerStep, Server, ServerSubscribe, ServerOnMessage, ServerShutdown, Signal,
           BrokerStep, Lose, Redeliver, ConnectionLost, Reconnected, Deliver,
           vars, brokerVars, clientVars, mainVars
  <1>8. QED
    BY <1>2, <1>4, <1>5, <1>6, <1>7 DEF Main

(***************************************************************************)
(* The places a request is in.                                             *)
(***************************************************************************)

(* They are numbers.                                                       *)
PlacesTypeOK ==
  \A i \in Ids : /\ inflight["request"][i] \in Nat /\ inflight["response"][i] \in Nat
                 /\ InHandlers(i) \in Nat /\ writes[i] \in Nat
                 /\ Places(i) \in Nat
                 /\ dropped[i] \in Nat /\ duplicates[i] \in Nat

(* Every place holds natural numbers of copies.                            *)
LEMMA PlacesType == TypeOK => PlacesTypeOK
  <1> SUFFICES ASSUME TypeOK PROVE PlacesTypeOK
    OBVIOUS
  <1>1. ASSUME NEW i \in Ids
        PROVE  /\ inflight["request"][i] \in Nat /\ inflight["response"][i] \in Nat
               /\ writes[i] \in Nat /\ dropped[i] \in Nat /\ duplicates[i] \in Nat
    BY DEF TypeOK, BrokerTypeOK, ClientTypeOK, Topics
  <1>2. \A i \in Ids : InHandlers(i) \in Nat
    BY HandlersByState DEF HandlersCounted, TypeOK
  <1>3. QED
    BY <1>1, <1>2 DEF PlacesTypeOK, Places

\* Where the copies of a request are, those that are dropped among them.
Copies(i) == Places(i) + dropped[i]

(* A step that publishes nothing, copies nothing, and moves the requests   *)
(* between their places or drops them.                                     *)
LEMMA PlacesKept ==
  ASSUME RequestsInPlace, UNCHANGED <<setup, duplicates>>,
         PublishedCount' = PublishedCount,
         \A i \in Requests : Copies(i)' = Copies(i)
  PROVE  RequestsInPlace'
  <1>1. Requests' = Requests /\ qos' = qos
    BY SetupSame
  <1>2. \A i \in Requests : Copies(i)' = IF i < PublishedCount THEN 1 + duplicates[i] ELSE 0
    BY DEF RequestsInPlace, NothingVanishes, Copies
  <1>3. NothingVanishes'
    BY <1>1, <1>2 DEF NothingVanishes, Copies
  <1>4. QED
    BY <1>1, <1>3 DEF RequestsInPlace

(* Messages, handlers and rows as they are.                                *)
LEMMA PlacesSame ==
  ASSUME UNCHANGED <<inflight, handlers, writes, dropped>>
  PROVE  \A i \in Requests : Copies(i)' = Copies(i)
  BY DEF Copies, Places, InHandlers

\* The loop publishes nothing.
LEMMA PublishedSame ==
  ASSUME TypeOK, LoopInRange, setup' = setup,
         UNCHANGED <<main, currentMessageID>> \/ Subscribe \/ PaceElapsed \/ PaceSignal
         \/ Repush \/ TakeShutdown \/ Exit
  PROVE  PublishedCount' = PublishedCount
  <1>1. Reps \in Nat /\ currentMessageID \in 0 .. Reps /\ Reps' = Reps
    BY SetupTypes, SetupSame DEF TypeOK, ClientTypeOK
  <1>2. CASE PaceElapsed
    BY <1>1, <1>2 DEF PublishedCount, PaceElapsed, LoopInRange
  <1>3. CASE ~PaceElapsed
    BY <1>1, <1>3 DEF PublishedCount, Subscribe, PaceSignal, Repush, TakeShutdown, Exit
  <1>4. QED
    BY <1>2, <1>3

(* A request is published: it is in one place, or dropped.                 *)
LEMMA PlacesPublish ==
  ASSUME TypeOK, LoopInRange, RequestsInPlace, PublishRequest
  PROVE  RequestsInPlace'
  <1> DEFINE c == currentMessageID
  <1>1. /\ setup' = setup /\ UNCHANGED <<handlers, writes, duplicates>> /\ currentMessageID' = c
        /\ main = "publish" /\ main' \in {"wait", "pace"} /\ Publish("request", c)
    BY DEF PublishRequest, Publish
  <1>2. Requests' = Requests /\ qos' = qos /\ Reps' = Reps
    BY <1>1, SetupSame
  <1>3. c \in Nat /\ c < Reps /\ Reps \in Nat /\ c \in Ids
    BY <1>1, SetupTypes DEF TypeOK, ClientTypeOK, LoopInRange, Ids
  <1>4. PublishedCount = c /\ PublishedCount' = c + 1
    BY <1>1, <1>2, <1>3 DEF PublishedCount
  <1>5. "request" \in Topics /\ "response" \in Topics /\ "request" # "response"
    BY DEF Topics
  <1>6. /\ Requests \subseteq Ids /\ Requests \subseteq Nat
        /\ PlacesTypeOK
    BY PlacesType, SetupTypes DEF TypeOK
  <1> DEFINE One(i) == IF i = c THEN 1 ELSE 0
  <1>7. ASSUME NEW i \in Requests
        PROVE  Copies(i)' = Copies(i) + One(i)
    <2>1. i \in Ids /\ inflight["request"][i] \in Nat /\ inflight["response"][i] \in Nat
          /\ InHandlers(i) \in Nat /\ writes[i] \in Nat /\ dropped[i] \in Nat
      BY <1>6 DEF PlacesTypeOK
    <2>2. Copies(i)' = inflight'["request"][i] + inflight'["response"][i]
                         + InHandlers(i) + writes[i] + dropped'[i]
      BY <1>1 DEF Copies, Places, InHandlers
    <2>3. CASE inflight' = [inflight EXCEPT !["request"][c] = @ + 1] /\ dropped' = dropped
      <3>1. \A u \in Topics, j \in Ids :
              inflight'[u][j] = inflight[u][j] + (IF u = "request" /\ j = c THEN 1 ELSE 0)
        BY <1>3, <1>5, <2>3, OneMore DEF TypeOK
      <3>2. inflight'["request"][i] = inflight["request"][i] + One(i)
            /\ inflight'["response"][i] = inflight["response"][i] + 0
        BY <1>5, <2>1, <3>1
      <3>3. QED
        BY <2>1, <2>2, <2>3, <3>2 DEF Copies, Places
    <2>4. CASE dropped' = OneDropped(c) /\ inflight' = inflight
      <3>1. dropped'[i] = dropped[i] + One(i)
        BY <1>3, <2>1, <2>4, OneGone DEF TypeOK
      <3>2. QED
        BY <2>1, <2>2, <2>4, <3>1 DEF Copies, Places
    <2>5. QED
      BY <1>1, <2>3, <2>4 DEF Publish
  <1> HIDE DEF c
  <1>8. ASSUME NEW i \in Requests
        PROVE  Copies(i)' = IF i < c + 1 THEN 1 + duplicates[i] ELSE 0
    <2>1. Copies(i) = IF i < c THEN 1 + duplicates[i] ELSE 0
      BY <1>4 DEF RequestsInPlace, NothingVanishes, Copies
    <2>2. i >= c => duplicates[i] = 0
      BY <1>4 DEF RequestsInPlace
    <2>3. i \in Nat /\ duplicates[i] \in Nat
      BY <1>6 DEF PlacesTypeOK
    <2>4. QED
      BY <1>3, <1>7, <2>1, <2>2, <2>3
  <1>9. NothingVanishes'
    BY <1>1, <1>2, <1>4, <1>8 DEF NothingVanishes, Copies
  <1>10. ASSUME NEW i \in Requests, i >= c + 1 \/ qos # 1 PROVE duplicates[i] = 0
    <2>1. i \in Nat /\ (i >= c + 1 => i >= c)
      BY <1>3, <1>6
    <2>2. QED
      BY <1>4, <1>10, <2>1 DEF RequestsInPlace
  <1>11. QED
    BY <1>1, <1>2, <1>4, <1>9, <1>10 DEF RequestsInPlace

\* What each party reads, and who reads each topic.
LEMMA ReadersOf ==
  /\ "request" \in Topics /\ "response" \in Topics /\ "request" # "response"
  /\ \A t \in Topics : t \in {"request", "response"}
  /\ Reader("request") = "server" /\ Reader("response") = "client"
  /\ ReadBy("server") = "request" /\ ReadBy("client") = "response"
  BY DEF Topics, Reader, ReadBy

(* The end of a session drops what was on its way to the party and what it *)
(* held.                                                                   *)
LEMMA PlacesLeave ==
  ASSUME TypeOK, NEW p \in Parties, NEW held \in [Ids -> Nat], Leave(p, held), setup' = setup
  PROVE  \A i \in Ids :
           inflight'["request"][i] + inflight'["response"][i] + dropped'[i]
             = inflight["request"][i] + inflight["response"][i] + dropped[i] + held[i]
  <1> SUFFICES ASSUME NEW i \in Ids
               PROVE  inflight'["request"][i] + inflight'["response"][i] + dropped'[i]
                        = inflight["request"][i] + inflight["response"][i] + dropped[i] + held[i]
    OBVIOUS
  <1>1. inflight["request"][i] \in Nat /\ inflight["response"][i] \in Nat
        /\ dropped[i] \in Nat /\ held[i] \in Nat
    BY PlacesType DEF PlacesTypeOK
  <1>2. dropped'[i] = dropped[i] + inflight[ReadBy(p)][i] + held[i]
    BY DEF Leave
  <1>3. \A t \in Topics : inflight'[t] = IF Reader(t) = p THEN NoCopies ELSE inflight[t]
    BY DEF Leave, Discarded
  <1>4. NoCopies[i] = 0
    BY NoCopiesType
  <1>5. CASE p = "client"
    <2>1. inflight'["request"][i] = inflight["request"][i] /\ inflight'["response"][i] = 0
      BY <1>3, <1>4, <1>5, ReadersOf
    <2>2. dropped'[i] = dropped[i] + inflight["response"][i] + held[i]
      BY <1>2, <1>5, ReadersOf
    <2>3. QED
      BY <1>1, <2>1, <2>2
  <1>6. CASE p = "server"
    <2>1. inflight'["request"][i] = 0 /\ inflight'["response"][i] = inflight["response"][i]
      BY <1>3, <1>4, <1>6, ReadersOf
    <2>2. dropped'[i] = dropped[i] + inflight["request"][i] + held[i]
      BY <1>2, <1>6, ReadersOf
    <2>3. QED
      BY <1>1, <2>1, <2>2
  <1>7. QED
    BY <1>5, <1>6 DEF Parties

(* The steps of the main goroutine.                                        *)
LEMMA PlacesMain ==
  ASSUME TypeOK, LoopInRange, RequestsInPlace, MainStep
  PROVE  RequestsInPlace'
  <1>1. CASE Subscribe \/ PaceElapsed \/ PaceSignal \/ Repush \/ TakeShutdown
    <2>1. UNCHANGED <<setup, inflight, handlers, writes, dropped, duplicates>>
      BY <1>1 DEF Subscribe, PaceElapsed, PaceSignal, Repush, TakeShutdown, brokerVars
    <2>2. PublishedCount' = PublishedCount
      BY <1>1, <2>1, PublishedSame
    <2>3. QED
      BY <2>1, <2>2, PlacesSame, PlacesKept
  <1>2. CASE Exit
    <2> DEFINE held == [i \in Ids |-> InHandlers(i)]
    <2>1. UNCHANGED <<setup, writes, duplicates>> /\ handlers' = <<>> /\ Leave("client", held)
      BY <1>2 DEF Exit
    <2>2. PublishedCount' = PublishedCount
      BY <1>2, <2>1, PublishedSame
    <2>3. held \in [Ids -> Nat] /\ \A i \in Ids : held[i] = InHandlers(i)
      BY PlacesType DEF PlacesTypeOK
    <2> HIDE DEF held
    <2>4. ASSUME NEW i \in Requests PROVE Copies(i)' = Copies(i)
      <3>1. i \in Ids /\ "client" \in Parties
        BY SetupTypes DEF TypeOK, Parties
      <3>2. /\ inflight["request"][i] \in Nat /\ inflight["response"][i] \in Nat
            /\ InHandlers(i) \in Nat /\ writes[i] \in Nat /\ dropped[i] \in Nat
        BY <3>1, PlacesType DEF PlacesTypeOK
      <3>3. inflight'["request"][i] + inflight'["response"][i] + dropped'[i]
              = inflight["request"][i] + inflight["response"][i] + dropped[i] + InHandlers(i)
        BY <2>1, <2>3, <3>1, PlacesLeave
      <3>4. InHandlers(i)' = 0
        BY <2>1, HandlersEnd
      <3>5. Copies(i)' = inflight'["request"][i] + inflight'["response"][i] + 0
                           + writes[i] + dropped'[i]
        BY <2>1, <3>4 DEF Copies, Places
      <3>6. /\ inflight'["request"][i] \in Nat /\ inflight'["response"][i] \in Nat
            /\ dropped'[i] \in Nat
        <4>1. TypeOK'
          BY TypeMain
        <4>2. QED
          BY <2>1, <3>1, <4>1, SetupSame DEF TypeOK, BrokerTypeOK, Topics
      <3>7. QED
        BY <3>2, <3>3, <3>5, <3>6 DEF Copies, Places
    <2>5. QED
      BY <2>1, <2>2, <2>4, PlacesKept
  <1>3. QED
    BY <1>1, <1>2, PlacesPublish DEF MainStep, Main

(* The steps of the handlers.                                              *)
LEMMA PlacesHandler ==
  ASSUME TypeOK, TypeOK', LoopInRange, RequestsInPlace,
         NEW h \in DOMAIN handlers, OnMessage(h)
  PROVE  RequestsInPlace'
  <1>1. UNCHANGED <<setup, inflight, dropped, duplicates, main, currentMessageID>>
    BY DEF OnMessage, WriteRow, Load, Store, Compare, SendShutdown, brokerVars, mainVars
  <1>2. PublishedCount' = PublishedCount
    BY <1>1, PublishedSame
  <1>3. Requests \subseteq Ids /\ PlacesTypeOK /\ handlers[h] \in Handler
    BY SetupTypes, PlacesType, HandlersByState DEF TypeOK, HandlersCounted
  <1>4. ASSUME NEW i \in Requests PROVE Places(i)' = Places(i)
    <2>1. /\ InHandlers(i) \in Nat /\ writes[i] \in Nat
          /\ Places(i)' = inflight["request"][i] + inflight["response"][i]
                            + InHandlers(i)' + writes'[i]
      BY <1>1, <1>3 DEF Places, PlacesTypeOK
    <2>2. CASE WriteRow(h)
      <3>1. /\ handlers[h].pc = "write" /\ Goto(h, "load")
            /\ writes' = [writes EXCEPT ![handlers[h].id] = @ + 1]
        BY <2>2 DEF WriteRow, At, RowWritten
      <3>2. InHandlers(i)' = InHandlers(i) + (IF i = handlers[h].id THEN 0 - 1 ELSE 0)
        BY <1>1, <3>1, GoesOn DEF IsToWrite
      <3>3. writes'[i] = writes[i] + (IF i = handlers[h].id THEN 1 ELSE 0)
        <4>1. writes \in [Ids -> Nat] /\ i \in Ids
          BY <1>3 DEF TypeOK, ClientTypeOK
        <4>2. QED
          BY <2>1, <3>1, <4>1
      <3>4. inflight["request"][i] \in Nat /\ inflight["response"][i] \in Nat
        BY <1>3 DEF PlacesTypeOK
      <3>5. QED
        BY <2>1, <3>2, <3>3, <3>4 DEF Places
    <2>3. CASE ~WriteRow(h)
      <3>1. writes' = writes
        BY <2>3 DEF OnMessage, Load, Store, Compare, SendShutdown
      <3>2. ASSUME NEW pc \in {"compare", "send"}, Goto(h, pc), handlers[h].pc # "write"
            PROVE  InHandlers(i)' = InHandlers(i)
        <4>1. InHandlers(i)' = InHandlers(i) + 0
          BY <1>1, <3>2, GoesOn DEF IsToWrite
        <4>2. QED
          BY <2>1, <4>1
      <3>3. InHandlers(i)' = InHandlers(i)
        BY <1>1, <2>3, <3>2, Loads, Returns DEF OnMessage, Store, Compare, SendShutdown, At
      <3>4. QED
        BY <2>1, <3>1, <3>3 DEF Places
    <2>4. QED
      BY <2>2, <2>3
  <1>5. \A i \in Requests : Copies(i)' = Copies(i)
    BY <1>1, <1>4 DEF Copies
  <1>6. QED
    BY <1>1, <1>2, <1>5, PlacesKept

(* A session ends while its process lives: nothing is held.                *)
LEMMA PlacesHangUp ==
  ASSUME TypeOK, TypeOK', NEW p \in Parties, Leave(p, NoCopies),
         UNCHANGED <<setup, handlers, writes>>
  PROVE  \A i \in Requests : Copies(i)' = Copies(i)
  <1> SUFFICES ASSUME NEW i \in Requests PROVE Copies(i)' = Copies(i)
    OBVIOUS
  <1>1. i \in Ids
    BY SetupTypes DEF TypeOK
  <1>2. /\ inflight["request"][i] \in Nat /\ inflight["response"][i] \in Nat
        /\ InHandlers(i) \in Nat /\ writes[i] \in Nat /\ dropped[i] \in Nat
    BY <1>1, PlacesType DEF PlacesTypeOK
  <1>3. /\ inflight'["request"][i] \in Nat /\ inflight'["response"][i] \in Nat
        /\ dropped'[i] \in Nat
    BY <1>1, SetupSame DEF TypeOK, BrokerTypeOK, Topics
  <1>4. inflight'["request"][i] + inflight'["response"][i] + dropped'[i]
          = inflight["request"][i] + inflight["response"][i] + dropped[i]
    <2>1. inflight'["request"][i] + inflight'["response"][i] + dropped'[i]
            = inflight["request"][i] + inflight["response"][i] + dropped[i] + NoCopies[i]
      BY <1>1, PlacesLeave, NoCopiesType
    <2>2. NoCopies[i] = 0
      BY <1>1, NoCopiesType
    <2>3. QED
      BY <1>2, <2>1, <2>2
  <1>5. Copies(i)' = inflight'["request"][i] + inflight'["response"][i] + InHandlers(i)
                       + writes[i] + dropped'[i]
    BY DEF Copies, Places, InHandlers
  <1>6. QED
    BY <1>2, <1>3, <1>4, <1>5 DEF Copies, Places

(* The server answers: the request is in the other topic, or dropped.      *)
LEMMA PlacesAnswer ==
  ASSUME TypeOK, NEW i \in Ids, ServerOnMessage(i), UNCHANGED <<handlers, writes>>
  PROVE  \A j \in Requests : Copies(j)' = Copies(j)
  <1>1. Requests \subseteq Ids /\ PlacesTypeOK /\ "request" \in Topics /\ "response" \in Topics
        /\ "request" # "response"
    BY SetupTypes, PlacesType DEF TypeOK, Topics
  <1>2. /\ Taken("request", i) \in [Topics -> [Ids -> Nat]]
        /\ \A u \in Topics, j \in Ids : Taken("request", i)[u][j]
             = inflight[u][j] - (IF u = "request" /\ j = i THEN 1 ELSE 0)
    BY <1>1, OneFewer DEF TypeOK, ServerOnMessage, Arrives
  <1> SUFFICES ASSUME NEW j \in Requests PROVE Copies(j)' = Copies(j)
    OBVIOUS
  <1>3. /\ inflight["request"][j] \in Nat /\ inflight["response"][j] \in Nat
        /\ InHandlers(j) \in Nat /\ writes[j] \in Nat /\ dropped[j] \in Nat
    BY <1>1 DEF PlacesTypeOK
  <1>4. Copies(j)' = inflight'["request"][j] + inflight'["response"][j] + InHandlers(j)
                       + writes[j] + dropped'[j]
    BY DEF Copies, Places, InHandlers
  <1>5. /\ Taken("request", i)["request"][j] = inflight["request"][j] - (IF j = i THEN 1 ELSE 0)
        /\ Taken("request", i)["response"][j] = inflight["response"][j]
    BY <1>1, <1>2, <1>3
  <1>6. CASE inflight' = [Taken("request", i) EXCEPT !["response"][i] = @ + 1]
             /\ dropped' = dropped
    <2>1. /\ inflight'["request"][j] = Taken("request", i)["request"][j]
          /\ inflight'["response"][j]
               = Taken("request", i)["response"][j] + (IF j = i THEN 1 ELSE 0)
      BY <1>1, <1>2, <1>3, <1>5, <1>6
    <2>2. QED
      BY <1>3, <1>4, <1>5, <1>6, <2>1 DEF Copies, Places
  <1>7. CASE inflight' = Taken("request", i) /\ dropped' = OneDropped(i)
    <2>1. dropped'[j] = dropped[j] + (IF j = i THEN 1 ELSE 0)
      BY <1>1, <1>7, OneGone DEF TypeOK
    <2>2. QED
      BY <1>3, <1>4, <1>5, <1>7, <2>1 DEF Copies, Places
  <1>8. QED
    BY <1>6, <1>7 DEF ServerOnMessage, ResponseId

(* The steps of the server.                                                *)
LEMMA PlacesServer ==
  ASSUME TypeOK, TypeOK', LoopInRange, RequestsInPlace, ServerStep
  PROVE  RequestsInPlace'
  <1>1. UNCHANGED <<setup, duplicates, main, currentMessageID, handlers, writes>>
    BY DEF ServerStep, Server, ServerSubscribe, ServerOnMessage, ServerShutdown,
           clientVars, mainVars
  <1>2. PublishedCount' = PublishedCount
    BY <1>1, PublishedSame
  <1>3. CASE ServerSubscribe
    BY <1>1, <1>2, <1>3, PlacesSame, PlacesKept DEF ServerSubscribe
  <1>4. CASE \E i \in Ids : ServerOnMessage(i)
    BY <1>1, <1>2, <1>4, PlacesAnswer, PlacesKept
  <1>5. CASE ServerShutdown
    <2>1. "server" \in Parties /\ Leave("server", NoCopies)
      BY <1>5 DEF ServerShutdown, Parties
    <2>2. QED
      BY <1>1, <1>2, <2>1, PlacesHangUp, PlacesKept
  <1>6. QED
    BY <1>3, <1>4, <1>5 DEF ServerStep, Server

(* A message is lost, sent again, or delivered to a handler.               *)
LEMMA PlacesLose ==
  ASSUME TypeOK, LoopInRange, RequestsInPlace, UNCHANGED clientVars,
         NEW t \in Topics, NEW i \in Ids, Lose(t, i)
  PROVE  RequestsInPlace'
  <1>1. UNCHANGED <<setup, duplicates, main, currentMessageID, handlers, writes>>
        /\ dropped' = OneDropped(i) /\ inflight' = Taken(t, i) /\ inflight[t][i] > 0
    BY DEF Lose, clientVars, mainVars
  <1>2. PublishedCount' = PublishedCount
    BY <1>1, PublishedSame
  <1>3. Requests \subseteq Ids /\ PlacesTypeOK
    BY SetupTypes, PlacesType DEF TypeOK
  <1>4. \A u \in Topics, j \in Ids :
          inflight'[u][j] = inflight[u][j] - (IF u = t /\ j = i THEN 1 ELSE 0)
    BY <1>1, OneFewer DEF TypeOK
  <1>5. ASSUME NEW j \in Requests PROVE Copies(j)' = Copies(j)
    <2>1. /\ inflight["request"][j] \in Nat /\ inflight["response"][j] \in Nat
          /\ InHandlers(j) \in Nat /\ writes[j] \in Nat /\ dropped[j] \in Nat
      BY <1>3 DEF PlacesTypeOK
    <2>2. Copies(j)' = inflight'["request"][j] + inflight'["response"][j] + InHandlers(j)
                         + writes[j] + dropped'[j]
      BY <1>1 DEF Copies, Places, InHandlers
    <2>3. dropped'[j] = dropped[j] + (IF j = i THEN 1 ELSE 0)
      BY <1>1, <1>3, OneGone DEF TypeOK
    <2>4. \A u \in {"request", "response"} :
            inflight'[u][j] = inflight[u][j] - (IF u = t /\ j = i THEN 1 ELSE 0)
      BY <1>3, <1>4, ReadersOf
    <2>5. t \in {"request", "response"}
      BY ReadersOf
    <2>6. QED
      BY <2>1, <2>2, <2>3, <2>4, <2>5 DEF Copies, Places
  <1>6. QED
    BY <1>1, <1>2, <1>5, PlacesKept

(* The broker sends a message again.                                       *)
LEMMA PlacesRedeliver ==
  ASSUME TypeOK, LoopInRange, RequestsInPlace, UNCHANGED clientVars,
         NEW t \in Topics, NEW i \in Ids, Redeliver(t, i)
  PROVE  RequestsInPlace'
  <1>1. /\ UNCHANGED <<setup, main, currentMessageID, handlers, writes, dropped>>
        /\ qos = 1 /\ inflight[t][i] > 0
        /\ duplicates' = [duplicates EXCEPT ![i] = @ + 1]
    BY DEF Redeliver, clientVars, mainVars
  <1>2. PublishedCount' = PublishedCount /\ Requests' = Requests /\ qos' = 1
    BY <1>1, PublishedSame, SetupSame
  <1>3. Requests \subseteq Ids /\ PlacesTypeOK /\ duplicates \in [Ids -> Nat]
        /\ Requests \subseteq Nat
    BY SetupTypes, PlacesType DEF TypeOK, BrokerTypeOK
  <1>4. \A u \in Topics, j \in Ids :
          inflight'[u][j] = inflight[u][j] + (IF u = t /\ j = i THEN 1 ELSE 0)
    BY OneMore DEF TypeOK, Redeliver
  <1>5. ASSUME NEW j \in Requests
        PROVE  /\ Copies(j)' = Copies(j) + (IF j = i THEN 1 ELSE 0)
               /\ duplicates'[j] = duplicates[j] + (IF j = i THEN 1 ELSE 0)
               /\ Copies(j) = IF j < PublishedCount THEN 1 + duplicates[j] ELSE 0
               /\ j = i => Copies(j) # 0
               /\ duplicates[j] \in Nat
               /\ j >= PublishedCount => duplicates[j] = 0
    <2>1. /\ inflight["request"][j] \in Nat /\ inflight["response"][j] \in Nat
          /\ InHandlers(j) \in Nat /\ writes[j] \in Nat /\ dropped[j] \in Nat
      BY <1>3 DEF PlacesTypeOK
    <2>2. Copies(j)' = inflight'["request"][j] + inflight'["response"][j] + InHandlers(j)
                         + writes[j] + dropped[j]
      BY <1>1 DEF Copies, Places, InHandlers
    <2>3. \A u \in {"request", "response"} :
            inflight'[u][j] = inflight[u][j] + (IF u = t /\ j = i THEN 1 ELSE 0)
      BY <1>3, <1>4, ReadersOf
    <2>4. t \in {"request", "response"}
      BY ReadersOf
    <2>5. Copies(j)' = Copies(j) + (IF j = i THEN 1 ELSE 0)
      <3>1. inflight'["request"][j] + inflight'["response"][j]
              = inflight["request"][j] + inflight["response"][j] + (IF j = i THEN 1 ELSE 0)
        BY <2>1, <2>3, <2>4
      <3>2. inflight'["request"][j] \in Nat /\ inflight'["response"][j] \in Nat
        BY <2>1, <2>3
      <3>3. QED
        BY <2>1, <2>2, <3>1, <3>2 DEF Copies, Places
    <2>6. j = i => Copies(j) # 0
      BY <1>1, <2>1, <2>4 DEF Copies, Places
    <2>7. duplicates'[j] = duplicates[j] + (IF j = i THEN 1 ELSE 0)
      BY <1>1, <1>3
    <2>8. Copies(j) = IF j < PublishedCount THEN 1 + duplicates[j] ELSE 0
      BY DEF RequestsInPlace, NothingVanishes, Copies
    <2>9. duplicates[j] \in Nat /\ (j >= PublishedCount => duplicates[j] = 0)
      BY <1>3 DEF RequestsInPlace
    <2>10. QED
      BY <2>5, <2>6, <2>7, <2>8, <2>9
  <1>6. PublishedCount \in Nat
    BY DEF PublishedCount, TypeOK, ClientTypeOK
  <1>7. ASSUME NEW j \in Requests
        PROVE  /\ Copies(j)' = IF j < PublishedCount THEN 1 + duplicates'[j] ELSE 0
               /\ j >= PublishedCount => duplicates'[j] = 0
    <2>1. CASE j = i
      <3>1. j < PublishedCount
        BY <1>5, <2>1
      <3>2. j \in Nat
        BY <1>3
      <3>3. QED
        BY <1>5, <1>6, <2>1, <3>1, <3>2
    <2>2. CASE j # i
      BY <1>5, <2>2
    <2>3. QED
      BY <2>1, <2>2
  <1>8. NothingVanishes'
    BY <1>2, <1>7 DEF NothingVanishes, Copies
  <1>9. QED
    BY <1>2, <1>7, <1>8 DEF RequestsInPlace

(* The client is handed a message.                                         *)
LEMMA PlacesDeliver ==
  ASSUME TypeOK, TypeOK', LoopInRange, RequestsInPlace, NEW i \in Ids, Deliver(i)
  PROVE  RequestsInPlace'
  <1>1. UNCHANGED <<setup, main, currentMessageID, writes, dropped, duplicates>>
        /\ inflight["response"][i] > 0 /\ inflight' = Taken("response", i)
    BY DEF Deliver, Arrives, mainVars
  <1>2. PublishedCount' = PublishedCount
    BY <1>1, PublishedSame
  <1>3. Requests \subseteq Ids /\ PlacesTypeOK /\ "request" \in Topics /\ "response" \in Topics
        /\ "request" # "response"
    BY SetupTypes, PlacesType DEF TypeOK, Topics
  <1>4. \A u \in Topics, j \in Ids :
          inflight'[u][j] = inflight[u][j] - (IF u = "response" /\ j = i THEN 1 ELSE 0)
    BY <1>1, <1>3, OneFewer DEF TypeOK
  <1>5. ASSUME NEW j \in Requests PROVE Places(j)' = Places(j)
    <2>1. /\ inflight["request"][j] \in Nat /\ inflight["response"][j] \in Nat
          /\ InHandlers(j) \in Nat /\ writes[j] \in Nat
      BY <1>3 DEF PlacesTypeOK
    <2>2. InHandlers(j)' = InHandlers(j) + (IF j = i THEN 1 ELSE 0)
      BY <1>3, HandlerStarts
    <2>3. inflight'["request"][j] = inflight["request"][j]
          /\ inflight'["response"][j] = inflight["response"][j] - (IF j = i THEN 1 ELSE 0)
      BY <1>3, <1>4, <2>1
    <2>4. Places(j)' = inflight'["request"][j] + inflight'["response"][j] + InHandlers(j)' + writes[j]
      BY <1>1 DEF Places
    <2>5. QED
      BY <2>1, <2>2, <2>3, <2>4 DEF Places
  <1>6. \A j \in Requests : Copies(j)' = Copies(j)
    BY <1>1, <1>5 DEF Copies
  <1>7. QED
    BY <1>1, <1>2, <1>6, PlacesKept

(* Every request stays in its place, whatever the step.                    *)
LEMMA PlacesNext ==
  ASSUME TypeOK, TypeOK', LoopInRange, RequestsInPlace, [Next]_vars
  PROVE  RequestsInPlace'
  <1>1. CASE UNCHANGED <<setup, inflight, dropped, duplicates, main, currentMessageID,
                         handlers, writes>>
    BY <1>1, PublishedSame, PlacesSame, PlacesKept
  <1>2. CASE BrokerStep
    <2>1. ASSUME NEW p \in Parties, ConnectionLost(p), UNCHANGED clientVars
          PROVE  RequestsInPlace'
      <3>1. /\ Leave(p, NoCopies)
            /\ UNCHANGED <<setup, duplicates, main, currentMessageID, handlers, writes>>
        BY <2>1 DEF ConnectionLost, clientVars, mainVars
      <3>2. PublishedCount' = PublishedCount
        BY <3>1, PublishedSame
      <3>3. QED
        BY <3>1, <3>2, PlacesHangUp, PlacesKept
    <2>2. ASSUME NEW p \in Parties, Reconnected(p), UNCHANGED clientVars
          PROVE  RequestsInPlace'
      BY <1>1, <2>2 DEF Reconnected, clientVars, mainVars
    <2>3. QED
      BY <1>2, <2>1, <2>2, PlacesLose, PlacesRedeliver, PlacesDeliver DEF BrokerStep
  <1>3. CASE Signal \/ UNCHANGED vars
    BY <1>1, <1>3 DEF Signal, vars, brokerVars, clientVars, mainVars
  <1>4. QED
    BY <1>2, <1>3, PlacesMain, PlacesHandler, PlacesServer DEF Next, MainStep, HandlerStep


(***************************************************************************)
(* The invariant, and what it gives.                                       *)
(***************************************************************************)

(* It holds at the start: nothing is written, nothing handled, and of the  *)
(* requests only an earlier client's is under way.                         *)
LEMMA InvInit == Init => IInv
  <1> SUFFICES ASSUME Init PROVE IInv
    OBVIOUS
  <1>1. TypeOK
    BY TypeInit
  <1>2. /\ main = "subscribe" /\ currentMessageID = 0 /\ shutdown = 0 /\ received = 0
        /\ handlers = <<>> /\ signals = 0 /\ \A i \in Ids : writes[i] = 0
    BY NoCopiesType DEF Init, ClientInit
  <1>3. /\ Reps \in Nat /\ Requests \subseteq Ids /\ Stale \notin Requests
        /\ \A i \in Requests : i < Reps
    BY <1>1, SetupTypes DEF TypeOK
  <1>4. DOMAIN handlers = {}
    BY <1>2
  <1>5. PublishedCount = 0
    BY <1>2 DEF PublishedCount
  <1>6. CountsLeaveRoom
    <2>1. File!Lines = {}
      BY <1>2, LinesOf DEF LinesNumbered
    <2>2. IsFiniteSet(File!Lines) /\ RowCount = 0
      BY <2>1, RowCountIs, FS_EmptySet
    <2>3. Cardinality(Uncounted) = 0
      <3>1. Uncounted = {}
        BY <1>4 DEF Uncounted
      <3>2. QED
        BY <3>1, FS_EmptySet
    <2>4. QED
      BY <1>2, <1>4, <2>2, <2>3 DEF CountsLeaveRoom
  <1>7. ShutdownIsEarned
    BY <1>2, <1>4 DEF ShutdownIsEarned, Holding
  <1>8. LoopInRange
    BY <1>2, <1>3, <1>5 DEF LoopInRange
  <1>9. RequestsInPlace
    <2>1. ASSUME NEW i \in Requests PROVE Places(i) = 0
      <3>1. i \in Ids /\ i # Stale
        BY <1>3
      <3>2. inflight["request"][i] = 0 /\ inflight["response"][i] = 0
        BY <3>1 DEF Init, BrokerInit, Topics
      <3>3. InHandlers(i) = 0
        <4>1. {h \in DOMAIN handlers : handlers[h].id = i /\ handlers[h].pc = "write"} = {}
          BY <1>4
        <4>2. QED
          BY <4>1, FS_EmptySet DEF InHandlers
      <3>4. writes[i] = 0
        BY <1>2, <3>1
      <3>5. QED
        BY <3>2, <3>3, <3>4 DEF Places
    <2>2. \A i \in Requests : i \in Nat /\ dropped[i] = 0 /\ duplicates[i] = 0
      BY <1>1, <1>3, SetupTypes, NoCopiesType DEF TypeOK, Init, BrokerInit
    <2>3. QED
      BY <1>5, <2>1, <2>2 DEF RequestsInPlace, NothingVanishes
  <1>10. QED
    BY <1>1, <1>6, <1>7, <1>8, <1>9 DEF IInv

(* It is inductive.                                                        *)
LEMMA InvNext == IInv /\ [Next]_vars => IInv'
  <1> SUFFICES ASSUME IInv, [Next]_vars PROVE IInv'
    OBVIOUS
  <1>1. TypeOK'
    BY TypeNext DEF IInv
  <1>2. CountsLeaveRoom'
    BY <1>1, CountsNext DEF IInv
  <1>3. ShutdownIsEarned'
    BY <1>1, EarnedNext DEF IInv
  <1>4. LoopInRange'
    BY <1>1, LoopNext DEF IInv
  <1>5. RequestsInPlace'
    BY <1>1, PlacesNext DEF IInv
  <1>6. QED
    BY <1>1, <1>2, <1>3, <1>4, <1>5 DEF IInv

(* The invariant holds in every run of an MQTT measurement.                *)
THEOREM Invariant == Spec => []IInv
  BY InvInit, InvNext, PTL DEF Spec

(* Every variable of the client, the server and the broker keeps its type, *)
(* and the channel `shutdown` never holds more than one value              *)
(* (cmd/client/client.go, main).                                           *)
THEOREM TypeCorrect == Spec => []TypeOK
  <1>1. IInv => TypeOK
    BY DEF IInv
  <1>2. QED
    BY <1>1, Invariant, PTL

(* However the handlers race on `received`, it never runs ahead of the     *)
(* rows written (onMessage).                                               *)
THEOREM CounterBehindFile == Spec => []CountFollowsWrites
  <1>1. IInv => CountFollowsWrites
    <2> SUFFICES ASSUME IInv PROVE CountFollowsWrites
      OBVIOUS
    <2>1. received \in Nat /\ Cardinality(Uncounted) \in Nat
      BY HandlersByState DEF IInv, HandlersCounted, TypeOK, ClientTypeOK
    <2>2. RowCount \in Nat /\ received + Cardinality(Uncounted) <= RowCount
      BY RowCountType DEF IInv, CountsLeaveRoom
    <2>3. QED
      BY <2>1, <2>2 DEF CountFollowsWrites
  <1>2. QED
    BY <1>1, Invariant, PTL

(* Whatever is lost, comes twice, breaks off or races, with every QoS and  *)
(* from the first step past the client's end: each published request and   *)
(* each copy of it is under way, with a handler, a row, or dropped, and in *)
(* one of these only (publishRequest, onMessage of both programs).         *)
THEOREM OnePlace == Spec => []NothingVanishes
  <1>1. IInv => NothingVanishes
    BY DEF IInv, RequestsInPlace
  <1>2. QED
    BY <1>1, Invariant, PTL

(* A file in which no request has two rows, an earlier client's none, and  *)
(* one request no row has fewer rows than there are requests.              *)
LEMMA FileIncomplete ==
  ASSUME TypeOK, writes[Stale] = 0, \A i \in Requests : writes[i] <= 1,
         NEW missing \in Requests, writes[missing] = 0
  PROVE  RowCount < Reps
  <1> DEFINE others == Requests \ {missing}
  <1>1. /\ Reps \in Nat /\ Requests \subseteq Nat /\ Ids = Requests \cup {Stale}
        /\ writes \in [Ids -> Nat]
    <2>1. Reps \in Nat /\ Requests \subseteq Nat /\ writes \in [Ids -> Nat]
      BY SetupTypes DEF TypeOK, ClientTypeOK
    <2>2. QED
      BY <2>1 DEF Requests, Ids, Stale
  <1>2. Requests = 0 .. Reps - 1 /\ Reps > 0
    BY <1>1 DEF Requests
  <1>3. IsFiniteSet(Requests) /\ Cardinality(Requests) = Reps
    <2>1. Reps - 1 \in Int /\ ~(0 > Reps - 1) /\ (Reps - 1) - 0 + 1 = Reps
      BY <1>1, <1>2
    <2>2. QED
      BY <1>2, <2>1, FS_Interval
  <1>4. IsFiniteSet(others) /\ Cardinality(others) = Reps - 1
    BY <1>3, FS_RemoveElement
  <1>5. IsFiniteSet({1}) /\ Cardinality({1}) = 1
    BY FS_Singleton
  <1>6. IsFiniteSet(others \X {1}) /\ Cardinality(others \X {1}) = Reps - 1
    <2>1. /\ IsFiniteSet(others \X {1})
          /\ Cardinality(others \X {1}) = Cardinality(others) * Cardinality({1})
      BY <1>4, <1>5, FS_Product
    <2>2. QED
      BY <1>1, <1>4, <1>5, <2>1
  <1>7. File!Lines \subseteq others \X {1}
    <2>1. ASSUME NEW i \in Ids, NEW n \in 1 .. writes[i] PROVE <<i, n>> \in others \X {1}
      <3>1. writes[i] >= 1 /\ writes[i] \in Nat
        BY <1>1, <2>1
      <3>2. i \in others
        BY <1>1, <3>1
      <3>3. n = 1
        BY <1>1, <2>1, <3>2
      <3>4. QED
        BY <3>2, <3>3
    <2>2. QED
      BY <2>1, LinesOf DEF LinesNumbered
  <1>8. RowCount \in Nat /\ RowCount <= Reps - 1
    <2>1. IsFiniteSet(File!Lines) /\ Cardinality(File!Lines) <= Cardinality(others \X {1})
      BY <1>6, <1>7, FS_Subset
    <2>2. QED
      BY <1>6, <2>1, RowCountIs, RowCountType
  <1>9. QED
    BY <1>1, <1>8

(* Where no message came twice, a request has one row at most, and none    *)
(* before it is published.                                                 *)
LEMMA RowsOnce ==
  ASSUME IInv, NEW i \in Requests, duplicates[i] = 0
  PROVE  writes[i] \in Nat /\ writes[i] <= 1 /\ (i >= PublishedCount => writes[i] = 0)
  <1>1. TypeOK
    BY DEF IInv
  <1>2. i \in Ids /\ i \in Nat /\ PublishedCount \in Nat
    BY <1>1, SetupTypes DEF TypeOK, ClientTypeOK, PublishedCount
  <1>3. /\ inflight["request"][i] \in Nat /\ inflight["response"][i] \in Nat
        /\ InHandlers(i) \in Nat /\ writes[i] \in Nat /\ dropped[i] \in Nat
    BY <1>1, <1>2, PlacesType DEF PlacesTypeOK
  <1>4. Places(i) + dropped[i] = IF i < PublishedCount THEN 1 ELSE 0
    BY DEF IInv, RequestsInPlace, NothingVanishes
  <1>5. Places(i) = inflight["request"][i] + inflight["response"][i] + InHandlers(i) + writes[i]
    BY DEF Places
  <1>6. \A a, b, c, d, e \in Nat :
          /\ a + b + c + d + e = 1 => d <= 1
          /\ a + b + c + d + e = 0 => d = 0
    OBVIOUS
  <1>7. CASE i < PublishedCount
    <2>1. inflight["request"][i] + inflight["response"][i] + InHandlers(i) + writes[i]
            + dropped[i] = 1
      BY <1>4, <1>5, <1>7
    <2>2. writes[i] <= 1
      BY <1>3, <1>6, <2>1, Zenon
    <2>3. QED
      BY <1>2, <1>3, <1>7, <2>2
  <1>8. CASE ~(i < PublishedCount)
    <2>1. inflight["request"][i] + inflight["response"][i] + InHandlers(i) + writes[i]
            + dropped[i] = 0
      BY <1>4, <1>5, <1>8
    <2>2. writes[i] = 0
      BY <1>3, <1>6, <2>1, Zenon
    <2>3. QED
      BY <2>2
  <1>9. QED
    BY <1>7, <1>8

(* A client that ended by itself, with a QoS that rules out duplicates and *)
(* nothing left of an earlier client, has written one row for each         *)
(* request: in whatever order the responses came and the handlers ran      *)
(* (onMessage).                                                            *)
THEOREM FileComplete == Spec => []ExitHasEveryRow
  <1>1. IInv => ExitHasEveryRow
    <2> SUFFICES ASSUME IInv, main = "exited", signals = 0, qos # 1, writes[Stale] = 0,
                        NEW i \in Requests
                 PROVE  writes[i] = 1
      BY DEF ExitHasEveryRow
    <2>1. TypeOK
      BY DEF IInv
    <2>2. AllRowsWritten
      <3>1. shutdown \in Nat
        BY <2>1 DEF TypeOK, ClientTypeOK, ShutdownCap
      <3>2. ~(shutdown + (IF Holding THEN 1 ELSE 0) <= signals)
        BY <3>1 DEF Holding
      <3>3. QED
        BY <3>2 DEF IInv, ShutdownIsEarned
    <2>3. \A j \in Requests : duplicates[j] = 0
      BY DEF IInv, RequestsInPlace
    <2>4. \A j \in Requests : writes[j] \in Nat /\ writes[j] <= 1
      BY <2>3, RowsOnce
    <2>5. writes[i] # 0
      <3>1. SUFFICES ASSUME writes[i] = 0 PROVE FALSE
        OBVIOUS
      <3>2. RowCount < Reps
        BY <2>1, <2>4, <3>1, FileIncomplete
      <3>3. RowCount \in Nat /\ Reps \in Nat
        BY <2>1, RowCountType, SetupTypes DEF IInv, CountsLeaveRoom, TypeOK
      <3>4. QED
        BY <2>2, <3>2, <3>3 DEF AllRowsWritten
    <2>6. QED
      BY <2>4, <2>5
  <1>2. QED
    BY <1>1, Invariant, PTL

(* One signal alone never has the client block on the channel it would put *)
(* the signal back in: that takes a second one, a message that came twice, *)
(* or a response to an earlier client's request (PublishRequests, the      *)
(* select; onMessage).                                                     *)
THEOREM BlockedTakesTwo == Spec => []BlockedTakesTwoSignals
  <1>1. IInv => BlockedTakesTwoSignals
    <2> SUFFICES ASSUME IInv, Blocked, ~ExtraResponse PROVE signals > 1
      BY DEF BlockedTakesTwoSignals
    <2>1. main = "repush" /\ shutdown = 1 /\ TypeOK
      BY DEF Blocked, ShutdownCap, IInv
    <2>2. PublishedCount \in Requests /\ Stale \in Ids /\ Reps \in Nat
      <3>1. currentMessageID \in Nat /\ Reps \in Nat /\ Stale \in Ids
        BY <2>1, SetupTypes DEF TypeOK, ClientTypeOK
      <3>2. currentMessageID + 1 < Reps
        BY <2>1 DEF IInv, LoopInRange
      <3>3. PublishedCount = currentMessageID + 1
        BY <2>1, <3>1, <3>2 DEF PublishedCount
      <3>4. QED
        BY <3>1, <3>2, <3>3 DEF Requests
    <2>3. \A j \in Requests : duplicates[j] = 0
      <3>1. \A j \in Requests : duplicates[j] \in Nat
        BY <2>1, SetupTypes DEF TypeOK, BrokerTypeOK
      <3>2. QED
        BY <3>1 DEF ExtraResponse
    <2>4. \A j \in Requests :
            writes[j] \in Nat /\ writes[j] <= 1 /\ (j >= PublishedCount => writes[j] = 0)
      BY <2>3, RowsOnce
    <2>5. writes[PublishedCount] = 0 /\ writes[Stale] = 0
      <3>1. PublishedCount >= PublishedCount
        BY <2>1, <2>2, SetupTypes DEF TypeOK
      <3>2. writes[Stale] \in Nat
        BY <2>1, <2>2 DEF TypeOK, ClientTypeOK
      <3>3. QED
        BY <2>2, <2>4, <3>1, <3>2 DEF ExtraResponse
    <2>6. RowCount < Reps /\ RowCount \in Nat
      BY <2>1, <2>2, <2>4, <2>5, FileIncomplete, RowCountType DEF IInv, CountsLeaveRoom
    <2>7. shutdown + (IF Holding THEN 1 ELSE 0) <= signals /\ Holding
      BY <2>1, <2>2, <2>6 DEF IInv, ShutdownIsEarned, AllRowsWritten, Holding
    <2>8. signals \in Nat
      BY <2>1, SetupTypes DEF TypeOK, ClientTypeOK
    <2>9. QED
      BY <2>1, <2>7, <2>8
  <1>2. QED
    BY <1>1, Invariant, PTL

(***************************************************************************)
(* MqttSystem implements the file of MqttFile: its first states are those  *)
(* of MqttFile, and each of its steps is a step of MqttFile or leaves the  *)
(* file alone.                                                             *)
(***************************************************************************)

(* What MqttFile sees of a step that publishes nothing, writes nothing,    *)
(* takes no signal and does not end the client.                            *)
LEMMA FileSame ==
  ASSUME setup' = setup, writes' = writes, failed' = failed, signals' = signals,
         PublishedCount' = PublishedCount, main' = "exited" <=> main = "exited"
  PROVE  UNCHANGED File!vars
  <1>1. Reps' = Reps /\ qos' = qos
    BY SetupSame
  <1>2. /\ (qos # 1)' = (qos # 1) /\ (signals > 0)' = (signals > 0)
        /\ (main = "exited")' = (main = "exited")
    BY <1>1
  <1>3. QED
    BY <1>1, <1>2 DEF File!vars

(* A measurement starts as an empty file.                                  *)
LEMMA FileInit == Init => File!Init
  <1> SUFFICES ASSUME Init PROVE File!Init
    OBVIOUS
  <1>1. Reps \in Nat
    BY TypeInit, SetupTypes DEF TypeOK
  <1>2. /\ main = "subscribe" /\ currentMessageID = 0
        /\ writes = [i \in 0 .. Reps |-> 0] /\ failed = [i \in 0 .. Reps |-> 0]
        /\ signals = 0
    BY DEF Init, ClientInit, NoCopies, Ids
  <1>3. QED
    BY <1>1, <1>2 DEF File!Init, PublishedCount

(* A turn of the loop publishes a request.                                 *)
LEMMA FilePublish ==
  ASSUME IInv, PublishRequest
  PROVE  File!Publish
  <1>1. /\ setup' = setup /\ UNCHANGED <<writes, failed, signals, currentMessageID>>
        /\ main = "publish" /\ main' \in {"wait", "pace"}
    BY DEF PublishRequest, Publish
  <1>2. Reps \in Nat /\ currentMessageID \in Nat /\ currentMessageID < Reps
    BY <1>1, SetupTypes DEF IInv, TypeOK, ClientTypeOK, LoopInRange
  <1>3. Reps' = Reps /\ qos' = qos
    BY <1>1, SetupSame
  <1>4. PublishedCount = currentMessageID /\ PublishedCount' = currentMessageID + 1
    BY <1>1, <1>2, <1>3 DEF PublishedCount
  <1>5. /\ (qos # 1)' = (qos # 1) /\ (signals > 0)' = (signals > 0)
        /\ (main = "exited")' = (main = "exited")
    BY <1>1, <1>3
  <1>6. QED
    BY <1>1, <1>2, <1>3, <1>4, <1>5 DEF File!Publish

(* A handler writes the row of a message that was published and, where the *)
(* QoS has messages come once, has no row.                                 *)
LEMMA FileRow ==
  ASSUME IInv, NEW h \in DOMAIN handlers, WriteRow(h)
  PROVE  \E i \in 0 .. Reps : File!Row(i)
  <1> DEFINE i == handlers[h].id
  <1>1. TypeOK /\ LoopInRange
    BY DEF IInv
  <1>2. /\ handlers[h].pc = "write" /\ main # "exited"
        /\ writes' = [writes EXCEPT ![i] = @ + 1]
        /\ failed' = failed \/ failed' = [failed EXCEPT ![i] = @ + 1]
        /\ UNCHANGED <<setup, main, currentMessageID, signals>>
    BY DEF WriteRow, At, Alive, RowWritten, RowKept, brokerVars, mainVars
  <1>3. i \in Ids
    <2>1. handlers[h] \in Handler
      BY <1>1, HandlersByState DEF TypeOK, HandlersCounted
    <2>2. QED
      BY <2>1 DEF Handler
  <1>4. Reps' = Reps /\ qos' = qos /\ PublishedCount' = PublishedCount
    BY <1>1, <1>2, SetupSame, PublishedSame
  <1>5. /\ inflight["request"][i] \in Nat /\ inflight["response"][i] \in Nat
        /\ InHandlers(i) \in Nat /\ writes[i] \in Nat /\ dropped[i] \in Nat
    BY <1>1, <1>3, PlacesType DEF PlacesTypeOK
  <1>6. InHandlers(i) # 0
    <2> DEFINE S == {k \in DOMAIN handlers : handlers[k].id = i /\ handlers[k].pc = "write"}
    <2>1. IsFiniteSet(DOMAIN handlers)
      <3>1. DOMAIN handlers = 1 .. Len(handlers) /\ Len(handlers) \in Nat
        BY <1>1 DEF TypeOK, ClientTypeOK
      <3>2. QED
        BY <3>1, FS_Interval
    <2>2. IsFiniteSet(S) /\ h \in S
      <3>1. S \in SUBSET DOMAIN handlers
        OBVIOUS
      <3>2. QED
        BY <1>2, <2>1, <3>1, FS_Subset
    <2>3. QED
      BY <2>2, FS_EmptySet DEF InHandlers
  <1>7. Reps \in Nat /\ Ids = 0 .. Reps
    BY <1>1, SetupTypes DEF TypeOK, Ids
  <1>8. ASSUME i # Reps
        PROVE  /\ i < PublishedCount
               /\ qos # 1 => writes[i] = 0
    <2>1. i \in Requests
      BY <1>3, <1>7, <1>8 DEF Requests
    <2>2. /\ Places(i) + dropped[i] = IF i < PublishedCount THEN 1 + duplicates[i] ELSE 0
          /\ qos # 1 => duplicates[i] = 0
      BY <2>1 DEF IInv, RequestsInPlace, NothingVanishes
    <2>3. Places(i) = inflight["request"][i] + inflight["response"][i] + InHandlers(i) + writes[i]
      BY DEF Places
    <2>4. \A a, b, c, d, e \in Nat :
            c # 0 => /\ a + b + c + d + e # 0
                     /\ a + b + c + d + e = 1 => d = 0
      OBVIOUS
    <2>5. /\ Places(i) + dropped[i] # 0
          /\ Places(i) + dropped[i] = 1 => writes[i] = 0
      <3> DEFINE sum == inflight["request"][i] + inflight["response"][i] + InHandlers(i)
                          + writes[i] + dropped[i]
      <3>1. sum # 0 /\ (sum = 1 => writes[i] = 0)
        BY <1>5, <1>6, <2>4, Zenon
      <3>2. sum = Places(i) + dropped[i]
        BY <2>3
      <3>3. QED
        BY <3>1, <3>2
    <2>6. i \in Nat /\ PublishedCount \in Nat
      BY <1>1, <1>3, <1>7 DEF PublishedCount, TypeOK, ClientTypeOK
    <2>7. QED
      BY <2>2, <2>5, <2>6
  <1>9. /\ (qos # 1)' = (qos # 1) /\ (signals > 0)' = (signals > 0)
        /\ (main = "exited")' = (main = "exited")
    BY <1>2, <1>4
  <1>10. File!Row(i)
    <2>1. i < PublishedCount \/ i = Reps
      BY <1>8
    <2>2. qos # 1 /\ i < Reps => writes[i] = 0
      BY <1>7, <1>8
    <2>3. UNCHANGED <<Reps, qos # 1, PublishedCount, signals > 0, main = "exited">>
      BY <1>4, <1>9
    <2>4. QED
      BY <1>2, <2>1, <2>2, <2>3 DEF File!Row
  <1>11. QED
    BY <1>3, <1>7, <1>10

(* A signal is a signal.                                                   *)
LEMMA FileSignal ==
  ASSUME IInv, Signal
  PROVE  File!Signal
  <1>1. TypeOK /\ LoopInRange
    BY DEF IInv
  <1>2. /\ UNCHANGED <<setup, main, currentMessageID, writes, failed>>
        /\ main # "exited" /\ signals' = signals + 1
    BY DEF Signal, brokerVars, mainVars
  <1>3. Reps' = Reps /\ qos' = qos /\ PublishedCount' = PublishedCount
    BY <1>1, <1>2, SetupSame, PublishedSame
  <1>4. signals' > 0
    BY <1>1, <1>2, SetupTypes DEF TypeOK, ClientTypeOK
  <1>5. /\ (qos # 1)' = (qos # 1) /\ (main = "exited")' = (main = "exited")
    BY <1>2, <1>3
  <1>6. QED
    BY <1>2, <1>3, <1>4, <1>5 DEF File!Signal

(* The client ends on a signal or with as many rows as requests.           *)
LEMMA FileEnd ==
  ASSUME IInv, Exit
  PROVE  File!End
  <1>1. TypeOK /\ LoopInRange
    BY DEF IInv
  <1>2. /\ UNCHANGED <<setup, currentMessageID, writes, failed, signals>>
        /\ main = "leaving" /\ main' = "exited"
    BY DEF Exit
  <1>3. Reps' = Reps /\ qos' = qos /\ PublishedCount' = PublishedCount
    BY <1>1, <1>2, SetupSame, PublishedSame
  <1>4. signals > 0 \/ AllRowsWritten
    <2>1. shutdown \in Nat /\ signals \in Nat
      BY <1>1, SetupTypes DEF TypeOK, ClientTypeOK, ShutdownCap
    <2>2. AllRowsWritten \/ shutdown + 1 <= signals
      BY <1>2 DEF IInv, ShutdownIsEarned, Holding
    <2>3. QED
      BY <2>1, <2>2
  <1>5. signals > 0 \/ (Reps > 0 /\ File!Total >= Reps)
    BY <1>4 DEF AllRowsWritten, RowCount
  <1>6. /\ (qos # 1)' = (qos # 1) /\ (signals > 0)' = (signals > 0)
    BY <1>2, <1>3
  <1>7. QED
    BY <1>2, <1>3, <1>5, <1>6 DEF File!End

(* Each step of the system is a step of the file or none.                  *)
LEMMA FileNext == IInv /\ [Next]_vars => [File!Next]_(File!vars)
  <1> SUFFICES ASSUME IInv, [Next]_vars PROVE [File!Next]_(File!vars)
    OBVIOUS
  <1>1. TypeOK /\ LoopInRange
    BY DEF IInv
  <1>2. ASSUME UNCHANGED <<setup, main, currentMessageID, writes, failed, signals>>
        PROVE  UNCHANGED File!vars
    BY <1>1, <1>2, PublishedSame, FileSame
  <1>3. CASE MainStep
    <2>1. CASE PublishRequest
      BY <2>1, FilePublish DEF File!Next
    <2>2. CASE Exit
      BY <2>2, FileEnd DEF File!Next
    <2>3. CASE Subscribe \/ PaceElapsed \/ PaceSignal \/ Repush \/ TakeShutdown
      <3>1. /\ setup' = setup /\ writes' = writes /\ failed' = failed /\ signals' = signals
            /\ main # "exited" /\ main' # "exited"
        BY <2>3 DEF Subscribe, PaceElapsed, PaceSignal, Repush, TakeShutdown, brokerVars
      <3>2. PublishedCount' = PublishedCount
        BY <1>1, <2>3, <3>1, PublishedSame
      <3>3. QED
        BY <3>1, <3>2, FileSame
    <2>4. QED
      BY <1>3, <2>1, <2>2, <2>3 DEF MainStep, Main
  <1>4. ASSUME NEW h \in DOMAIN handlers, OnMessage(h) PROVE [File!Next]_(File!vars)
    <2>1. CASE WriteRow(h)
      BY <2>1, FileRow DEF File!Next
    <2>2. CASE ~WriteRow(h)
      BY <1>2, <1>4, <2>2
         DEF OnMessage, Load, Store, Compare, SendShutdown, brokerVars, mainVars
    <2>3. QED
      BY <2>1, <2>2
  <1>5. CASE ServerStep
    BY <1>2, <1>5
       DEF ServerStep, Server, ServerSubscribe, ServerOnMessage, ServerShutdown, clientVars, mainVars
  <1>6. CASE BrokerStep
    BY <1>2, <1>6
       DEF BrokerStep, Lose, Redeliver, ConnectionLost, Reconnected, Deliver, clientVars, mainVars
  <1>7. CASE Signal
    BY <1>7, FileSignal DEF File!Next
  <1>8. CASE UNCHANGED vars
    BY <1>2, <1>8 DEF vars, brokerVars, clientVars, mainVars
  <1>9. QED
    BY <1>3, <1>4, <1>5, <1>6, <1>7, <1>8 DEF Next, HandlerStep

(* Whatever races, comes twice, is lost or is signalled, the client writes *)
(* a file as MqttFile promises: a row answers a published request, once    *)
(* where the QoS has it so, nothing is written after the end, and without  *)
(* a signal the end has as many rows as requests (PublishRequests,         *)
(* onMessage).                                                             *)
THEOREM ImplementsFile == Spec => FileSpec
  BY FileInit, FileNext, Invariant, PTL DEF Spec, FileSpec, File!Spec
=============================================================================
