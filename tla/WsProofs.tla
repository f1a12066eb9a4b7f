------------------------------ MODULE WsProofs ------------------------------
(***************************************************************************)
(* Proofs about WsSystem, for every value of its constants.                *)
(***************************************************************************)
EXTENDS WsInvariant, SequenceTheorems, TLAPS

USE RepsAssumption, ModulusAssumption, SockOptAssumption, AddressAssumption,
    MaxBreaksAssumption DEF ResetCap

(***************************************************************************)
(* Lemmas about the operators.                                             *)
(***************************************************************************)

(* The loop's bound is itself an int32.                                    *)
LEMMA StopType == Stop \in 0 .. IdModulus - 1
  BY DEF Stop

(* msgId stays an int32 when it is incremented.                            *)
LEMMA NextIdType ==
  ASSUME NEW i \in 0 .. IdModulus - 1
  PROVE  NextId(i) \in 0 .. IdModulus - 1
  BY DEF NextId

(* What SubSeq keeps when a break cuts a stream short.                     *)
LEMMA Cut ==
  ASSUME NEW S, NEW s \in Seq(S), NEW n \in 0 .. Len(s)
  PROVE  /\ SubSeq(s, 1, n) \in Seq(S)
         /\ Len(SubSeq(s, 1, n)) = n
         /\ \A i \in 1 .. n : SubSeq(s, 1, n)[i] = s[i]
  BY SubSeqProperties

(* What Append does to a sequence, place by place.                         *)
LEMMA Grow ==
  ASSUME NEW S, NEW s \in Seq(S), NEW x \in S
  PROVE  /\ Append(s, x) \in Seq(S)
         /\ Append(s, x) # <<>>
         /\ Len(Append(s, x)) = Len(s) + 1
         /\ \A i \in 1 .. Len(s) : Append(s, x)[i] = s[i]
         /\ Append(s, x)[Len(s) + 1] = x
  BY AppendProperties

(* What a receive does to the channel.                                     *)
LEMMA Receive ==
  ASSUME NEW S, NEW s \in Seq(S), s # <<>>
  PROVE  /\ Head(s) = s[1] /\ Head(s) \in S
         /\ Tail(s) \in Seq(S)
         /\ Len(s) >= 1
         /\ Len(Tail(s)) = Len(s) - 1
         /\ \A i \in 1 .. Len(Tail(s)) : Tail(s)[i] = s[i + 1]
  BY HeadTailProperties

(* The frames the two sides write are frames.                              *)
LEMMA Frames ==
  /\ SizeFrame \in Frame /\ CloseFrame \in Frame
  /\ \A i, t \in Nat : DataFrame(i, t) \in Frame
  BY DEF Frame, SizeFrame, CloseFrame, DataFrame

(***************************************************************************)
(* Type correctness.                                                       *)
(***************************************************************************)

\* The type invariant holds at the start.
LEMMA TypeInit == Init => TypeOK
  <1> SUFFICES ASSUME Init PROVE TypeOK
    OBVIOUS
  <1>1. NetTypeOK
    BY DEF Init, NetInit, NetTypeOK
  <1>2. ClientTypeOK
    <2>1. stpc \in {"check", "poll", "finished"}
      BY DEF Init, ClientInit
    <2>2. ssReading \in BOOLEAN /\ interrupt \in BOOLEAN
      BY DEF Init, ClientInit
    <2>3. ~Started
      BY DEF Init, ClientInit, Started
    <2>4. QED
      BY <2>1, <2>2, <2>3 DEF Init, ClientInit, ClientTypeOK
  <1>3. ServerTypeOK
    BY DEF Init, ServerInit, ServerTypeOK, HandlerState
  <1>4. QED
    BY <1>1, <1>2, <1>3 DEF TypeOK

(* Dialling keeps the types of the network.                                *)
LEMMA TypeDial == NetTypeOK /\ Dial(Hello) => NetTypeOK' /\ nconn' \in Conns
  <1> SUFFICES ASSUME NetTypeOK, Dial(Hello) PROVE NetTypeOK' /\ nconn' \in Conns
    OBVIOUS
  <1>1. Hello \in Seq(Frame)
    BY Frames DEF Hello
  <1>2. nconn' \in Conns /\ nconn' = nconn + 1
    BY DEF NetTypeOK, Dial, Conns
  <1>3. c2s' \in [Conns -> Seq(Frame)]
    BY <1>1 DEF NetTypeOK, Dial
  <1>4. net' \in [Conns -> {"idle", "open", "broken"}]
    BY DEF NetTypeOK, Dial
  <1>5. QED
    BY <1>2, <1>3, <1>4 DEF NetTypeOK, Dial

(* So does the end of the client process.                                  *)
LEMMA TypeCloseAll == NetTypeOK /\ CloseAll => NetTypeOK'
  <1> SUFFICES ASSUME NetTypeOK, CloseAll PROVE NetTypeOK'
    OBVIOUS
  <1>1. net' \in [Conns -> {"idle", "open", "broken"}]
    BY DEF NetTypeOK, CloseAll
  <1>2. QED
    BY <1>1 DEF NetTypeOK, CloseAll

(* A write, whatever it writes.                                            *)
LEMMA TypeWrite ==
  ASSUME NetTypeOK, ClientTypeOK, Started, NEW f \in Frame,
         ssReading' \in BOOLEAN, interrupt' \in BOOLEAN,
         NEW ok \in {"pace", "waitReader"}, NEW failed \in {"reconnect", "waitReader"},
         Write(f, ok, failed)
  PROVE  NetTypeOK' /\ ClientTypeOK'
  <1>1. Append(c2s[conn], f) \in Seq(Frame)
    BY Grow DEF NetTypeOK, ClientTypeOK
  <1>2. NetTypeOK'
    BY <1>1 DEF NetTypeOK, Write, ClientWriteOk, netVars
  <1>3. Started'
    BY DEF Write, Started
  <1>4. ClientTypeOK'
    BY <1>3 DEF ClientTypeOK, Write, Started, readerVars, statsVars
  <1>5. QED
    BY <1>2, <1>4

(* A push, by either of the two sends of requestSender.                    *)
LEMMA TypePush ==
  ASSUME ClientTypeOK, Started, PushReset
  PROVE  /\ reset' \in Seq(Conns) /\ Len(reset') <= ResetCap
         /\ rpc' \in {"reading", "failed", "blocked", "finished"}
         /\ rconn' \in Conns
         /\ rows' \in Seq(Row)
  <1>1. /\ Append(reset, conn) \in Seq(Conns)
        /\ Len(Append(reset, conn)) = Len(reset) + 1
    BY Grow DEF ClientTypeOK
  <1>2. QED
    BY <1>1 DEF ClientTypeOK, PushReset, CanPush, Enqueue, readerVars

(* A receive from the channel, by either of its two readers.               *)
LEMMA TypeReceive ==
  ASSUME ClientTypeOK, reset # <<>>
  PROVE  Head(reset) \in Conns /\ Tail(reset) \in Seq(Conns) /\ Len(Tail(reset)) <= ResetCap
  BY Receive DEF ClientTypeOK

(* What the reader appends to the file is a row.                           *)
LEMMA TypeRow ==
  ASSUME NetTypeOK, ClientTypeOK, ReadReply
  PROVE  /\ NextReply \in Frame
         /\ Append(rows, RowOf(NextReply)) \in Seq(Row)
         /\ cliAt' \in [Conns -> Nat]
  <1>1. rconn \in Conns
    BY DEF ReadReply, ClientTypeOK
  <1>2. cliAt[rconn] + 1 \in 1 .. Len(s2c[rconn])
    BY <1>1 DEF ReadReply, ClientHasFrame, NetTypeOK
  <1>3. NextReply \in Frame
    BY <1>1, <1>2, ElementOfSeq DEF NextReply, NetTypeOK
  <1>4. RowOf(NextReply) \in Row
    BY <1>1, <1>3 DEF RowOf, Row, Frame, Conns
  <1>5. Append(rows, RowOf(NextReply)) \in Seq(Row)
    BY <1>4, Grow DEF ClientTypeOK
  <1>6. cliAt' \in [Conns -> Nat]
    <2>1. cliAt[rconn] + 1 \in Nat
      BY <1>1 DEF NetTypeOK
    <2>2. QED
      BY <2>1 DEF NetTypeOK, ReadReply
  <1>7. QED
    BY <1>3, <1>5, <1>6

(* A step of the client keeps the types.                                   *)
LEMMA TypeClient == TypeOK /\ ClientStep => TypeOK'
  <1> SUFFICES ASSUME NetTypeOK, ClientTypeOK, ClientStep PROVE NetTypeOK' /\ ClientTypeOK'
    BY DEF TypeOK, ServerTypeOK, ClientStep
  <1> USE DEF netVars, senderVars, readerVars, statsVars
  <1>b. ssReading' \in BOOLEAN /\ interrupt' \in BOOLEAN
    BY DEF ClientTypeOK, ClientStep, Sender, Reader, Stats, Connect, Send, Reconnect,
       Push, PushForStats, Resend, PaceElapsed, PaceInterrupt, FinishLoop, Complete,
       ReadReply, ReadError, TakeReset, StatsCheck, StatsPoll, Interrupt, Fatal,
       CreateFails, Return
  <1>1. ASSUME Fatal PROVE NetTypeOK' /\ ClientTypeOK'
    BY <1>1, <1>b, TypeCloseAll DEF Fatal, ClientTypeOK, Started
  <1>2. ASSUME Connect PROVE NetTypeOK' /\ ClientTypeOK'
    <2>1. ASSUME Dial(Hello), Connect, ~Fatal PROVE ClientTypeOK'
      <3>1. conn' \in Conns /\ rconn' \in Conns /\ sconn' \in 0 .. MaxBreaks + 1
        BY <2>1, TypeDial DEF Connect, Dial, ClientTypeOK, Conns
      <3>2. QED
        BY <2>1, <3>1, <1>b DEF Connect, ClientTypeOK, Started, Conns
    <2>2. QED
      BY <1>1, <1>2, <2>1, TypeDial DEF Connect
  <1>3. ASSUME Send PROVE NetTypeOK' /\ ClientTypeOK'
    <2>1. DataFrame(msgId, msgId) \in Frame /\ Started
      BY <1>3, Frames DEF Send, Started, ClientTypeOK
    <2>2. QED
      BY <1>3, <1>b, <2>1, TypeWrite DEF Send
  <1>4. ASSUME Reconnect PROVE NetTypeOK' /\ ClientTypeOK'
    <2>1. ASSUME Dial(Hello), Reconnect, ~Fatal PROVE ClientTypeOK'
      <3>1. conn' \in Conns
        BY <2>1, TypeDial DEF Reconnect, Dial
      <3>2. QED
        BY <2>1, <3>1, <1>b DEF Reconnect, ClientTypeOK, Started, Conns
    <2>2. QED
      BY <1>1, <1>4, <2>1, TypeDial DEF Reconnect
  <1>5. ASSUME Push \/ PushForStats PROVE NetTypeOK' /\ ClientTypeOK'
    <2>1. NetTypeOK'
      BY <1>5 DEF Push, PushForStats, NetTypeOK
    <2>2. PushReset /\ Started
      BY <1>5 DEF Push, PushForStats, Started
    <2>3. ClientTypeOK'
      BY <1>5, <1>b, <2>2, TypePush DEF Push, PushForStats, ClientTypeOK, Started, Conns
    <2>4. QED
      BY <2>1, <2>3
  <1>6. ASSUME Resend PROVE NetTypeOK' /\ ClientTypeOK'
    <2>1. Marker \in Frame /\ Started
      BY <1>6, Frames DEF Resend, Marker, Started, ClientTypeOK
    <2>2. QED
      BY <1>6, <1>b, <2>1, TypeWrite DEF Resend
  <1>7. ASSUME PaceElapsed PROVE NetTypeOK' /\ ClientTypeOK'
    <2>1. msgId' \in 0 .. IdModulus - 1
      BY <1>7, NextIdType DEF PaceElapsed, ClientTypeOK
    <2>2. NetTypeOK'
      BY <1>7 DEF PaceElapsed, NetTypeOK
    <2>3. QED
      BY <1>7, <1>b, <2>1, <2>2 DEF PaceElapsed, ClientTypeOK, Started
  <1>8. ASSUME PaceInterrupt \/ FinishLoop PROVE NetTypeOK' /\ ClientTypeOK'
    <2>1. CloseFrame \in Frame /\ Started /\ Write(CloseFrame, "waitReader", "waitReader")
      BY <1>8, Frames DEF PaceInterrupt, FinishLoop, Return, Started
    <2>2. QED
      BY <1>b, <2>1, TypeWrite
  <1>9. ASSUME Complete PROVE NetTypeOK' /\ ClientTypeOK'
    BY <1>9, <1>b, TypeCloseAll DEF Complete, ClientTypeOK, Started
  <1>10. ASSUME ReadReply PROVE NetTypeOK' /\ ClientTypeOK'
    <2>1. NetTypeOK'
      BY <1>10, TypeRow DEF ReadReply, NetTypeOK
    <2>2. rows' \in Seq(Row)
      BY <1>10, TypeRow DEF ReadReply, ClientTypeOK
    <2>3. QED
      BY <1>10, <1>b, <2>1, <2>2 DEF ReadReply, ClientTypeOK, Started
  <1>11. ASSUME ReadError PROVE NetTypeOK' /\ ClientTypeOK'
    <2>1. NetTypeOK'
      BY <1>11 DEF ReadError, NetTypeOK
    <2>2. QED
      BY <1>11, <1>b, <2>1 DEF ReadError, ClientTypeOK, Started
  <1>12. ASSUME TakeReset PROVE NetTypeOK' /\ ClientTypeOK'
    <2>1. NetTypeOK'
      BY <1>12 DEF TakeReset, NetTypeOK
    <2>2. reset' \in Seq(Conns) /\ Len(reset') <= ResetCap
      BY <1>12, TypeReceive DEF TakeReset, ClientTypeOK, Conns
    <2>3. rconn' \in 0 .. MaxBreaks + 1 /\ rconn' \in Conns
      BY <1>12, TypeReceive DEF TakeReset, ClientTypeOK, Conns
    <2>4. QED
      BY <1>12, <1>b, <2>1, <2>2, <2>3 DEF TakeReset, ClientTypeOK, Started
  <1>13. ASSUME Stats PROVE NetTypeOK' /\ ClientTypeOK'
    <2>1. NetTypeOK'
      BY <1>13 DEF Stats, StatsCheck, StatsPoll, NetTypeOK
    <2>2. reset' \in Seq(Conns) /\ Len(reset') <= ResetCap
      BY <1>13, TypeReceive DEF Stats, StatsCheck, StatsPoll, ClientTypeOK
    <2>3. sconn' \in 0 .. MaxBreaks + 1 /\ stpc' \in {"check", "poll", "finished"}
      BY <1>13, TypeReceive DEF Stats, StatsCheck, StatsPoll, ClientTypeOK, Conns
    <2>4. QED
      BY <1>13, <1>b, <2>1, <2>2, <2>3
         DEF Stats, StatsCheck, StatsPoll, ClientTypeOK, Started
  <1>14. ASSUME Interrupt PROVE NetTypeOK' /\ ClientTypeOK'
    <2>1. NetTypeOK'
      BY <1>14 DEF Interrupt, NetTypeOK
    <2>2. QED
      BY <1>14, <1>b, <2>1 DEF Interrupt, ClientTypeOK, Started
  <1>15. QED
    BY <1>1, <1>2, <1>3, <1>4, <1>5, <1>6, <1>7, <1>8, <1>9, <1>10, <1>11, <1>12,
       <1>13, <1>14 DEF ClientStep, Sender, Reader, CreateFails

(* So does a step of a server handler.                                     *)
LEMMA TypeServer == TypeOK /\ ServerStep => TypeOK'
  <1> SUFFICES ASSUME TypeOK, NEW c \in Conns, Server(c), UNCHANGED clientVars
               PROVE  NetTypeOK' /\ ServerTypeOK'
    BY DEF ServerStep, TypeOK, ClientTypeOK, Started, clientVars, senderVars,
       readerVars, statsVars
  <1>1. srvAt' \in [Conns -> Nat]
    <2>1. srvAt[c] + 1 \in Nat
      BY DEF TypeOK, NetTypeOK
    <2>2. Consume(c) => srvAt' \in [Conns -> Nat]
      BY <2>1 DEF Consume, TypeOK, NetTypeOK
    <2>3. QED
      BY <2>2 DEF Server, ReadSize, Echo, ReadClose, ReadFailed, TypeOK, NetTypeOK, netVars
  <1>2. handler' \in [Conns -> HandlerState]
    BY DEF TypeOK, ServerTypeOK, Server, ReadSize, Echo, ReadClose, ReadFailed, Handle,
       HandlerState
  <1>3. s2c' \in [Conns -> Seq(Frame)]
    <2>1. ASSUME NEW f \in Frame PROVE Append(s2c[c], f) \in Seq(Frame)
      BY <2>1, Grow DEF TypeOK, NetTypeOK
    <2>2. ASSUME NEW f \in Frame, ServerWriteOk(c, f) PROVE s2c' \in [Conns -> Seq(Frame)]
      BY <2>1, <2>2 DEF ServerWriteOk, TypeOK, NetTypeOK
    <2>3. ASSUME Echo(c) PROVE s2c' \in [Conns -> Seq(Frame)]
      <3>1. srvAt[c] + 1 \in 1 .. Len(c2s[c])
        BY <2>3 DEF Echo, ServerHasFrame, TypeOK, NetTypeOK
      <3>2. NextIn(c) \in Frame
        BY <3>1, ElementOfSeq DEF NextIn, TypeOK, NetTypeOK
      <3>3. Echoed(NextIn(c)) \in Frame
        BY <3>2, Frames DEF Echoed, Frame
      <3>4. QED
        BY <2>2, <2>3, <3>3 DEF Echo, TypeOK, NetTypeOK
    <2>4. QED
      BY <2>2, <2>3, Frames DEF Server, ReadSize, ReadClose, ReadFailed, TypeOK,
         NetTypeOK, netVars
  <1>4. QED
    BY <1>1, <1>2, <1>3 DEF TypeOK, NetTypeOK, ServerTypeOK, Server, ReadSize, Echo,
       ReadClose, ReadFailed, netVars

(* And a break.                                                            *)
LEMMA TypeNet == TypeOK /\ NetStep => TypeOK'
  <1> SUFFICES ASSUME TypeOK, NEW c \in Conns, Break(c), UNCHANGED <<clientVars, handler>>
               PROVE  NetTypeOK'
    BY DEF NetStep, TypeOK, ServerTypeOK, ClientTypeOK, Started, clientVars, senderVars,
       readerVars, statsVars
  <1>1. /\ c2s[c] \in Seq(Frame) /\ s2c[c] \in Seq(Frame)
        /\ srvAt[c] \in Nat /\ cliAt[c] \in Nat
    BY DEF TypeOK, NetTypeOK
  <1>2. c2s' \in [Conns -> Seq(Frame)]
    <2>1. PICK n \in srvAt[c] .. Len(c2s[c]) : c2s' = [c2s EXCEPT ![c] = SubSeq(@, 1, n)]
      BY DEF Break
    <2>2. SubSeq(c2s[c], 1, n) \in Seq(Frame)
      BY <1>1, Cut
    <2>3. QED
      BY <2>1, <2>2 DEF TypeOK, NetTypeOK
  <1>3. s2c' \in [Conns -> Seq(Frame)]
    <2>1. PICK n \in cliAt[c] .. Len(s2c[c]) : s2c' = [s2c EXCEPT ![c] = SubSeq(@, 1, n)]
      BY DEF Break
    <2>2. SubSeq(s2c[c], 1, n) \in Seq(Frame)
      BY <1>1, Cut
    <2>3. QED
      BY <2>1, <2>2 DEF TypeOK, NetTypeOK
  <1>4. QED
    BY <1>2, <1>3 DEF Break, TypeOK, NetTypeOK

\* Every step, and a stutter, keeps the type invariant.
LEMMA TypeNext == TypeOK /\ [Next]_vars => TypeOK'
  <1>1. TypeOK /\ UNCHANGED vars => TypeOK'
    BY DEF vars, clientVars, netVars, senderVars, readerVars, statsVars, TypeOK,
       NetTypeOK, ClientTypeOK, ServerTypeOK, Started
  <1>2. QED
    BY <1>1, TypeClient, TypeServer, TypeNet DEF Next

(* Every variable keeps its type; in particular msgId stays an int32 and   *)
(* the channel `reset` never holds more than its capacity.                 *)
THEOREM TypeCorrect == Spec => []TypeOK
  BY TypeInit, TypeNext, PTL DEF Spec

(***************************************************************************)
(* What the steps do to the streams, place by place.                       *)
(***************************************************************************)

\* What the type of the network says of one connection.
LEMMA Streams ==
  ASSUME NetTypeOK
  PROVE  \A c \in Conns :
           /\ c2s[c] \in Seq(Frame) /\ Len(c2s[c]) \in Nat
           /\ s2c[c] \in Seq(Frame) /\ Len(s2c[c]) \in Nat
           /\ srvAt[c] \in Nat /\ cliAt[c] \in Nat
           /\ \A i \in 1 .. Len(c2s[c]) : c2s[c][i].stamp \in Nat /\ c2s[c][i].id \in Nat
           /\ \A i \in 1 .. Len(s2c[c]) : s2c[c][i].stamp \in Nat /\ s2c[c][i].id \in Nat
           /\ s2c[c] # <<>> <=> Len(s2c[c]) > 0
  <1> SUFFICES ASSUME NEW c \in Conns
      PROVE  /\ c2s[c] \in Seq(Frame) /\ Len(c2s[c]) \in Nat
             /\ s2c[c] \in Seq(Frame) /\ Len(s2c[c]) \in Nat
             /\ srvAt[c] \in Nat /\ cliAt[c] \in Nat
             /\ \A i \in 1 .. Len(c2s[c]) : c2s[c][i].stamp \in Nat /\ c2s[c][i].id \in Nat
             /\ \A i \in 1 .. Len(s2c[c]) : s2c[c][i].stamp \in Nat /\ s2c[c][i].id \in Nat
             /\ s2c[c] # <<>> <=> Len(s2c[c]) > 0
    OBVIOUS
  <1>1. c2s[c] \in Seq(Frame) /\ s2c[c] \in Seq(Frame) /\ srvAt[c] \in Nat /\ cliAt[c] \in Nat
    BY DEF NetTypeOK
  <1>2. /\ \A i \in 1 .. Len(c2s[c]) : c2s[c][i] \in Frame
        /\ \A i \in 1 .. Len(s2c[c]) : s2c[c][i] \in Frame
    BY <1>1, ElementOfSeq
  <1>3. Len(c2s[c]) \in Nat /\ Len(s2c[c]) \in Nat /\ (s2c[c] # <<>> <=> Len(s2c[c]) > 0)
    BY <1>1, EmptySeq, LenProperties
  <1>4. QED
    BY <1>1, <1>2, <1>3 DEF Frame

(* A successful write on the open connection grows its stream by f.        *)
LEMMA WriteGrows ==
  ASSUME NetTypeOK, conn \in Conns, NEW f \in Frame, net[conn] = "open",
         ClientWriteOk(conn, f), NEW l, l = Len(c2s[conn])
  PROVE  /\ UNCHANGED <<nconn, net, s2c, srvAt, cliAt>>
         /\ \A c \in Conns :
              /\ c # conn => c2s'[c] = c2s[c]
              /\ Len(c2s[c]) <= Len(c2s'[c])
              /\ \A i \in 1 .. Len(c2s[c]) : c2s'[c][i] = c2s[c][i]
              /\ \A i \in 1 .. Len(c2s'[c]) :
                   i \in 1 .. Len(c2s[c]) \/ (c = conn /\ i = l + 1)
         /\ Len(c2s'[conn]) = l + 1
         /\ c2s'[conn][l + 1] = f
  <1>1. c2s[conn] \in Seq(Frame) /\ l \in Nat
    BY Streams DEF NetTypeOK
  <1>2. c2s' = [c2s EXCEPT ![conn] = Append(c2s[conn], f)]
    BY DEF ClientWriteOk
  <1>3. c2s'[conn] = Append(c2s[conn], f) /\ \A c \in Conns : c # conn => c2s'[c] = c2s[c]
    BY <1>2 DEF NetTypeOK
  <1>4. /\ Len(c2s'[conn]) = l + 1 /\ c2s'[conn][l + 1] = f
        /\ \A i \in 1 .. l : c2s'[conn][i] = c2s[conn][i]
    BY <1>1, <1>3, Grow
  <1>5. ASSUME NEW c \in Conns
        PROVE  /\ Len(c2s[c]) <= Len(c2s'[c])
               /\ \A i \in 1 .. Len(c2s[c]) : c2s'[c][i] = c2s[c][i]
               /\ \A i \in 1 .. Len(c2s'[c]) :
                    i \in 1 .. Len(c2s[c]) \/ (c = conn /\ i = l + 1)
    <2>1. CASE c = conn
      BY <1>1, <1>4, <2>1
    <2>2. CASE c # conn
      BY <1>3, <2>2, Streams
    <2>3. QED
      BY <2>1, <2>2
  <1>6. QED
    BY <1>3, <1>4, <1>5 DEF ClientWriteOk

(* So does a server's write on an open connection.                         *)
LEMMA ReplyGrows ==
  ASSUME NetTypeOK, NEW c \in Conns, NEW f \in Frame, net[c] = "open", ServerWriteOk(c, f)
  PROVE  /\ \A d \in Conns : d # c => s2c'[d] = s2c[d]
         /\ Len(s2c'[c]) = Len(s2c[c]) + 1
         /\ \A i \in 1 .. Len(s2c[c]) : s2c'[c][i] = s2c[c][i]
         /\ s2c'[c][Len(s2c[c]) + 1] = f
  <1>1. s2c[c] \in Seq(Frame)
    BY DEF NetTypeOK
  <1>2. s2c' = [s2c EXCEPT ![c] = Append(s2c[c], f)]
    BY DEF ServerWriteOk
  <1>3. s2c'[c] = Append(s2c[c], f) /\ \A d \in Conns : d # c => s2c'[d] = s2c[d]
    BY <1>2 DEF NetTypeOK
  <1>4. QED
    BY <1>1, <1>3, Grow

(* A break leaves a prefix of each stream, nothing read being lost.        *)
LEMMA BreakCuts ==
  ASSUME NetTypeOK, Echoes, CursorOK, NEW b \in Conns, Break(b)
  PROVE  /\ UNCHANGED <<nconn, srvAt, cliAt>>
         /\ net[b] = "open" /\ net'[b] = "broken"
         /\ \A c \in Conns : c # b => net'[c] = net[c]
         /\ \A c \in Conns : Len(c2s'[c]) \in srvAt[c] .. Len(c2s[c])
                          /\ \A i \in 1 .. Len(c2s'[c]) : c2s'[c][i] = c2s[c][i]
         /\ \A c \in Conns : Len(s2c'[c]) \in cliAt[c] .. Len(s2c[c])
                          /\ \A i \in 1 .. Len(s2c'[c]) : s2c'[c][i] = s2c[c][i]
  <1>1. PICK n \in srvAt[b] .. Len(c2s[b]) : c2s' = [c2s EXCEPT ![b] = SubSeq(@, 1, n)]
    BY DEF Break
  <1>2. PICK m \in cliAt[b] .. Len(s2c[b]) : s2c' = [s2c EXCEPT ![b] = SubSeq(@, 1, m)]
    BY DEF Break
  <1>3. /\ Len(SubSeq(c2s[b], 1, n)) = n
        /\ \A i \in 1 .. n : SubSeq(c2s[b], 1, n)[i] = c2s[b][i]
    BY Streams, Cut
  <1>4. /\ Len(SubSeq(s2c[b], 1, m)) = m
        /\ \A i \in 1 .. m : SubSeq(s2c[b], 1, m)[i] = s2c[b][i]
    BY Streams, Cut
  <1>5. c2s'[b] = SubSeq(c2s[b], 1, n) /\ \A c \in Conns : c # b => c2s'[c] = c2s[c]
    BY <1>1 DEF NetTypeOK
  <1>6. s2c'[b] = SubSeq(s2c[b], 1, m) /\ \A c \in Conns : c # b => s2c'[c] = s2c[c]
    BY <1>2 DEF NetTypeOK
  <1>7. \A c \in Conns : Len(c2s'[c]) \in srvAt[c] .. Len(c2s[c])
                      /\ \A i \in 1 .. Len(c2s'[c]) : c2s'[c][i] = c2s[c][i]
    <2>1. \A c \in Conns : srvAt[c] <= Len(c2s[c])
      BY DEF Echoes
    <2>2. Len(c2s'[b]) = n /\ \A i \in 1 .. n : c2s'[b][i] = c2s[b][i]
      BY <1>3, <1>5
    <2>3. ASSUME NEW c \in Conns
          PROVE  Len(c2s'[c]) \in srvAt[c] .. Len(c2s[c])
                 /\ \A i \in 1 .. Len(c2s'[c]) : c2s'[c][i] = c2s[c][i]
      <3>1. CASE c = b
        BY <2>2, <3>1
      <3>2. CASE c # b
        BY <1>5, <2>1, <3>2, Streams
      <3>3. QED
        BY <3>1, <3>2
    <2>4. QED
      BY <2>3
  <1>8. \A c \in Conns : Len(s2c'[c]) \in cliAt[c] .. Len(s2c[c])
                      /\ \A i \in 1 .. Len(s2c'[c]) : s2c'[c][i] = s2c[c][i]
    <2>1. \A c \in Conns : cliAt[c] <= Len(s2c[c])
      BY DEF CursorOK
    <2>2. Len(s2c'[b]) = m /\ \A i \in 1 .. m : s2c'[b][i] = s2c[b][i]
      BY <1>4, <1>6
    <2>3. ASSUME NEW c \in Conns
          PROVE  Len(s2c'[c]) \in cliAt[c] .. Len(s2c[c])
                 /\ \A i \in 1 .. Len(s2c'[c]) : s2c'[c][i] = s2c[c][i]
      <3>1. CASE c = b
        BY <2>2, <3>1
      <3>2. CASE c # b
        BY <1>6, <2>1, <3>2, Streams
      <3>3. QED
        BY <3>1, <3>2
    <2>4. QED
      BY <2>3
  <1>9. QED
    BY <1>7, <1>8 DEF Break, NetTypeOK

(* A dialled connection carries the hello and nothing else yet.            *)
LEMMA DialOpens ==
  ASSUME NetTypeOK, Fresh, Dial(Hello), NEW n, n = nconn + 1
  PROVE  /\ n \in Conns /\ nconn' = n
         /\ net[n] = "idle" /\ net'[n] = "open" /\ c2s[n] = <<>>
         /\ \A c \in Conns : c # n => net'[c] = net[c] /\ c2s'[c] = c2s[c]
         /\ Len(c2s'[n]) = 1 /\ c2s'[n][1] = SizeFrame
         /\ UNCHANGED <<s2c, srvAt, cliAt>>
  <1>1. n \in Conns /\ nconn' = n
    BY DEF Dial, NetTypeOK, Conns
  <1>2. c2s'[n] = Hello /\ net'[n] = "open" /\
        \A c \in Conns : c # n => net'[c] = net[c] /\ c2s'[c] = c2s[c]
    BY <1>1 DEF Dial, NetTypeOK
  <1>3. Len(Hello) = 1 /\ Hello[1] = SizeFrame
    BY DEF Hello
  <1>4. net[n] = "idle" /\ c2s[n] = <<>>
    BY <1>1 DEF Fresh, NetTypeOK
  <1>5. QED
    BY <1>1, <1>2, <1>3, <1>4 DEF Dial

(***************************************************************************)
(* The inductive invariant.                                                *)
(***************************************************************************)

\* The inductive invariant holds at the start, when nothing is dialled.
LEMMA InvInit == Init => IInv
  <1> SUFFICES ASSUME Init PROVE IInv
    OBVIOUS
  <1>1. TypeOK
    BY TypeInit
  <1>2. Fresh /\ Stream /\ Order /\ Echoes /\ CursorOK
    BY DEF Init, NetInit, ServerInit, Fresh, Stream, Order, Echoes, CursorOK
  <1>3. Progress
    BY DEF Init, NetInit, ClientInit, Progress, Started, Resetting
  <1>4. Channel /\ LastRow /\ EndIsComplete /\ GapsAreMarked /\ MarkersDelimitConnections
    BY DEF Init, NetInit, ClientInit, Channel, LastRow, EndIsComplete, GapsAreMarked,
           MarkersDelimitConnections
  <1>5. QED
    BY <1>1, <1>2, <1>3, <1>4 DEF IInv

(* Steps that touch no stream, no cursor and no handler keep what is said  *)
(* about the streams, connections that break included.                     *)
LEMMA QuietNet ==
  ASSUME IInv, UNCHANGED <<nconn, c2s, s2c, srvAt, cliAt, handler>>,
         \A c \in Conns : net'[c] = net[c] \/ (net[c] = "open" /\ net'[c] = "broken")
  PROVE  Fresh' /\ Order' /\ Echoes' /\ CursorOK'
  BY DEF IInv, Fresh, Order, Echoes, CursorOK, IsData

(* The streams stay in shape as long as the sender, once it has returned,  *)
(* stays where it was.                                                     *)
LEMMA QuietStream ==
  ASSUME IInv, UNCHANGED c2s, Returned => Returned' /\ UNCHANGED <<conn, msgId>>
  PROVE  Stream'
  BY DEF IInv, Stream, MessageAt, CloseAt, IsData, LastSent

(* Steps that leave the reader and the file alone.                         *)
LEMMA QuietReader ==
  ASSUME IInv, UNCHANGED <<s2c, cliAt, rpc, rconn, rows>>
  PROVE  LastRow' /\ GapsAreMarked' /\ MarkersDelimitConnections'
  BY DEF IInv, LastRow, GapsAreMarked, MarkersDelimitConnections, IsData, IsMarker,
     StampBefore, ConnBefore, LastConn, LastStamp

(* A step of the sender before it has returned finds the reader unfinished *)
(* or fooled by an error's text.                                           *)
LEMMA QuietEnd ==
  ASSUME IInv, UNCHANGED <<rpc, rows>>, ~Returned, spc' # "completed"
  PROVE  EndIsComplete'
  BY DEF IInv, EndIsComplete, Returned

\* A step that leaves the sender and the file alone keeps EndIsComplete.
LEMMA QuietEndReturned ==
  ASSUME IInv, UNCHANGED <<rpc, rows, spc, msgId>>
  PROVE  EndIsComplete'
  BY DEF IInv, EndIsComplete, Returned, LastSent, LastStamp

\* A step that leaves the channel and its two ends alone keeps Channel.
LEMMA QuietChannel ==
  ASSUME IInv, UNCHANGED <<reset, rpc, rconn, conn>>
  PROVE  Channel'
  BY DEF IInv, Channel

\* The end of the process breaks open connections and changes no stream.
LEMMA CloseAllNet ==
  ASSUME NetTypeOK, CloseAll
  PROVE  /\ UNCHANGED <<nconn, c2s, s2c, srvAt, cliAt>>
         /\ \A c \in Conns : net'[c] = net[c] \/ (net[c] = "open" /\ net'[c] = "broken")
  BY DEF CloseAll, NetTypeOK

(* Order and AllBefore are kept when no message is added.                  *)
LEMMA NoNewMessage ==
  ASSUME \A c \in Conns : \A i \in 1 .. Len(c2s'[c]) :
           IsData(c2s'[c][i]) => i \in 1 .. Len(c2s[c]) /\ c2s'[c][i] = c2s[c][i]
  PROVE  /\ Order => Order'
         /\ \A m \in Nat : AllBefore(m) =>
              \A c \in Conns : \A i \in 1 .. Len(c2s'[c]) :
                IsData(c2s'[c][i]) => c2s'[c][i].stamp < m
  BY DEF Order, AllBefore, IsData

(* log.Fatal on a failed dial or on a file that cannot be created.         *)
LEMMA InvFatal ==
  ASSUME IInv, TypeOK', Fatal, spc \in {"start", "loop", "reconnect"}, UNCHANGED handler
  PROVE  IInv'
  <1>1. UNCHANGED <<rpc, rconn, rows, reset, conn, msgId>> /\ spc' = "exited" /\ ~Returned
    BY DEF Fatal, readerVars, Returned
  <1>2. NetTypeOK /\ CloseAll
    BY DEF IInv, TypeOK, Fatal
  <1>3. Fresh' /\ Order' /\ Echoes' /\ CursorOK'
    BY <1>2, CloseAllNet, QuietNet
  <1>4. Stream'
    BY <1>1, <1>2, CloseAllNet, QuietStream
  <1>5. LastRow' /\ GapsAreMarked' /\ MarkersDelimitConnections' /\ EndIsComplete'
    BY <1>1, <1>2, CloseAllNet, QuietReader, QuietEnd
  <1>6. Channel'
    BY <1>1, QuietChannel
  <1>7. Progress'
    BY <1>1 DEF Progress, Started, Resetting
  <1>8. QED
    BY <1>3, <1>4, <1>5, <1>6, <1>7 DEF IInv

(* What is said of the places a stream already has holds after it grows,   *)
(* as long as the sender has not returned.                                 *)
LEMMA OldPlaces ==
  ASSUME Stream, ~Returned,
         \A c \in Conns : \A i \in 1 .. Len(c2s[c]) : c2s'[c][i] = c2s[c][i],
         NEW c \in Conns, Len(c2s[c]) \in Nat, NEW i \in 1 .. Len(c2s[c])
  PROVE  (MessageAt(c, i) /\ CloseAt(c, i))'
  <1>1. MessageAt(c, i) /\ c2s[c][i].type # "close" /\ (i = 1 => ~IsData(c2s[c][i]))
    BY DEF Stream, MessageAt, CloseAt, IsData
  <1>2. c2s'[c][i] = c2s[c][i]
    OBVIOUS
  <1>3. i # 1 => c2s'[c][i - 1] = c2s[c][i - 1]
    <2>1. i # 1 => i - 1 \in 1 .. Len(c2s[c])
      OBVIOUS
    <2>2. QED
      BY <2>1
  <1>4. QED
    BY <1>1, <1>2, <1>3 DEF MessageAt, CloseAt, IsData

(* The place after the last, told from the first two.                      *)
LEMMA NextPlace ==
  \A l \in Nat : l >= 1 =>
    l + 1 - 1 = l /\ l + 1 # 1 /\ (l + 1 = 2 <=> l = 1) /\ (l = 1 \/ l > 1)
  OBVIOUS

(* A dial adds a fresh connection, whichever of the two dials it is.       *)
LEMMA InvDial ==
  ASSUME IInv, Dial(Hello), ~Returned, UNCHANGED handler
  PROVE  Fresh' /\ Stream' /\ Order' /\ Echoes' /\ CursorOK'
  <1>0. NetTypeOK /\ Fresh /\ Stream /\ Order /\ Echoes /\ CursorOK
    BY DEF IInv, TypeOK
  <1>n. PICK n \in Nat : n = nconn + 1 /\ nconn \in Nat
    BY <1>0 DEF NetTypeOK
  <1>1. /\ n \in Conns /\ nconn' = n
        /\ net[n] = "idle" /\ net'[n] = "open" /\ c2s[n] = <<>>
        /\ \A c \in Conns : c # n => net'[c] = net[c] /\ c2s'[c] = c2s[c]
        /\ Len(c2s'[n]) = 1 /\ c2s'[n][1] = SizeFrame
        /\ UNCHANGED <<s2c, srvAt, cliAt>>
    BY <1>0, <1>n, DialOpens
  <1>2. Fresh'
    BY <1>0, <1>1, <1>n DEF Fresh
  <1>3. Stream'
    <2>1. ASSUME NEW c \in Conns, c # n, NEW i \in 1 .. Len(c2s'[c])
          PROVE  (MessageAt(c, i) /\ CloseAt(c, i))'
      <3>1. c2s'[c] = c2s[c] /\ Len(c2s[c]) \in Nat
        BY <1>0, <1>1, <2>1, Streams
      <3>2. \A d \in Conns : \A j \in 1 .. Len(c2s[d]) : c2s'[d][j] = c2s[d][j]
        BY <1>1
      <3>3. QED
        BY <1>0, <3>1, <3>2, OldPlaces
    <2>2. ASSUME NEW i \in 1 .. Len(c2s'[n])
          PROVE  (MessageAt(n, i) /\ CloseAt(n, i))'
      BY <1>1, <2>2 DEF MessageAt, CloseAt, IsData, SizeFrame
    <2>3. QED
      BY <1>1, <2>1, <2>2 DEF Stream
  <1>4. Order'
    <2>1. \A c \in Conns : \A i \in 1 .. Len(c2s'[c]) :
            IsData(c2s'[c][i]) => i \in 1 .. Len(c2s[c]) /\ c2s'[c][i] = c2s[c][i]
      BY <1>1 DEF IsData, SizeFrame
    <2>2. QED
      BY <1>0, <2>1, NoNewMessage
  <1>5. s2c[n] = <<>> /\ handler[n] = "sizing" /\ srvAt[n] = 0 /\ cliAt[n] = 0
    BY <1>0, <1>1, <1>n DEF Fresh, Echoes
  <1>6. Echoes'
    BY <1>0, <1>1, <1>5 DEF Echoes, IsData
  <1>7. CursorOK'
    BY <1>0, <1>1 DEF CursorOK
  <1>8. QED
    BY <1>2, <1>3, <1>4, <1>6, <1>7

\* main's first connection (client.go) keeps the invariant.
LEMMA InvConnect ==
  ASSUME IInv, TypeOK', Connect, UNCHANGED handler
  PROVE  IInv'
  <1>1. CASE Fatal
    BY <1>1, InvFatal DEF Connect
  <1>2. CASE ~Fatal
    <2>1. /\ Dial(Hello) /\ spc = "start" /\ spc' = "loop" /\ msgId' = 1
          /\ conn' = nconn + 1 /\ rconn' = nconn + 1 /\ UNCHANGED <<reset, rpc, rows>>
      BY <1>2 DEF Connect
    <2>2. nconn = 0 /\ conn = 0 /\ rconn = 0 /\ ~Returned /\ NetTypeOK /\ Fresh
      BY <2>1 DEF IInv, Progress, Returned, TypeOK
    <2>3. Fresh' /\ Stream' /\ Order' /\ Echoes' /\ CursorOK'
      BY <2>1, <2>2, InvDial
    <2>4. /\ nconn' = 1 /\ Len(c2s'[1]) = 1 /\ c2s'[1][1] = SizeFrame
          /\ UNCHANGED <<s2c, srvAt, cliAt>>
          /\ \A c \in Conns : c # 1 => c2s'[c] = <<>>
      BY <2>1, <2>2, DialOpens DEF Fresh, Conns
    <2>5. \A c \in Conns : \A i \in 1 .. Len(c2s'[c]) : ~IsData(c2s'[c][i])
      BY <2>4 DEF IsData, SizeFrame
    <2>6. (msgId = Stop \/ Taken(msgId))' /\ PrevId(1) = 0
      BY <2>1, StopType DEF Taken, PrevId
    <2>7. Progress'
      BY <2>1, <2>2, <2>4, <2>5, <2>6
         DEF Progress, Started, Resetting, EndsAt, AllBefore, Conns
    <2>8. Channel'
      <3>1. \A i \in 1 .. Len(reset) : reset[i] \in Conns
        BY ElementOfSeq DEF IInv, TypeOK, ClientTypeOK
      <3>2. \A i \in 1 .. Len(reset) : reset[i] \in 0 .. 0
        BY <2>2 DEF IInv, Channel
      <3>3. QED
        BY <2>1, <3>1, <3>2 DEF Channel, Conns
    <2>9. LastRow' /\ GapsAreMarked' /\ MarkersDelimitConnections'
      BY <2>1, <2>4, <2>2 DEF IInv, LastRow, GapsAreMarked, MarkersDelimitConnections,
         IsMarker, StampBefore, ConnBefore, LastConn, LastStamp, Fresh, Conns
    <2>10. EndIsComplete'
      BY <2>1, <2>2, QuietEnd
    <2>11. QED
      BY <2>3, <2>7, <2>8, <2>9, <2>10 DEF IInv
  <1>3. QED
    BY <1>1, <1>2

(* A frame written on the open connection.                                 *)
LEMMA InvGrow ==
  ASSUME conn \in Conns, IInv, Started,
         NEW f \in Frame, net[conn] = "open", ClientWriteOk(conn, f),
         UNCHANGED handler
  PROVE  Fresh' /\ Echoes' /\ CursorOK'
  <1>0. NetTypeOK /\ Fresh /\ Echoes /\ CursorOK /\ conn = nconn
    BY DEF IInv, TypeOK, Progress
  <1>1. /\ UNCHANGED <<nconn, net, s2c, srvAt, cliAt>>
        /\ \A c \in Conns :
             /\ c # conn => c2s'[c] = c2s[c]
             /\ Len(c2s[c]) <= Len(c2s'[c])
             /\ \A i \in 1 .. Len(c2s[c]) : c2s'[c][i] = c2s[c][i]
    BY <1>0, WriteGrows
  <1>2. Fresh'
    BY <1>0, <1>1 DEF Fresh, Conns, NetTypeOK
  <1>3. Echoes'
    <2>1. ASSUME NEW c \in Conns
          PROVE  /\ srvAt[c] <= Len(c2s'[c])
                 /\ \A i \in 1 .. Len(s2c[c]) : c2s'[c][i + 1] = c2s[c][i + 1]
      <3>1. /\ srvAt[c] <= Len(c2s[c]) /\ (Len(s2c[c]) > 0 => Len(s2c[c]) < srvAt[c])
            /\ srvAt[c] \in Nat /\ Len(s2c[c]) \in Nat /\ Len(c2s[c]) \in Nat
        BY <1>0, Streams DEF Echoes
      <3>2. \A i \in 1 .. Len(s2c[c]) : i + 1 \in 1 .. Len(c2s[c])
        BY <3>1
      <3>3. srvAt[c] <= Len(c2s'[c])
        <4>1. Len(c2s'[c]) \in Int
          BY <1>0, WriteGrows, Streams
        <4>2. QED
          BY <1>1, <3>1, <4>1
      <3>4. QED
        BY <1>1, <3>2, <3>3
    <2>2. ASSUME NEW c \in Conns, NEW i \in 1 .. Len(s2c[c])
          PROVE  /\ s2c[c][i].type = c2s'[c][i + 1].type
                 /\ IsData(s2c[c][i]) =>
                      /\ s2c[c][i].id = c2s'[c][i + 1].id
                      /\ s2c[c][i].stamp = c2s'[c][i + 1].stamp
      <3>1. c2s'[c][i + 1] = c2s[c][i + 1]
        BY <2>1
      <3>2. QED
        BY <1>0, <3>1 DEF Echoes, IsData
    <2>3. QED
      BY <1>0, <1>1, <2>1, <2>2 DEF Echoes, IsData
  <1>4. CursorOK'
    BY <1>0, <1>1 DEF CursorOK
  <1>5. QED
    BY <1>2, <1>3, <1>4

(* The message or the marker of an iteration, written on the open          *)
(* connection after that of the iteration before.                          *)
LEMMA InvMessage ==
  ASSUME conn \in Conns, conn \in Nat, msgId \in 1 .. IdModulus - 1,
         IInv, Started, ~Returned, net[conn] = "open",
         NEW k \in Nat, ClientWriteOk(conn, DataFrame(k, msgId)),
         UNCHANGED <<conn, msgId>>,
         AllBefore(msgId),
         NEW l \in Nat, l = Len(c2s[conn]), l >= 1,
         l = 1 => (conn = 1 /\ msgId = 1 /\ k = 1) \/ (conn > 1 /\ k = 0),
         l > 1 => /\ k = msgId
                  /\ IsData(c2s[conn][l])
                  /\ msgId = c2s[conn][l].stamp + 1
  PROVE  /\ Stream' /\ Order' /\ AllBefore(msgId + 1)' /\ EndsAt(msgId)'
         /\ Len(c2s'[conn]) >= 2
  <1>0. NetTypeOK /\ Stream /\ Order /\ Fresh /\ conn = nconn
    BY DEF IInv, TypeOK, Progress
  <1>f. PICK f \in Frame :
          f = DataFrame(k, msgId) /\ f.type = "data" /\ f.id = k /\ f.stamp = msgId
    <2>1. DataFrame(k, msgId) \in Frame
      BY Frames
    <2>2. QED
      BY <2>1 DEF DataFrame
  <1>1. /\ UNCHANGED <<nconn, net, s2c, srvAt, cliAt>>
        /\ \A c \in Conns :
             /\ c # conn => c2s'[c] = c2s[c]
             /\ \A i \in 1 .. Len(c2s[c]) : c2s'[c][i] = c2s[c][i]
             /\ \A i \in 1 .. Len(c2s'[c]) :
                  i \in 1 .. Len(c2s[c]) \/ (c = conn /\ i = l + 1)
        /\ Len(c2s'[conn]) = l + 1
        /\ c2s'[conn][l + 1] = f
    BY <1>0, <1>f, WriteGrows
  <1>2. Stream'
    <2>1. ASSUME NEW c \in Conns, NEW i \in 1 .. Len(c2s[c])
          PROVE  (MessageAt(c, i) /\ CloseAt(c, i))'
      BY <1>0, <1>1, OldPlaces, Streams
    <2>2. c2s'[conn][l] = c2s[conn][l]
      BY <1>1
    <2>3. (MessageAt(conn, l + 1) /\ CloseAt(conn, l + 1))'
      <3>1. /\ c2s'[conn][l + 1].type = "data" /\ c2s'[conn][l + 1].id = k
            /\ c2s'[conn][l + 1].stamp = msgId
        BY <1>1, <1>f
      <3>2. l + 1 - 1 = l /\ l + 1 # 1 /\ (l + 1 = 2 <=> l = 1) /\ (l = 1 \/ l > 1)
        BY NextPlace
      <3>3. CASE l = 1
        BY <3>1, <3>2, <3>3 DEF MessageAt, CloseAt, IsData
      <3>4. CASE l > 1
        BY <2>2, <3>1, <3>2, <3>4 DEF MessageAt, CloseAt, IsData
      <3>5. QED
        BY <3>2, <3>3, <3>4
    <2>4. QED
      BY <1>1, <2>1, <2>3 DEF Stream
  <1>3. \A c \in Conns : \A i \in 1 .. Len(c2s'[c]) :
          \/ i \in 1 .. Len(c2s[c]) /\ c2s'[c][i] = c2s[c][i]
          \/ c = conn /\ c2s'[c][i].stamp = msgId
    BY <1>1, <1>f
  <1>4. Order'
    <2>1. SUFFICES ASSUME NEW c \in Conns, NEW d \in Conns, c < d,
                          NEW i \in 1 .. Len(c2s'[c]), NEW j \in 1 .. Len(c2s'[d]),
                          IsData(c2s'[c][i]), IsData(c2s'[d][j])
                   PROVE  c2s'[c][i].stamp < c2s'[d][j].stamp
      BY DEF Order, IsData
    <2>2. c # conn
      <3>1. SUFFICES ASSUME c = conn PROVE FALSE
        OBVIOUS
      <3>2. Len(c2s[d]) = 0 /\ d # conn
        BY <1>0, <2>1, <3>1 DEF Fresh, Conns, NetTypeOK
      <3>3. c2s'[d] = c2s[d]
        BY <1>1, <3>2
      <3>4. QED
        BY <3>2, <3>3
    <2>3. i \in 1 .. Len(c2s[c]) /\ c2s'[c][i] = c2s[c][i]
      BY <1>3, <2>2
    <2>4. CASE d = conn /\ c2s'[d][j].stamp = msgId
      BY <2>1, <2>3, <2>4 DEF AllBefore, IsData
    <2>5. CASE j \in 1 .. Len(c2s[d]) /\ c2s'[d][j] = c2s[d][j]
      BY <1>0, <2>1, <2>3, <2>5 DEF Order, IsData
    <2>6. QED
      BY <1>3, <2>4, <2>5
  <1>5. AllBefore(msgId + 1)'
    <2>1. SUFFICES ASSUME NEW c \in Conns, NEW i \in 1 .. Len(c2s'[c]), IsData(c2s'[c][i])
                   PROVE  c2s'[c][i].stamp < msgId + 1
      BY DEF AllBefore, IsData
    <2>2. CASE c2s'[c][i].stamp = msgId
      BY <2>2
    <2>3. CASE i \in 1 .. Len(c2s[c]) /\ c2s'[c][i] = c2s[c][i]
      <3>1. c2s[c][i].stamp \in Nat /\ c2s[c][i].stamp < msgId
        BY <1>0, <2>1, <2>3, Streams DEF AllBefore, IsData
      <3>2. QED
        BY <2>3, <3>1
    <2>4. QED
      BY <1>3, <2>2, <2>3
  <1>6. EndsAt(msgId)' /\ Len(c2s'[conn]) >= 2
    BY <1>1, <1>f DEF EndsAt, IsData
  <1>7. QED
    BY <1>2, <1>4, <1>5, <1>6

(* The close frame, written on the open connection.                        *)
LEMMA InvClose ==
  ASSUME conn \in Conns, conn \in Nat, msgId \in 0 .. IdModulus - 1,
         IInv, Started, ~Returned, net[conn] = "open",
         ClientWriteOk(conn, CloseFrame), spc' = "waitReader",
         UNCHANGED <<conn, msgId>>, EndsAt(LastSent)
  PROVE  Stream' /\ Order'
  <1>0. NetTypeOK /\ Stream /\ Order
    BY DEF IInv, TypeOK
  <1>l. PICK l \in Nat : l = Len(c2s[conn])
    BY <1>0, Streams
  <1>e. /\ l = 1 => conn = 1 /\ LastSent = 0
        /\ l # 1 => l > 1 /\ IsData(c2s[conn][l]) /\ c2s[conn][l].stamp = LastSent
    BY <1>l DEF EndsAt
  <1>f. CloseFrame \in Frame /\ CloseFrame.type = "close" /\ CloseFrame.stamp = 0
    BY Frames DEF CloseFrame
  <1>1. /\ \A c \in Conns :
             /\ \A i \in 1 .. Len(c2s[c]) : c2s'[c][i] = c2s[c][i]
             /\ \A i \in 1 .. Len(c2s'[c]) :
                  i \in 1 .. Len(c2s[c]) \/ (c = conn /\ i = l + 1)
        /\ c2s'[conn][l + 1] = CloseFrame
    BY <1>0, <1>l, <1>f, WriteGrows
  <1>r. Returned' /\ LastSent' = LastSent
    BY DEF Returned, LastSent
  <1>2. Stream'
    <2>1. ASSUME NEW c \in Conns, NEW i \in 1 .. Len(c2s[c])
          PROVE  (MessageAt(c, i) /\ CloseAt(c, i))'
      BY <1>0, <1>1, OldPlaces, Streams
    <2>2. l > 1 => c2s'[conn][l] = c2s[conn][l]
      BY <1>1, <1>l
    <2>3. (MessageAt(conn, l + 1) /\ CloseAt(conn, l + 1))'
      <3>1. l + 1 - 1 = l /\ l + 1 # 1 /\ (l + 1 = 2 <=> l = 1)
        BY <1>e
      <3>2. MessageAt(conn, l + 1)'
        BY <1>1, <1>f, <3>1 DEF MessageAt, IsData
      <3>3. CloseAt(conn, l + 1)'
        <4>1. CASE l = 1
          BY <1>e, <1>r, <3>1, <4>1 DEF CloseAt
        <4>2. CASE l # 1
          BY <1>e, <1>r, <2>2, <3>1, <4>2 DEF CloseAt, IsData
        <4>3. QED
          BY <4>1, <4>2
      <3>4. QED
        BY <3>2, <3>3
    <2>4. QED
      BY <1>1, <2>1, <2>3 DEF Stream
  <1>3. Order'
    <2>1. \A c \in Conns : \A i \in 1 .. Len(c2s'[c]) :
            IsData(c2s'[c][i]) => i \in 1 .. Len(c2s[c]) /\ c2s'[c][i] = c2s[c][i]
      BY <1>1, <1>f DEF IsData
    <2>2. QED
      BY <1>0, <2>1, NoNewMessage
  <1>4. QED
    BY <1>2, <1>3


(* A write that is lost or fails leaves the network as it was.             *)
LEMMA WriteCases ==
  ASSUME conn \in Conns, NetTypeOK, NEW f, NEW ok, NEW failed, Write(f, ok, failed)
  PROVE  /\ UNCHANGED <<msgId, conn, reset, rpc, rconn, rows, stpc, sconn>>
         /\ \/ net[conn] = "open" /\ ClientWriteOk(conn, f) /\ spc' = ok
            \/ net[conn] # "open" /\ UNCHANGED netVars /\ spc' = ok
            \/ net[conn] = "broken" /\ UNCHANGED netVars /\ spc' = failed
  BY DEF Write, ClientWriteOk, WriteFails, netVars, readerVars, statsVars

(* A message or a marker, whatever becomes of it.                          *)
LEMMA InvMessageStep ==
  ASSUME conn \in Conns, conn \in Nat, msgId \in 1 .. IdModulus - 1,
         IInv, TypeOK', NEW k \in Nat, Started, ~Returned, Taken(msgId), AllBefore(msgId),
         Write(DataFrame(k, msgId), "pace", "reconnect"), UNCHANGED handler,
         NEW l \in Nat, l = Len(c2s[conn]),
         net[conn] = "open" =>
           /\ l >= 1
           /\ l = 1 => (conn = 1 /\ msgId = 1 /\ k = 1) \/ (conn > 1 /\ k = 0)
           /\ l > 1 => k = msgId /\ IsData(c2s[conn][l]) /\ msgId = c2s[conn][l].stamp + 1
  PROVE  IInv'
  <1>0. NetTypeOK /\ Progress
    BY DEF IInv, TypeOK
  <1>1. UNCHANGED <<msgId, conn, reset, rpc, rconn, rows>> /\ spc' \in {"pace", "reconnect"}
    BY <1>0, WriteCases
  <1>2. Taken(msgId)' /\ Started' /\ conn' = conn /\ msgId' = msgId
    BY <1>1 DEF Taken, Started
  <1>3. CASE net[conn] = "open"
    <2>1. ClientWriteOk(conn, DataFrame(k, msgId)) /\ spc' = "pace"
      BY <1>0, <1>3, WriteCases
    <2>2. DataFrame(k, msgId) \in Frame
      BY Frames
    <2>3. Fresh' /\ Echoes' /\ CursorOK'
      BY <1>3, <2>1, <2>2, InvGrow
    <2>4. /\ Stream' /\ Order' /\ AllBefore(msgId + 1)' /\ EndsAt(msgId)'
          /\ Len(c2s'[conn]) >= 2
      BY <1>2, <1>3, <2>1, InvMessage
    <2>5. UNCHANGED <<nconn, s2c, cliAt>>
      BY <2>1 DEF ClientWriteOk
    <2>6. Progress'
      BY <1>0, <1>1, <1>2, <2>1, <2>4, <2>5 DEF Progress, Started, Resetting
    <2>7. QED
      BY <1>1, <2>1, <2>3, <2>4, <2>5, <2>6, QuietReader, QuietEnd, QuietChannel DEF IInv
  <1>4. CASE net[conn] # "open"
    <2>1. UNCHANGED netVars /\ (spc' = "pace" \/ (spc' = "reconnect" /\ net[conn] = "broken"))
      BY <1>0, <1>4, WriteCases
    <2>2. UNCHANGED <<nconn, net, c2s, s2c, srvAt, cliAt>>
      BY <2>1 DEF netVars
    <2>3. Fresh' /\ Order' /\ Echoes' /\ CursorOK'
      BY <2>2, QuietNet
    <2>4. Stream' /\ LastRow' /\ GapsAreMarked' /\ MarkersDelimitConnections'
          /\ EndIsComplete' /\ Channel'
      BY <1>1, <2>2, QuietStream, QuietReader, QuietEnd, QuietChannel
    <2>5. AllBefore(msgId)' /\ AllBefore(msgId + 1)'
      BY <1>0, <1>2, <2>2, Streams DEF AllBefore, IsData
    <2>6. Progress'
      BY <1>0, <1>1, <1>2, <1>4, <2>1, <2>2, <2>5 DEF Progress, Started, Resetting, EndsAt
    <2>7. QED
      BY <2>3, <2>4, <2>6 DEF IInv
  <1>5. QED
    BY <1>3, <1>4

(* Facts that every step of a started client begins with.                  *)
LEMMA StartedFacts ==
  ASSUME IInv, Started
  PROVE  /\ NetTypeOK /\ ClientTypeOK /\ Progress
         /\ conn \in Conns /\ conn \in Nat /\ conn = nconn /\ conn >= 1
         /\ rconn \in Conns /\ rconn \in 1 .. conn
         /\ msgId \in 0 .. IdModulus - 1 /\ msgId \in Nat
         /\ Taken(msgId) => msgId \in 1 .. IdModulus - 1
         /\ Len(c2s[conn]) \in Nat
  <1>1. NetTypeOK /\ ClientTypeOK /\ Progress
    BY DEF IInv, TypeOK
  <1>2. Len(c2s[conn]) \in Nat
    BY <1>1, Streams DEF Progress
  <1>3. QED
    BY <1>1, <1>2 DEF Progress, Conns, ClientTypeOK, Taken

\* Sending a message (requestSender) keeps the invariant.
LEMMA InvSend ==
  ASSUME IInv, TypeOK', Send, UNCHANGED handler
  PROVE  IInv'
  <1>1. Started /\ ~Returned /\ spc = "loop" /\ msgId # Stop
    BY DEF Send, Started, Returned
  <1>2. Taken(msgId) /\ AllBefore(msgId) /\ EndsAt(PrevId(msgId))
    BY <1>1 DEF IInv, Progress
  <1>3. PrevId(msgId) = msgId - 1
    BY <1>1, <1>2, StartedFacts DEF Taken, PrevId
  <1>4. PICK l \in Nat : l = Len(c2s[conn])
    BY <1>1, StartedFacts
  <1>5. net[conn] = "open" =>
           /\ l >= 1
           /\ l = 1 => (conn = 1 /\ msgId = 1 /\ msgId = 1) \/ (conn > 1 /\ msgId = 0)
           /\ l > 1 => msgId = msgId /\ IsData(c2s[conn][l]) /\ msgId = c2s[conn][l].stamp + 1
    <2>1. conn \in Nat /\ msgId \in Nat /\ l \in Nat /\ msgId >= 1
      BY <1>1, <1>2, <1>4, StartedFacts DEF Taken
    <2>2. net[conn] = "open" => (l = 1 /\ conn = 1 /\ msgId - 1 = 0)
              \/ (l >= 2 /\ IsData(c2s[conn][l]) /\ c2s[conn][l].stamp = msgId - 1)
      BY <1>2, <1>3, <1>4 DEF EndsAt
    <2>3. QED
      BY <2>1, <2>2
  <1>6. QED
    BY <1>1, <1>2, <1>4, <1>5, StartedFacts, InvMessageStep DEF Send

\* Sending the marker after a reset keeps the invariant.
LEMMA InvResend ==
  ASSUME IInv, TypeOK', Resend, UNCHANGED handler
  PROVE  IInv'
  <1>1. Started /\ ~Returned /\ Resetting
    BY DEF Resend, Started, Returned, Resetting
  <1>2. Taken(msgId) /\ AllBefore(msgId) /\ conn > 1 /\ (net[conn] = "open" => Len(c2s[conn]) = 1)
    BY <1>1 DEF IInv, Progress
  <1>3. Write(DataFrame(0, msgId), "pace", "reconnect")
    BY DEF Resend, Marker
  <1>4. PICK l \in Nat : l = Len(c2s[conn])
    BY <1>1, StartedFacts
  <1>5. conn \in Conns /\ conn \in Nat /\ msgId \in 1 .. IdModulus - 1
    BY <1>1, <1>2, StartedFacts
  <1>6. net[conn] = "open" => l = 1 /\ conn > 1
    BY <1>2, <1>4
  <1>7. net[conn] = "open" =>
           /\ l >= 1
           /\ l = 1 => (conn = 1 /\ msgId = 1 /\ 0 = 1) \/ (conn > 1 /\ 0 = 0)
           /\ l > 1 => 0 = msgId /\ IsData(c2s[conn][l]) /\ msgId = c2s[conn][l].stamp + 1
    BY <1>5, <1>6
  <1>8. QED
    BY <1>1, <1>2, <1>3, <1>4, <1>5, <1>7, InvMessageStep

\* Dialling again after a failed write keeps the invariant.
LEMMA InvReconnect ==
  ASSUME IInv, TypeOK', Reconnect, UNCHANGED handler
  PROVE  IInv'
  <1>1. CASE Fatal
    BY <1>1, InvFatal DEF Reconnect
  <1>2. CASE ~Fatal
    <2>1. /\ Dial(Hello) /\ spc = "reconnect" /\ spc' = "push" /\ conn' = nconn + 1
          /\ UNCHANGED <<msgId, reset, rpc, rconn, rows>>
      BY <1>2 DEF Reconnect, readerVars
    <2>2. Started /\ ~Returned
      BY <2>1 DEF Started, Returned
    <2>3. Fresh' /\ Stream' /\ Order' /\ Echoes' /\ CursorOK'
      BY <2>1, <2>2, InvDial
    <2>4. /\ NetTypeOK /\ Fresh /\ conn \in Nat /\ conn >= 1 /\ conn = nconn
          /\ rconn \in 1 .. conn /\ msgId \in Nat
      BY <2>2, StartedFacts DEF IInv
    <2>5. /\ conn' \in Conns /\ nconn' = conn' /\ Len(c2s'[conn']) = 1
          /\ c2s'[conn'][1] = SizeFrame
          /\ \A c \in Conns : c # conn' => c2s'[c] = c2s[c]
          /\ UNCHANGED <<s2c, cliAt>>
      BY <2>1, <2>4, DialOpens
    <2>6. Taken(msgId) /\ AllBefore(msgId)
      BY <2>1 DEF IInv, Progress
    <2>7. Taken(msgId)' /\ AllBefore(msgId)'
      BY <2>1, <2>5, <2>6 DEF Taken, AllBefore, IsData, SizeFrame
    <2>8. Progress'
      BY <2>1, <2>4, <2>5, <2>7 DEF Progress, Started, Resetting
    <2>9. Channel'
      <3>1. Channel /\ conn' = conn + 1
        BY <2>1, <2>4 DEF IInv
      <3>2. QED
        BY <2>1, <2>4, <3>1 DEF Channel
    <2>10. LastRow' /\ GapsAreMarked' /\ MarkersDelimitConnections' /\ EndIsComplete'
      BY <2>1, <2>2, <2>5, QuietReader, QuietEnd
    <2>11. QED
      BY <2>3, <2>8, <2>9, <2>10 DEF IInv
  <1>3. QED
    BY <1>1, <1>2

(* A connection pushed to the reader, or into the channel.                 *)
LEMMA InvPush ==
  ASSUME IInv, TypeOK', Push \/ PushForStats, UNCHANGED handler
  PROVE  IInv'
  <1>1. /\ Started /\ ~Returned /\ Resetting /\ PushReset /\ spc' \in {"push2", "resend"}
        /\ UNCHANGED <<nconn, net, c2s, s2c, srvAt, cliAt, msgId, conn>>
    BY DEF Push, PushForStats, netVars, Started, Returned, Resetting
  <1>2. /\ NetTypeOK /\ ClientTypeOK /\ Progress /\ conn \in Nat /\ rconn \in 1 .. conn
        /\ conn \in Conns /\ conn = nconn
    BY <1>1, StartedFacts
  <1>3. Fresh' /\ Order' /\ Echoes' /\ CursorOK' /\ Stream'
    BY <1>1, QuietNet, QuietStream
  <1>4. AllBefore(msgId)' /\ Taken(msgId)'
    BY <1>1, <1>2 DEF Progress, AllBefore, Taken, IsData
  <1>5. /\ rconn' \in rconn .. conn /\ rconn' \in Nat /\ rows' = rows
        /\ (rpc' = "finished" <=> rpc = "finished")
    BY <1>1, <1>2 DEF PushReset, readerVars
  <1>6. Progress'
    BY <1>1, <1>2, <1>4, <1>5 DEF Progress, Started, Resetting
  <1>7. Channel'
    <2>1. CASE rpc = "blocked"
      <3>1. reset' = reset /\ Len(reset) = 0 /\ rpc' = "reading"
        BY <1>1, <2>1 DEF PushReset, IInv, Channel
      <3>2. QED
        BY <3>1 DEF Channel
    <2>2. CASE rpc # "blocked"
      <3>1. reset' = Append(reset, conn) /\ rpc' = rpc /\ rconn' = rconn
        BY <1>1, <2>2 DEF PushReset, Enqueue, readerVars
      <3>2. PICK l \in Nat : l = Len(reset)
        BY <1>2, LenProperties DEF ClientTypeOK
      <3>3. /\ Len(reset') = l + 1 /\ reset'[l + 1] = conn
            /\ \A i \in 1 .. l : reset'[i] = reset[i]
        BY <1>2, <3>1, <3>2, Grow DEF ClientTypeOK
      <3>4. \A i \in 1 .. l : reset[i] \in rconn .. conn /\ \A j \in i .. l : reset[i] <= reset[j]
        BY <3>2 DEF IInv, Channel
      <3>5. \A i \in 1 .. l + 1 : reset'[i] \in rconn .. conn
        BY <1>2, <3>3, <3>4
      <3>6. \A i \in 1 .. l + 1 : \A j \in i .. l + 1 : reset'[i] <= reset'[j]
        BY <1>2, <3>3, <3>4
      <3>7. QED
        BY <1>1, <2>2, <3>1, <3>3, <3>5, <3>6 DEF Channel
    <2>3. QED
      BY <2>1, <2>2
  <1>8. LastRow'
    <2>1. SUFFICES ASSUME rpc # "finished" PROVE LastRow'
      BY <1>5 DEF LastRow
    <2>2. LastRow /\ LastConn' = LastConn /\ LastStamp' = LastStamp
      BY <1>5 DEF IInv, LastConn, LastStamp
    <2>3. rows # <<>> => LastConn \in Nat
      BY <2>1, <2>2 DEF LastRow, Conns
    <2>4. QED
      BY <1>1, <1>2, <1>5, <2>1, <2>2, <2>3 DEF LastRow, IsData
  <1>9. GapsAreMarked' /\ MarkersDelimitConnections'
    BY <1>5 DEF IInv, GapsAreMarked, MarkersDelimitConnections, IsMarker, StampBefore,
       ConnBefore
  <1>10. EndIsComplete'
    BY <1>1, <1>5 DEF IInv, EndIsComplete, Returned
  <1>11. QED
    BY <1>3, <1>6, <1>7, <1>8, <1>9, <1>10 DEF IInv

(* Which iteration is next: one that the loop takes, or the loop's bound.  *)
LEMMA NextTaken ==
  ASSUME NEW i \in 0 .. IdModulus - 1, Taken(i)
  PROVE  /\ NextId(i) = Stop \/ (Taken(NextId(i)) /\ NextId(i) = i + 1)
         /\ PrevId(NextId(i)) = i
  <1>1. CASE i = IdModulus - 1
    <2>1. NextId(i) = 0 /\ Stop = 0
      BY <1>1, StopType DEF NextId, Taken
    <2>2. QED
      BY <1>1, <2>1 DEF PrevId
  <1>2. CASE i < IdModulus - 1
    <2>1. NextId(i) = i + 1
      BY <1>2 DEF NextId
    <2>2. QED
      BY <1>2, <2>1, StopType DEF PrevId, Taken
  <1>3. QED
    BY <1>1, <1>2

\* The end of an iteration keeps the invariant: the next one is later.
LEMMA InvPace ==
  ASSUME IInv, TypeOK', PaceElapsed, UNCHANGED handler
  PROVE  IInv'
  <1>1. /\ spc = "pace" /\ spc' = "loop" /\ msgId' = NextId(msgId)
        /\ Started /\ ~Returned
        /\ UNCHANGED <<nconn, net, c2s, s2c, srvAt, cliAt, conn, reset, rpc, rconn, rows>>
    BY DEF PaceElapsed, netVars, readerVars, Started, Returned
  <1>2. /\ Taken(msgId) /\ AllBefore(msgId + 1) /\ EndsAt(msgId) /\ Progress
        /\ msgId \in 0 .. IdModulus - 1
    BY <1>1, StartedFacts DEF Progress
  <1>3. /\ msgId' = Stop \/ (Taken(msgId') /\ msgId' = msgId + 1)
        /\ PrevId(msgId') = msgId
    BY <1>1, <1>2, NextTaken
  <1>4. Fresh' /\ Order' /\ Echoes' /\ CursorOK' /\ Stream'
    BY <1>1, QuietNet, QuietStream
  <1>5. LastRow' /\ GapsAreMarked' /\ MarkersDelimitConnections' /\ Channel' /\ EndIsComplete'
    BY <1>1, QuietReader, QuietChannel, QuietEnd
  <1>6. (msgId = Stop \/ Taken(msgId))' /\ EndsAt(PrevId(msgId))'
    BY <1>1, <1>2, <1>3 DEF EndsAt, Taken, IsData, Stop, PrevId
  <1>7. msgId' # Stop => AllBefore(msgId)'
    BY <1>1, <1>2, <1>3 DEF AllBefore, IsData
  <1>8. Progress'
    BY <1>1, <1>2, <1>6, <1>7 DEF Progress, Started, Resetting, Stop
  <1>9. QED
    BY <1>4, <1>5, <1>8 DEF IInv

(* The sender returns, its close frame written or not.                     *)
LEMMA InvReturn ==
  ASSUME IInv, TypeOK', PaceInterrupt \/ FinishLoop, UNCHANGED handler
  PROVE  IInv'
  <1>1. /\ Started /\ ~Returned /\ Write(CloseFrame, "waitReader", "waitReader")
        /\ (spc = "pace" \/ (spc = "loop" /\ msgId = Stop))
    BY DEF PaceInterrupt, FinishLoop, Return, Started, Returned
  <1>2. /\ NetTypeOK /\ Progress /\ conn \in Conns /\ conn \in Nat /\ conn = nconn
        /\ rconn \in 1 .. conn /\ msgId \in 0 .. IdModulus - 1
    BY <1>1, StartedFacts
  <1>3. EndsAt(LastSent)
    <2>1. CASE spc = "pace"
      <3>1. msgId # Stop
        BY <1>2, <2>1 DEF Progress, Taken
      <3>2. QED
        BY <1>2, <2>1, <3>1 DEF Progress, LastSent
    <2>2. CASE spc = "loop" /\ msgId = Stop
      BY <1>2, <2>2 DEF Progress, LastSent
    <2>3. QED
      BY <1>1, <2>1, <2>2
  <1>4. /\ UNCHANGED <<msgId, conn, reset, rpc, rconn, rows>>
        /\ spc' = "waitReader"
        /\ (net[conn] = "open" => ClientWriteOk(conn, CloseFrame))
        /\ (net[conn] # "open" => UNCHANGED netVars)
    BY <1>1, <1>2, WriteCases
  <1>5. Channel' /\ EndIsComplete'
    BY <1>1, <1>4, QuietChannel, QuietEnd
  <1>6. CASE net[conn] = "open"
    <2>1. ClientWriteOk(conn, CloseFrame) /\ UNCHANGED <<nconn, s2c, cliAt>>
      BY <1>4, <1>6 DEF ClientWriteOk
    <2>2. Fresh' /\ Echoes' /\ CursorOK'
      BY <1>1, <1>2, <1>6, <2>1, Frames, InvGrow
    <2>3. Stream' /\ Order'
      BY <1>1, <1>2, <1>3, <1>4, <1>6, <2>1, InvClose
    <2>4. Progress'
      BY <1>2, <1>4, <2>1 DEF Progress, Started, Resetting
    <2>5. QED
      BY <1>4, <1>5, <2>1, <2>2, <2>3, <2>4, QuietReader DEF IInv
  <1>7. CASE net[conn] # "open"
    <2>1. UNCHANGED <<nconn, net, c2s, s2c, srvAt, cliAt>>
      BY <1>4, <1>7 DEF netVars
    <2>2. Fresh' /\ Order' /\ Echoes' /\ CursorOK' /\ Stream'
      BY <1>1, <2>1, QuietNet, QuietStream
    <2>3. Progress'
      BY <1>2, <1>4, <2>1 DEF Progress, Started, Resetting
    <2>4. QED
      BY <1>4, <1>5, <2>1, <2>2, <2>3, QuietReader DEF IInv
  <1>8. QED
    BY <1>6, <1>7

\* The end of main keeps the invariant.
LEMMA InvComplete ==
  ASSUME IInv, TypeOK', Complete, UNCHANGED handler
  PROVE  IInv'
  <1>1. /\ spc = "waitReader" /\ rpc = "finished" /\ spc' = "completed" /\ CloseAll
        /\ UNCHANGED <<msgId, conn, reset, rpc, rconn, rows>>
    BY DEF Complete, readerVars
  <1>2. NetTypeOK /\ Returned /\ Returned'
    BY <1>1 DEF IInv, TypeOK, Returned
  <1>3. Fresh' /\ Order' /\ Echoes' /\ CursorOK'
    BY <1>1, <1>2, CloseAllNet, QuietNet
  <1>4. Stream' /\ LastRow' /\ GapsAreMarked' /\ MarkersDelimitConnections' /\ Channel'
    BY <1>1, <1>2, CloseAllNet, QuietStream, QuietReader, QuietChannel
  <1>5. EndIsComplete'
    BY <1>1, <1>2 DEF IInv, EndIsComplete, LastSent, LastStamp
  <1>6. Progress'
    BY <1>1 DEF Progress, Started, Resetting
  <1>7. QED
    BY <1>3, <1>4, <1>5, <1>6 DEF IInv

(* Steps that touch neither the network nor the sender, and leave the      *)
(* reader on a connection between its own and the sender's.                *)
LEMMA QuietSender ==
  ASSUME IInv, UNCHANGED <<nconn, net, c2s, s2c, srvAt, cliAt, handler, spc, msgId, conn>>,
         rconn' = rconn \/ (Started /\ rconn' \in rconn .. conn)
  PROVE  Fresh' /\ Order' /\ Echoes' /\ CursorOK' /\ Stream' /\ Progress'
  <1>1. Fresh' /\ Order' /\ Echoes' /\ CursorOK' /\ Stream'
    BY QuietNet, QuietStream DEF Returned
  <1>2. \A m : (AllBefore(m)) => \A c \in Conns : \A i \in 1 .. Len(c2s'[c]) :
                                   IsData(c2s'[c][i]) => c2s'[c][i].stamp < m
    BY DEF AllBefore, IsData
  <1>3. Progress /\ (Started => rconn \in 1 .. conn /\ conn \in Nat)
    BY StartedFacts DEF IInv
  <1>4. Started => rconn' \in 1 .. conn
    BY <1>3
  <1>5. Progress'
    BY <1>3, <1>4 DEF Progress, Started, Resetting, EndsAt, AllBefore, Taken, IsData,
       PrevId, Stop
  <1>6. QED
    BY <1>1, <1>5

\* A signal, or stats looking at its loop condition, keeps the invariant.
LEMMA InvInterrupt ==
  ASSUME IInv, TypeOK', Interrupt \/ StatsCheck, UNCHANGED handler
  PROVE  IInv'
  <1>1. UNCHANGED <<nconn, net, c2s, s2c, srvAt, cliAt, spc, msgId, conn, reset, rpc, rconn, rows>>
    BY DEF Interrupt, StatsCheck, netVars, senderVars, readerVars
  <1>2. QED
    BY <1>1, QuietSender, QuietReader, QuietChannel, QuietEndReturned DEF IInv

(* A receive by stats takes the oldest connection away from the reader.    *)
LEMMA ReceiveOrder ==
  ASSUME IInv, reset # <<>>
  PROVE  /\ Head(reset) \in rconn .. conn
         /\ \A i \in 1 .. Len(Tail(reset)) :
              /\ Tail(reset)[i] \in Head(reset) .. conn
              /\ Tail(reset)[i] \in rconn .. conn
              /\ \A j \in i .. Len(Tail(reset)) : Tail(reset)[i] <= Tail(reset)[j]
  <1>1. /\ Head(reset) = reset[1] /\ Len(reset) >= 1 /\ Len(Tail(reset)) = Len(reset) - 1
        /\ \A i \in 1 .. Len(Tail(reset)) : Tail(reset)[i] = reset[i + 1]
    BY Receive DEF IInv, TypeOK, ClientTypeOK
  <1>2. PICK l \in Nat : l = Len(reset)
    BY LenProperties DEF IInv, TypeOK, ClientTypeOK
  <1>3. \A i \in 1 .. l : reset[i] \in rconn .. conn /\ \A j \in i .. l : reset[i] <= reset[j]
    BY <1>2 DEF IInv, Channel
  <1>4. rconn \in Int /\ conn \in Int
    BY DEF IInv, TypeOK, ClientTypeOK
  <1>5. ASSUME NEW i \in 1 .. l - 1
        PROVE  reset[i + 1] \in reset[1] .. conn /\ reset[i + 1] \in rconn .. conn
               /\ \A j \in i .. l - 1 : reset[i + 1] <= reset[j + 1]
    BY <1>3, <1>4
  <1>6. QED
    BY <1>1, <1>2, <1>3, <1>5

\* Stats receiving from the channel keeps the invariant.
LEMMA InvStatsPoll ==
  ASSUME IInv, TypeOK', StatsPoll, UNCHANGED handler
  PROVE  IInv'
  <1>1. UNCHANGED <<nconn, net, c2s, s2c, srvAt, cliAt, spc, msgId, conn, rpc, rconn, rows>>
    BY DEF StatsPoll, netVars, senderVars, readerVars
  <1>2. Channel'
    <2>1. CASE reset = <<>>
      BY <1>1, <2>1, QuietChannel DEF StatsPoll
    <2>2. CASE reset # <<>>
      <3>1. reset' = Tail(reset) /\ rpc # "blocked"
        BY <2>2, Receive DEF StatsPoll, IInv, Channel, TypeOK, ClientTypeOK
      <3>2. QED
        BY <1>1, <2>2, <3>1, ReceiveOrder DEF Channel
    <2>3. QED
      BY <2>1, <2>2
  <1>3. QED
    BY <1>1, <1>2, QuietSender, QuietReader, QuietEndReturned DEF IInv

\* The reader taking a new connection keeps the invariant.
LEMMA InvTakeReset ==
  ASSUME IInv, TypeOK', TakeReset, UNCHANGED handler
  PROVE  IInv'
  <1>1. /\ Started /\ rpc = "failed" /\ rpc' \in {"reading", "blocked"}
        /\ UNCHANGED <<nconn, net, c2s, s2c, srvAt, cliAt, spc, msgId, conn, rows>>
    BY DEF TakeReset, netVars, senderVars
  <1>2. /\ ClientTypeOK /\ conn \in Nat /\ rconn \in 1 .. conn
    BY <1>1, StartedFacts
  <1>3. rconn' \in rconn .. conn
    BY <1>2, ReceiveOrder DEF TakeReset
  <1>4. Channel'
    <2>1. CASE reset = <<>>
      <3>1. rpc' = "blocked" /\ reset' = reset /\ Len(reset) = 0
        BY <2>1 DEF TakeReset
      <3>2. QED
        BY <3>1 DEF Channel
    <2>2. CASE reset # <<>>
      <3>1. reset' = Tail(reset) /\ rconn' = Head(reset) /\ rpc' = "reading"
        BY <2>2 DEF TakeReset
      <3>2. QED
        BY <1>1, <2>2, <3>1, ReceiveOrder DEF Channel
    <2>3. QED
      BY <2>1, <2>2
  <1>5. LastRow'
    <2>1. LastRow /\ LastConn' = LastConn /\ LastStamp' = LastStamp
      BY <1>1 DEF IInv, LastConn, LastStamp
    <2>2. rows # <<>> => LastConn \in Nat
      BY <1>1, <2>1 DEF LastRow, Conns
    <2>3. QED
      BY <1>1, <1>2, <1>3, <2>1, <2>2 DEF LastRow, IsData
  <1>6. GapsAreMarked' /\ MarkersDelimitConnections' /\ EndIsComplete'
    BY <1>1 DEF IInv, GapsAreMarked, MarkersDelimitConnections, IsMarker, StampBefore,
       ConnBefore, EndIsComplete
  <1>7. QED
    BY <1>1, <1>3, <1>4, <1>5, <1>6, QuietSender DEF IInv

\* A failed read keeps the invariant.
LEMMA InvReadError ==
  ASSUME IInv, TypeOK', ReadError, UNCHANGED handler
  PROVE  IInv'
  <1>1. /\ Started /\ rpc = "reading" /\ rpc' \in {"failed", "finished"}
        /\ (rpc' = "finished" => AddrHas1000)
        /\ UNCHANGED <<nconn, net, c2s, s2c, srvAt, cliAt, spc, msgId, conn, reset, rconn, rows>>
    BY DEF ReadError, MayMatch1000, netVars, senderVars
  <1>2. Channel' /\ GapsAreMarked' /\ MarkersDelimitConnections' /\ EndIsComplete' /\ LastRow'
    BY <1>1 DEF IInv, GapsAreMarked, MarkersDelimitConnections, IsMarker, StampBefore,
       ConnBefore, EndIsComplete, Channel, LastRow, LastConn, LastStamp, IsData, Started
  <1>3. QED
    BY <1>1, <1>2, QuietSender DEF IInv

(* The next reply, as the message that it answers in the client's stream:  *)
(* the one after the message behind the last row.                          *)
LEMMA ReplyAnswers ==
  ASSUME IInv, Started, NEW c \in Conns, NEW i \in 1 .. Len(s2c[c])
  PROVE  /\ i + 1 \in 1 .. Len(c2s[c])
         /\ s2c[c][i].type = c2s[c][i + 1].type
         /\ s2c[c][i].type # "size"
         /\ IsData(s2c[c][i]) =>
              /\ IsData(c2s[c][i + 1])
              /\ s2c[c][i].id = c2s[c][i + 1].id
              /\ s2c[c][i].stamp = c2s[c][i + 1].stamp
              /\ s2c[c][i].stamp \in Nat /\ s2c[c][i].id \in Nat
         /\ MessageAt(c, i + 1) /\ CloseAt(c, i + 1)
  <1>1. NetTypeOK /\ Stream /\ Echoes
    BY DEF IInv, TypeOK
  <1>2. /\ Len(s2c[c]) \in Nat /\ Len(c2s[c]) \in Nat /\ srvAt[c] \in Nat
        /\ s2c[c][i].stamp \in Nat /\ s2c[c][i].id \in Nat
    BY <1>1, Streams
  <1>3. i + 1 \in 1 .. Len(c2s[c])
    BY <1>1, <1>2 DEF Echoes
  <1>4. /\ s2c[c][i].type = c2s[c][i + 1].type
        /\ IsData(s2c[c][i]) => /\ s2c[c][i].id = c2s[c][i + 1].id
                                /\ s2c[c][i].stamp = c2s[c][i + 1].stamp
    BY <1>1 DEF Echoes
  <1>5. MessageAt(c, i + 1) /\ CloseAt(c, i + 1)
    BY <1>1, <1>3 DEF Stream
  <1>6. i + 1 # 1
    OBVIOUS
  <1>7. c2s[c][i + 1].type # "size"
    BY <1>5, <1>6 DEF MessageAt
  <1>8. QED
    BY <1>2, <1>3, <1>4, <1>5, <1>7 DEF IsData

(* The row of the next reply continues the file: it follows the last row   *)
(* on the same connection, or is the marker that opens a later one.        *)
LEMMA RowFollows ==
  ASSUME IInv, ReadReply, NextReply.type # "close",
         NEW lc, lc = IF rows = <<>> THEN 1 ELSE LastConn
  PROVE  IF NextReply.id = 0
         THEN NextReply.stamp > LastStamp /\ rconn > lc
         ELSE NextReply.id = NextReply.stamp /\ NextReply.stamp = LastStamp + 1 /\ rconn = lc
  <1>1. Started /\ rpc = "reading" /\ ClientHasFrame(rconn)
    BY DEF ReadReply
  <1>2. NetTypeOK /\ rconn \in Conns /\ rconn \in Nat /\ rconn >= 1 /\ LastRow /\ Order
    BY <1>1, StartedFacts DEF IInv, Conns
  <1>q. PICK q \in Nat : q = cliAt[rconn]
    BY <1>2, Streams
  <1>3. q + 1 \in 1 .. Len(s2c[rconn]) /\ NextReply = s2c[rconn][q + 1]
    BY <1>1, <1>2, <1>q, Streams DEF ClientHasFrame, NextReply
  <1>4. /\ q + 2 \in 1 .. Len(c2s[rconn])
        /\ IsData(NextReply) => /\ IsData(c2s[rconn][q + 2])
                                /\ NextReply.id = c2s[rconn][q + 2].id
                                /\ NextReply.stamp = c2s[rconn][q + 2].stamp
        /\ NextReply.type # "size" /\ NextReply.type = c2s[rconn][q + 2].type
        /\ MessageAt(rconn, q + 2)
        /\ IsData(NextReply) => NextReply.stamp \in Nat /\ NextReply.id \in Nat
    <2>1. q + 1 + 1 = q + 2
      OBVIOUS
    <2>2. QED
      BY <1>1, <1>2, <1>3, <2>1, ReplyAnswers
  <1>5. IsData(NextReply)
    <2>1. c2s[rconn][q + 2] \in Frame
      BY <1>2, <1>4, Streams, ElementOfSeq
    <2>2. c2s[rconn][q + 2].type \in {"size", "data", "close"}
      BY <2>1 DEF Frame
    <2>3. QED
      BY <1>4, <2>2 DEF IsData
  <1>6. PICK f : f = c2s[rconn][q + 2]
    OBVIOUS
  <1>7. f.stamp \in Nat /\ f.id \in Nat /\ NextReply.id = f.id /\ NextReply.stamp = f.stamp
    BY <1>4, <1>5, <1>6
  <1>8. q = 0 => /\ rconn = 1 => f.stamp = 1 /\ f.id = 1
                 /\ rconn > 1 => f.stamp >= 1 /\ f.id = 0
    BY <1>2, <1>4, <1>5, <1>6 DEF MessageAt
  <1>9. q > 0 => /\ IsData(c2s[rconn][q + 1]) /\ f.id = f.stamp
                 /\ f.stamp = c2s[rconn][q + 1].stamp + 1
    <2>1. q > 0 => q + 2 # 2 /\ q + 2 - 1 = q + 1
      OBVIOUS
    <2>2. QED
      BY <2>1, <1>4, <1>5, <1>6 DEF MessageAt
  <1>10. CASE rows = <<>>
    <2>1. q = 0 /\ LastStamp = 0 /\ lc = 1
      BY <1>1, <1>2, <1>q, <1>10 DEF LastRow, LastStamp
    <2>2. QED
      BY <1>2, <1>7, <1>8, <2>1
  <1>11. CASE rows # <<>>
    <2>1. PICK d \in Conns : d = LastConn /\ d <= rconn /\ d \in Nat /\ d >= 1 /\ d = lc
      BY <1>1, <1>2, <1>11 DEF LastRow, Conns
    <2>2. /\ cliAt[d] \in 1 .. Len(s2c[d]) /\ IsData(s2c[d][cliAt[d]])
          /\ LastStamp = s2c[d][cliAt[d]].stamp
      BY <1>1, <1>2, <1>11, <2>1 DEF LastRow
    <2>3. PICK p \in 1 .. Len(s2c[d]) : p = cliAt[d]
      BY <2>2
    <2>4. /\ p + 1 \in 1 .. Len(c2s[d]) /\ IsData(c2s[d][p + 1])
          /\ LastStamp = c2s[d][p + 1].stamp /\ LastStamp \in Nat
      BY <1>1, <2>2, <2>3, ReplyAnswers
    <2>5. CASE d = rconn
      <3>1. q > 0 /\ p = q
        BY <1>q, <2>3, <2>5
      <3>2. f.id = f.stamp /\ f.stamp = LastStamp + 1
        BY <1>9, <2>4, <2>5, <3>1
      <3>3. QED
        BY <1>7, <2>1, <2>4, <2>5, <3>2
    <2>6. CASE d # rconn
      <3>1. q = 0 /\ rconn > 1 /\ d < rconn
        BY <1>1, <1>2, <1>11, <1>q, <2>1, <2>6 DEF LastRow
      <3>2. LastStamp < f.stamp
        BY <1>2, <1>4, <1>5, <1>6, <2>4, <3>1 DEF Order
      <3>3. QED
        BY <1>7, <1>8, <2>1, <2>4, <3>1, <3>2
    <2>7. QED
      BY <2>5, <2>6
  <1>12. QED
    BY <1>10, <1>11

(* A row that continues the file keeps it in order.                        *)
LEMMA FileGrows ==
  ASSUME ClientTypeOK, GapsAreMarked, MarkersDelimitConnections,
         NEW f \in Frame, rconn \in Nat, rows' = Append(rows, RowOf(f)),
         NEW lc, lc = IF rows = <<>> THEN 1 ELSE LastConn,
         IF f.id = 0 THEN f.stamp > LastStamp /\ rconn > lc
         ELSE f.id = f.stamp /\ f.stamp = LastStamp + 1 /\ rconn = lc
  PROVE  /\ GapsAreMarked' /\ MarkersDelimitConnections'
         /\ rows' # <<>> /\ LastConn' = rconn /\ LastStamp' = f.stamp
  <1>1. rows \in Seq(Row) /\ RowOf(f) \in Row
    BY DEF ClientTypeOK, RowOf, Row, Frame
  <1>2. PICK r : r = RowOf(f) /\ r.id = f.id /\ r.stamp = f.stamp /\ r.conn = rconn
    BY DEF RowOf
  <1>3. PICK l \in Nat : l = Len(rows) /\ (rows = <<>> <=> l = 0)
    BY <1>1, EmptySeq, LenProperties
  <1>4. /\ Len(rows') = l + 1 /\ rows'[l + 1] = r /\ rows' # <<>>
        /\ \A i \in 1 .. l : rows'[i] = rows[i]
    BY <1>1, <1>2, <1>3, Grow
  <1>5. StampBefore(l + 1)' = LastStamp /\ ConnBefore(l + 1)' = lc
    <2>1. CASE l = 0
      BY <1>3, <2>1 DEF StampBefore, ConnBefore, LastStamp
    <2>2. CASE l > 0
      <3>1. l + 1 # 1 /\ l + 1 - 1 = l /\ rows'[l] = rows[l]
        BY <1>4, <2>2
      <3>2. QED
        BY <1>3, <2>2, <3>1 DEF StampBefore, ConnBefore, LastStamp, LastConn
    <2>3. QED
      BY <2>1, <2>2
  <1>6. ASSUME NEW i \in 1 .. l
        PROVE  /\ StampBefore(i)' = StampBefore(i) /\ ConnBefore(i)' = ConnBefore(i)
               /\ rows'[i] = rows[i]
    <2>1. i # 1 => i - 1 \in 1 .. l
      OBVIOUS
    <2>2. i # 1 => rows'[i - 1] = rows[i - 1]
      BY <1>4, <2>1
    <2>3. QED
      BY <1>4, <2>2 DEF StampBefore, ConnBefore
  <1>7. GapsAreMarked'
    <2>1. ASSUME NEW i \in 1 .. l
          PROVE  IF rows'[i].id = 0 THEN rows'[i].stamp > StampBefore(i)'
                 ELSE rows'[i].id = rows'[i].stamp /\ rows'[i].stamp = StampBefore(i)' + 1
      BY <1>3, <1>6 DEF GapsAreMarked, IsMarker
    <2>2. IF rows'[l + 1].id = 0 THEN rows'[l + 1].stamp > StampBefore(l + 1)'
          ELSE rows'[l + 1].id = rows'[l + 1].stamp
               /\ rows'[l + 1].stamp = StampBefore(l + 1)' + 1
      BY <1>2, <1>4, <1>5
    <2>3. \A i \in 1 .. l + 1 : i \in 1 .. l \/ i = l + 1
      OBVIOUS
    <2>4. QED
      BY <1>4, <2>1, <2>2, <2>3 DEF GapsAreMarked, IsMarker
  <1>8. MarkersDelimitConnections'
    <2>1. ASSUME NEW i \in 1 .. l
          PROVE  IF rows'[i].id = 0 THEN rows'[i].conn > ConnBefore(i)'
                 ELSE rows'[i].conn = ConnBefore(i)'
      BY <1>3, <1>6 DEF MarkersDelimitConnections, IsMarker
    <2>2. IF rows'[l + 1].id = 0 THEN rows'[l + 1].conn > ConnBefore(l + 1)'
          ELSE rows'[l + 1].conn = ConnBefore(l + 1)'
      BY <1>2, <1>4, <1>5
    <2>3. \A i \in 1 .. l + 1 : i \in 1 .. l \/ i = l + 1
      OBVIOUS
    <2>4. QED
      BY <1>4, <2>1, <2>2, <2>3 DEF MarkersDelimitConnections, IsMarker
  <1>9. QED
    BY <1>2, <1>4, <1>7, <1>8 DEF LastConn, LastStamp

(* The reader that sees the close frame has read every reply before it.    *)
LEMMA CloseEnds ==
  ASSUME IInv, ReadReply, NextReply.type = "close"
  PROVE  Returned /\ LastStamp = LastSent
  <1>1. Started /\ rpc = "reading" /\ ClientHasFrame(rconn)
    BY DEF ReadReply
  <1>2. /\ NetTypeOK /\ rconn \in Conns /\ rconn \in Nat /\ rconn >= 1 /\ LastRow
    BY <1>1, StartedFacts DEF IInv, Conns
  <1>q. PICK q \in Nat : q = cliAt[rconn]
    BY <1>2, Streams
  <1>3. q + 1 \in 1 .. Len(s2c[rconn]) /\ NextReply = s2c[rconn][q + 1]
    BY <1>1, <1>2, <1>q, Streams DEF ClientHasFrame, NextReply
  <1>4. c2s[rconn][q + 2].type = "close" /\ CloseAt(rconn, q + 2)
    <2>1. q + 1 + 1 = q + 2
      OBVIOUS
    <2>2. QED
      BY <1>1, <1>2, <1>3, <2>1, ReplyAnswers
  <1>5. /\ Returned /\ rconn = conn
        /\ q = 0 => rconn = 1 /\ LastSent = 0
        /\ q > 0 => IsData(c2s[rconn][q + 1]) /\ c2s[rconn][q + 1].stamp = LastSent
    <2>1. (q = 0 <=> q + 2 = 2) /\ q + 2 - 1 = q + 1
      OBVIOUS
    <2>2. QED
      BY <1>4, <2>1 DEF CloseAt
  <1>6. CASE q = 0
    <2>1. rconn = 1 /\ LastSent = 0
      BY <1>5, <1>6
    <2>2. rows = <<>>
      <3>1. SUFFICES ASSUME rows # <<>> PROVE FALSE
        OBVIOUS
      <3>2. LastConn \in Conns /\ LastConn <= 1 /\ cliAt[LastConn] >= 1
        BY <1>1, <1>2, <2>1, <3>1, Streams DEF LastRow
      <3>3. LastConn = 1
        BY <3>2 DEF Conns
      <3>4. QED
        BY <1>6, <1>q, <2>1, <3>2, <3>3
    <2>3. QED
      BY <1>5, <2>1, <2>2 DEF LastStamp
  <1>7. CASE q > 0
    <2>1. rows # <<>> /\ LastConn = rconn
      BY <1>1, <1>2, <1>7, <1>q DEF LastRow, Conns
    <2>2. LastStamp = s2c[rconn][q].stamp /\ q \in 1 .. Len(s2c[rconn]) /\ IsData(s2c[rconn][q])
      BY <1>1, <1>2, <1>q, <2>1 DEF LastRow
    <2>3. s2c[rconn][q].stamp = c2s[rconn][q + 1].stamp
      BY <1>1, <1>2, <2>2, ReplyAnswers
    <2>4. QED
      BY <1>5, <1>7, <2>2, <2>3
  <1>8. QED
    BY <1>6, <1>7

\* Reading a reply or the close frame keeps the invariant.
LEMMA InvReadReply ==
  ASSUME IInv, TypeOK', ReadReply, UNCHANGED handler
  PROVE  IInv'
  <1>1. /\ Started /\ rpc = "reading" /\ ClientHasFrame(rconn)
        /\ UNCHANGED <<nconn, net, c2s, s2c, srvAt, spc, msgId, conn, reset, rconn>>
    BY DEF ReadReply, senderVars
  <1>2. /\ NetTypeOK /\ ClientTypeOK /\ Progress /\ conn \in Nat /\ rconn \in Nat
        /\ rconn \in Conns /\ rconn \in 1 .. conn /\ conn = nconn
    BY <1>1, StartedFacts
  <1>3. /\ \A c \in Conns : c # rconn => cliAt'[c] = cliAt[c]
        /\ cliAt'[rconn] = cliAt[rconn] + 1 /\ cliAt[rconn] \in Nat
        /\ cliAt[rconn] + 1 \in 1 .. Len(s2c[rconn])
    BY <1>1, <1>2, Streams DEF ReadReply, NetTypeOK, ClientHasFrame
  <1>4. CursorOK'
    BY <1>1, <1>3 DEF IInv, CursorOK
  <1>5. Fresh'
    <2>1. Fresh /\ nconn \in Nat
      BY <1>2 DEF IInv
    <2>2. \A c \in Conns : c > nconn => c # rconn
      BY <1>2
    <2>3. QED
      BY <1>1, <1>3, <2>1, <2>2 DEF Fresh
  <1>6. Order' /\ Echoes'
    BY <1>1 DEF IInv, Order, Echoes, IsData
  <1>7. Stream'
    BY <1>1, QuietStream DEF Returned
  <1>8. Progress'
    BY <1>1, <1>2 DEF Progress, Started, Resetting, EndsAt, AllBefore, Taken, IsData,
       PrevId, Stop
  <1>9. CASE NextReply.type # "close"
    <2>1. rows' = Append(rows, RowOf(NextReply)) /\ rpc' = "reading"
      BY <1>1, <1>9 DEF ReadReply
    <2>2. PICK f \in Frame : f = NextReply
      BY <1>2, TypeRow
    <2>3. PICK lc : lc = IF rows = <<>> THEN 1 ELSE LastConn
      OBVIOUS
    <2>4. /\ GapsAreMarked' /\ MarkersDelimitConnections'
          /\ rows' # <<>> /\ LastConn' = rconn /\ LastStamp' = f.stamp
      <3>1. GapsAreMarked /\ MarkersDelimitConnections
        BY DEF IInv
      <3>2. IF f.id = 0 THEN f.stamp > LastStamp /\ rconn > lc
            ELSE f.id = f.stamp /\ f.stamp = LastStamp + 1 /\ rconn = lc
        BY <1>9, <2>2, <2>3, RowFollows
      <3>3. QED
        BY <1>2, <2>1, <2>2, <2>3, <3>1, <3>2, FileGrows
    <2>5. LastRow'
      <3>1. f = s2c[rconn][cliAt[rconn] + 1]
        BY <2>2 DEF NextReply
      <3>2. IsData(f)
        <4>1. f.type # "size" /\ f.type # "close"
          BY <1>1, <1>2, <1>3, <1>9, <2>2, <3>1, ReplyAnswers
        <4>2. QED
          BY <4>1 DEF Frame, IsData
      <3>3. \A c \in Conns : cliAt'[c] > 0 => c <= rconn
        <4>1. ASSUME NEW c \in Conns, cliAt'[c] > 0, c # rconn PROVE c <= rconn
          <5>1. cliAt[c] > 0 /\ LastRow
            BY <1>3, <4>1 DEF IInv
          <5>2. rows # <<>> /\ c <= LastConn /\ LastConn <= rconn /\ LastConn \in Conns
            BY <1>1, <5>1 DEF LastRow
          <5>3. QED
            BY <1>2, <5>2 DEF Conns
        <4>2. QED
          BY <1>2, <4>1
      <3>4. QED
        BY <1>1, <1>2, <1>3, <2>4, <3>1, <3>2, <3>3 DEF LastRow, IsData
    <2>6. Channel' /\ EndIsComplete'
      BY <1>1, <2>1 DEF IInv, Channel, EndIsComplete, Started
    <2>7. QED
      BY <1>4, <1>5, <1>6, <1>7, <1>8, <2>4, <2>5, <2>6 DEF IInv
  <1>10. CASE NextReply.type = "close"
    <2>1. rows' = rows /\ rpc' = "finished"
      BY <1>10 DEF ReadReply
    <2>2. Returned /\ LastStamp = LastSent
      BY <1>10, CloseEnds
    <2>3. EndIsComplete'
      BY <1>1, <2>1, <2>2 DEF EndIsComplete, Returned, LastStamp, LastSent, PrevId, Stop
    <2>4. Channel' /\ LastRow' /\ GapsAreMarked' /\ MarkersDelimitConnections'
      BY <1>1, <2>1 DEF IInv, Channel, LastRow, GapsAreMarked, MarkersDelimitConnections,
         IsMarker, StampBefore, ConnBefore
    <2>5. QED
      BY <1>4, <1>5, <1>6, <1>7, <1>8, <2>3, <2>4 DEF IInv
  <1>11. QED
    BY <1>9, <1>10

(* A step of a server handler: it reads the next message and answers it,   *)
(* or returns.                                                             *)
LEMMA InvServer ==
  ASSUME IInv, TypeOK', NEW b \in Conns, Server(b), UNCHANGED clientVars
  PROVE  IInv'
  <1>1. /\ UNCHANGED <<nconn, net, c2s, cliAt, spc, msgId, conn, reset, rpc, rconn, rows>>
        /\ Running(b)
    BY DEF Server, ReadSize, Echo, ReadClose, ReadFailed, clientVars, netVars, senderVars,
       readerVars
  <1>2. /\ NetTypeOK /\ Fresh /\ Stream /\ Echoes /\ CursorOK /\ Progress
        /\ ServerTypeOK
    BY DEF IInv, TypeOK
  <1>3. PICK p \in Nat : p = srvAt[b]
    BY <1>2, Streams
  <1>4. PICK n \in Nat : n = Len(s2c[b])
    BY <1>2, Streams
  <1>5. \A c \in Conns : c # b => s2c'[c] = s2c[c] /\ srvAt'[c] = srvAt[c]
                                  /\ handler'[c] = handler[c]
    BY <1>2 DEF Server, ReadSize, Echo, ReadClose, ReadFailed, ServerWriteOk, Consume,
       Handle, NetTypeOK, ServerTypeOK, netVars
  (* What happens to b itself. *)
  <1>6. \/ /\ s2c'[b] = s2c[b]
           /\ handler[b] = "sizing" /\ handler'[b] \in {"leaked", "echoing"}
           /\ p < Len(c2s[b]) /\ srvAt'[b] = p + 1
        \/ /\ s2c'[b] = s2c[b] /\ handler[b] = "echoing" /\ net[b] # "open"
           /\ handler'[b] \in {"echoing", "closed"}
           /\ p < Len(c2s[b]) /\ srvAt'[b] = p + 1
        \/ /\ s2c'[b] = s2c[b]
           /\ handler'[b] \in {"leaked", "closed"} /\ srvAt'[b] = p
        \/ /\ handler[b] = "echoing" /\ net[b] = "open"
           /\ handler'[b] \in {"echoing", "closed"}
           /\ p < Len(c2s[b]) /\ srvAt'[b] = p + 1
           /\ Len(s2c'[b]) = n + 1 /\ \A i \in 1 .. n : s2c'[b][i] = s2c[b][i]
           /\ s2c'[b][n + 1].type = c2s[b][p + 1].type
           /\ IsData(s2c'[b][n + 1]) =>
                /\ s2c'[b][n + 1].id = c2s[b][p + 1].id
                /\ s2c'[b][n + 1].stamp = c2s[b][p + 1].stamp
    <2>0. srvAt'[b] = p + 1 \/ ~Consume(b)
      BY <1>2, <1>3 DEF Consume, NetTypeOK
    <2>1. \A s : Handle(b, s) => handler'[b] = s
      BY <1>2 DEF Handle, ServerTypeOK
    <2>2. CASE ReadSize(b)
      <3>1. p = 0 /\ 1 \in 1 .. Len(c2s[b])
        BY <1>2, <1>3, <2>2, Streams DEF ReadSize, ServerHasFrame, Echoes
      <3>2. NextIn(b).type = "size"
        BY <1>2, <1>3, <3>1 DEF Stream, MessageAt, NextIn
      <3>3. QED
        BY <1>3, <2>0, <2>1, <2>2, <3>2 DEF ReadSize, ServerHasFrame
    <2>3. CASE ReadFailed(b)
      BY <1>3, <2>1, <2>3 DEF ReadFailed, netVars
    <2>4. ASSUME Echo(b) \/ ReadClose(b)
          PROVE  /\ handler[b] = "echoing" /\ p < Len(c2s[b]) /\ srvAt'[b] = p + 1
                 /\ handler'[b] \in {"echoing", "closed"}
                 /\ NextIn(b) = c2s[b][p + 1] /\ NextIn(b) \in Frame
                 /\ NextIn(b).type # "size"
      <3>1. /\ handler[b] = "echoing" /\ p < Len(c2s[b]) /\ srvAt'[b] = p + 1
            /\ handler'[b] \in {"echoing", "closed"}
        BY <1>3, <2>0, <2>1, <2>4 DEF Echo, ReadClose, ServerHasFrame
      <3>2. NextIn(b) = c2s[b][p + 1] /\ p + 1 \in 1 .. Len(c2s[b])
        BY <1>2, <1>3, <3>1, Streams DEF NextIn
      <3>3. NextIn(b) \in Frame
        BY <1>2, <3>2, Streams, ElementOfSeq
      <3>4. p >= 1 /\ MessageAt(b, p + 1)
        BY <1>2, <1>3, <3>1, <3>2 DEF Echoes, Stream
      <3>5. QED
        BY <3>1, <3>2, <3>3, <3>4 DEF MessageAt
    <2>5. CASE Echo(b)
      <3>1. Echoed(NextIn(b)) \in Frame
        BY <2>4, <2>5, Frames DEF Echoed, Frame
      <3>2. CASE net[b] = "open"
        <4>1. ServerWriteOk(b, Echoed(NextIn(b)))
          BY <2>5, <3>2 DEF Echo, WriteFails
        <4>2. /\ Len(s2c'[b]) = n + 1 /\ \A i \in 1 .. n : s2c'[b][i] = s2c[b][i]
              /\ s2c'[b][n + 1] = Echoed(NextIn(b))
          BY <1>2, <1>4, <3>1, <3>2, <4>1, ReplyGrows
        <4>3. NextIn(b).type = "data"
          BY <2>4, <2>5 DEF Echo, Frame
        <4>4. QED
          BY <2>4, <2>5, <3>2, <4>2, <4>3 DEF Echoed, DataFrame, IsData
      <3>3. CASE net[b] # "open"
        <4>1. s2c'[b] = s2c[b]
          BY <2>5, <3>3 DEF Echo, ServerWriteOk
        <4>2. QED
          BY <2>4, <2>5, <3>3, <4>1
      <3>4. QED
        BY <3>2, <3>3
    <2>6. CASE ReadClose(b)
      <3>1. ServerWriteOk(b, CloseFrame) /\ NextIn(b).type = "close" /\ CloseFrame \in Frame
        BY <2>6, Frames DEF ReadClose
      <3>2. CASE net[b] = "open"
        <4>1. /\ Len(s2c'[b]) = n + 1 /\ \A i \in 1 .. n : s2c'[b][i] = s2c[b][i]
              /\ s2c'[b][n + 1] = CloseFrame
          BY <1>2, <1>4, <3>1, <3>2, ReplyGrows
        <4>2. QED
          BY <2>4, <2>6, <3>1, <3>2, <4>1 DEF CloseFrame, IsData
      <3>3. CASE net[b] # "open"
        <4>1. s2c'[b] = s2c[b]
          BY <3>1, <3>3 DEF ServerWriteOk
        <4>2. QED
          BY <2>4, <2>6, <3>3, <4>1
      <3>4. QED
        BY <3>2, <3>3
    <2>7. QED
      BY <2>2, <2>3, <2>5, <2>6 DEF Server
  (* The replies there were are still there. *)
  <1>7. \A c \in Conns : /\ Len(s2c[c]) <= Len(s2c'[c])
                         /\ \A i \in 1 .. Len(s2c[c]) : s2c'[c][i] = s2c[c][i]
    <2>1. ASSUME NEW c \in Conns
          PROVE  /\ Len(s2c[c]) <= Len(s2c'[c])
                 /\ \A i \in 1 .. Len(s2c[c]) : s2c'[c][i] = s2c[c][i]
      <3>1. Len(s2c[c]) \in Nat
        BY <1>2, Streams
      <3>2. CASE c = b
        BY <1>4, <1>6, <3>1, <3>2
      <3>3. CASE c # b
        BY <1>5, <3>1, <3>3
      <3>4. QED
        BY <3>2, <3>3
    <2>2. QED
      BY <2>1
  <1>8. Fresh'
    <2>1. ASSUME NEW c \in Conns, c > nconn PROVE c # b
      BY <1>1, <1>2, <2>1 DEF Fresh, Running
    <2>2. QED
      BY <1>1, <1>2, <1>5, <2>1 DEF Fresh
  <1>9. Echoes'
    <2>1. ASSUME NEW c \in Conns
          PROVE  (/\ srvAt[c] <= Len(c2s[c])
                  /\ Len(s2c[c]) > 0 => Len(s2c[c]) < srvAt[c]
                  /\ handler[c] = "sizing" => srvAt[c] = 0
                  /\ handler[c] = "echoing" =>
                       srvAt[c] >= 1 /\ (net[c] = "open" => srvAt[c] = Len(s2c[c]) + 1)
                  /\ \A i \in 1 .. Len(s2c[c]) :
                       /\ s2c[c][i].type = c2s[c][i + 1].type
                       /\ s2c[c][i].type = "data" =>
                            /\ s2c[c][i].id = c2s[c][i + 1].id
                            /\ s2c[c][i].stamp = c2s[c][i + 1].stamp)'
      <3>1. CASE c # b
        BY <1>1, <1>2, <1>5, <2>1, <3>1 DEF Echoes, IsData
      <3>2. CASE c = b
        <4>1. /\ p <= Len(c2s[b]) /\ (n > 0 => n < p) /\ Len(c2s[b]) \in Nat
              /\ handler[b] = "sizing" => p = 0
              /\ handler[b] = "echoing" => p >= 1 /\ (net[b] = "open" => p = n + 1)
              /\ \A i \in 1 .. n :
                   /\ s2c[b][i].type = c2s[b][i + 1].type
                   /\ IsData(s2c[b][i]) =>
                        /\ s2c[b][i].id = c2s[b][i + 1].id
                        /\ s2c[b][i].stamp = c2s[b][i + 1].stamp
          BY <1>2, <1>3, <1>4, Streams DEF Echoes
        <4>2. CASE s2c'[b] = s2c[b] /\ srvAt'[b] = p
          BY <1>1, <1>4, <1>6, <3>2, <4>1, <4>2 DEF IsData
        <4>3. CASE s2c'[b] = s2c[b] /\ srvAt'[b] = p + 1 /\ p < Len(c2s[b])
          BY <1>1, <1>4, <1>6, <3>2, <4>1, <4>3 DEF IsData
        <4>4. CASE s2c'[b] # s2c[b]
          <5>1. /\ handler[b] = "echoing" /\ net[b] = "open" /\ p = n + 1
                /\ handler'[b] \in {"echoing", "closed"}
                /\ p < Len(c2s[b]) /\ srvAt'[b] = p + 1
                /\ Len(s2c'[b]) = n + 1 /\ \A i \in 1 .. n : s2c'[b][i] = s2c[b][i]
                /\ s2c'[b][n + 1].type = c2s[b][p + 1].type
                /\ IsData(s2c'[b][n + 1]) =>
                     /\ s2c'[b][n + 1].id = c2s[b][p + 1].id
                     /\ s2c'[b][n + 1].stamp = c2s[b][p + 1].stamp
            BY <1>6, <4>1, <4>4
          <5>2. ASSUME NEW i \in 1 .. n + 1
                PROVE  /\ s2c'[b][i].type = c2s[b][i + 1].type
                       /\ IsData(s2c'[b][i]) =>
                            /\ s2c'[b][i].id = c2s[b][i + 1].id
                            /\ s2c'[b][i].stamp = c2s[b][i + 1].stamp
            <6>1. CASE i = n + 1
              BY <5>1, <6>1
            <6>2. CASE i # n + 1
              <7>1. i \in 1 .. n /\ s2c'[b][i] = s2c[b][i]
                BY <5>1, <6>2
              <7>2. QED
                BY <4>1, <7>1
            <6>3. QED
              BY <6>1, <6>2
          <5>3. QED
            BY <1>1, <3>2, <4>1, <5>1, <5>2 DEF IsData
        <4>5. QED
          BY <1>6, <4>2, <4>3, <4>4
      <3>3. QED
        BY <3>1, <3>2
    <2>2. QED
      BY <2>1 DEF Echoes, IsData
  <1>10. CursorOK'
    <2>1. ASSUME NEW c \in Conns PROVE cliAt[c] <= Len(s2c'[c])
      <3>1. /\ cliAt[c] \in Nat /\ Len(s2c[c]) \in Nat /\ Len(s2c[c]) <= Len(s2c'[c])
            /\ cliAt[c] <= Len(s2c[c]) /\ Len(s2c'[c]) \in Int
        BY <1>2, <1>4, <1>5, <1>6, <1>7, Streams DEF CursorOK
      <3>2. QED
        BY <3>1
    <2>2. QED
      BY <1>1, <2>1 DEF CursorOK
  <1>11. LastRow'
    <2>1. SUFFICES ASSUME rpc # "finished", LastRow PROVE LastRow'
      BY <1>1 DEF LastRow, IInv
    <2>2. LastConn' = LastConn /\ LastStamp' = LastStamp
      BY <1>1 DEF LastConn, LastStamp
    <2>3. ASSUME rows # <<>>, NEW d \in Conns, d = LastConn
          PROVE  cliAt[d] \in 1 .. Len(s2c'[d]) /\ s2c'[d][cliAt[d]] = s2c[d][cliAt[d]]
      <3>1. cliAt[d] \in 1 .. Len(s2c[d]) /\ Len(s2c[d]) \in Nat /\ Len(s2c'[d]) \in Nat
        BY <1>2, <1>4, <1>5, <1>6, <2>1, <2>3, Streams DEF LastRow
      <3>2. QED
        BY <1>7, <3>1
    <2>4. QED
      BY <1>1, <2>1, <2>2, <2>3 DEF LastRow, IsData
  <1>12. Order' /\ Stream'
    BY <1>1, QuietStream DEF IInv, Order, IsData, Returned
  <1>13. Progress'
    BY <1>1, <1>2 DEF Progress, Started, Resetting, EndsAt, AllBefore, Taken, IsData,
       PrevId, Stop
  <1>14. Channel' /\ EndIsComplete' /\ GapsAreMarked' /\ MarkersDelimitConnections'
    BY <1>1 DEF IInv, Channel, EndIsComplete, GapsAreMarked, MarkersDelimitConnections,
       IsMarker, StampBefore, ConnBefore, Returned, LastStamp, LastSent, PrevId, Stop
  <1>15. QED
    BY <1>8, <1>9, <1>10, <1>11, <1>12, <1>13, <1>14 DEF IInv

(* A break takes from the ends of the streams only what nobody has read.   *)
LEMMA InvBreak ==
  ASSUME IInv, TypeOK', NEW b \in Conns, Break(b), UNCHANGED <<clientVars, handler>>
  PROVE  IInv'
  <1>1. UNCHANGED <<spc, msgId, conn, reset, rpc, rconn, rows, handler>>
    BY DEF clientVars, senderVars, readerVars
  <1>2. /\ NetTypeOK /\ Fresh /\ Stream /\ Order /\ Echoes /\ CursorOK /\ Progress /\ LastRow
    BY DEF IInv, TypeOK
  <1>3. /\ UNCHANGED <<nconn, srvAt, cliAt>>
        /\ net[b] = "open" /\ net'[b] = "broken"
        /\ \A c \in Conns : c # b => net'[c] = net[c]
        /\ \A c \in Conns : Len(c2s'[c]) \in srvAt[c] .. Len(c2s[c])
                         /\ \A i \in 1 .. Len(c2s'[c]) : c2s'[c][i] = c2s[c][i]
        /\ \A c \in Conns : Len(s2c'[c]) \in cliAt[c] .. Len(s2c[c])
                         /\ \A i \in 1 .. Len(s2c'[c]) : s2c'[c][i] = s2c[c][i]
    BY <1>2, BreakCuts
  <1>4. \A c \in Conns : c # b => c2s'[c] = c2s[c] /\ s2c'[c] = s2c[c]
    BY <1>2 DEF Break, NetTypeOK
  <1>5. \A c \in Conns :
          /\ srvAt[c] \in Nat /\ cliAt[c] \in Nat /\ Len(c2s[c]) \in Nat /\ Len(s2c[c]) \in Nat
          /\ Len(c2s'[c]) \in Nat /\ Len(s2c'[c]) \in Nat
          /\ Len(c2s'[c]) <= Len(c2s[c]) /\ Len(s2c'[c]) <= Len(s2c[c])
          /\ srvAt[c] <= Len(c2s'[c]) /\ cliAt[c] <= Len(s2c'[c])
    BY <1>2, <1>3, Streams
  <1>6. \A c \in Conns : \A i \in 1 .. Len(c2s'[c]) :
          i \in 1 .. Len(c2s[c]) /\ c2s'[c][i] = c2s[c][i]
    BY <1>3, <1>5
  <1>7. \A c \in Conns : \A i \in 1 .. Len(s2c'[c]) :
          i \in 1 .. Len(s2c[c]) /\ s2c'[c][i] = s2c[c][i]
    BY <1>3, <1>5
  <1>8. Fresh'
    <2>1. nconn \in Nat /\ b <= nconn
      BY <1>2, <1>3 DEF Fresh, NetTypeOK, Conns
    <2>2. \A c \in Conns : c > nconn => c # b
      BY <2>1 DEF Conns
    <2>3. QED
      BY <1>1, <1>2, <1>3, <1>4, <2>2 DEF Fresh
  <1>9. Stream'
    <2>1. ASSUME NEW c \in Conns, NEW i \in 1 .. Len(c2s'[c])
          PROVE  (MessageAt(c, i) /\ CloseAt(c, i))'
      <3>1. i \in 1 .. Len(c2s[c]) /\ c2s'[c][i] = c2s[c][i] /\ i \in Nat /\ i >= 1
        BY <1>6, <2>1
      <3>2. MessageAt(c, i) /\ CloseAt(c, i)
        BY <1>2, <3>1 DEF Stream
      <3>3. i # 1 => c2s'[c][i - 1] = c2s[c][i - 1]
        <4>1. i # 1 => i - 1 \in 1 .. Len(c2s'[c])
          BY <1>5, <2>1
        <4>2. QED
          BY <1>6, <4>1
      <3>4. i = 1 => ~IsData(c2s[c][i]) /\ c2s[c][i].type # "close"
        BY <3>2 DEF MessageAt, IsData
      <3>5. Returned' = Returned /\ LastSent' = LastSent /\ conn' = conn
        BY <1>1 DEF Returned, LastSent, PrevId, Stop
      <3>6. MessageAt(c, i)'
        BY <3>1, <3>2, <3>3, <3>4 DEF MessageAt, IsData
      <3>7. CloseAt(c, i)'
        BY <3>1, <3>2, <3>3, <3>4, <3>5 DEF CloseAt, IsData
      <3>8. QED
        BY <3>6, <3>7
    <2>2. QED
      BY <2>1 DEF Stream
  <1>10. Order'
    <2>1. \A c \in Conns : \A i \in 1 .. Len(c2s'[c]) :
            IsData(c2s'[c][i]) => i \in 1 .. Len(c2s[c]) /\ c2s'[c][i] = c2s[c][i]
      BY <1>6
    <2>2. QED
      BY <1>2, <2>1, NoNewMessage
  <1>11. \A m : AllBefore(m) => AllBefore(m)'
    BY <1>6 DEF AllBefore, IsData
  <1>12. Progress'
    <2>a. Started => conn \in Conns
      BY <1>2 DEF Progress
    <2>b. Started => /\ net'[conn] = "open" => net[conn] = "open" /\ c2s'[conn] = c2s[conn]
                     /\ net[conn] = "broken" => net'[conn] = "broken"
      BY <1>3, <1>4, <2>a
    <2>1. Started => (EndsAt(msgId) => EndsAt(msgId)')
      BY <1>1, <2>b DEF EndsAt, IsData
    <2>2. Started => (EndsAt(PrevId(msgId)) => EndsAt(PrevId(msgId))')
      BY <1>1, <2>b DEF EndsAt, IsData, PrevId
    <2>3. AllBefore(msgId) => AllBefore(msgId)'
      BY <1>1, <1>6 DEF AllBefore, IsData
    <2>4. AllBefore(msgId + 1) => AllBefore(msgId + 1)'
      BY <1>1, <1>6 DEF AllBefore, IsData
    <2>5. Taken(msgId) => Taken(msgId)'
      BY <1>1 DEF Taken, Stop
    <2>6. (Started <=> Started') /\ (Resetting <=> Resetting') /\ Stop' = Stop
      BY <1>1 DEF Started, Resetting, Stop
    <2>9. /\ spc \in {"loop", "pace", "reconnect"} => Started
          /\ Resetting => Started
      BY DEF Started, Resetting
    <2>10. QED
      BY <1>1, <1>2, <1>3, <2>1, <2>2, <2>3, <2>4, <2>5, <2>6, <2>b, <2>9 DEF Progress
  <1>13. Echoes'
    <2>1. ASSUME NEW c \in Conns
          PROVE  (/\ srvAt[c] <= Len(c2s[c])
                  /\ Len(s2c[c]) > 0 => Len(s2c[c]) < srvAt[c]
                  /\ handler[c] = "sizing" => srvAt[c] = 0
                  /\ handler[c] = "echoing" =>
                       srvAt[c] >= 1 /\ (net[c] = "open" => srvAt[c] = Len(s2c[c]) + 1))'
      <3>1. CASE c = b
        BY <1>1, <1>2, <1>3, <1>5, <3>1 DEF Echoes
      <3>2. CASE c # b
        BY <1>1, <1>2, <1>3, <1>4, <1>5, <3>2 DEF Echoes
      <3>3. QED
        BY <3>1, <3>2
    <2>2. ASSUME NEW c \in Conns, NEW i \in 1 .. Len(s2c'[c])
          PROVE  /\ s2c'[c][i].type = c2s'[c][i + 1].type
                 /\ IsData(s2c'[c][i]) =>
                      /\ s2c'[c][i].id = c2s'[c][i + 1].id
                      /\ s2c'[c][i].stamp = c2s'[c][i + 1].stamp
      <3>1. i \in 1 .. Len(s2c[c]) /\ s2c'[c][i] = s2c[c][i] /\ i \in Nat /\ i >= 1
        BY <1>7, <2>2
      <3>2. i + 1 \in 1 .. Len(c2s'[c])
        BY <1>2, <1>5, <3>1 DEF Echoes
      <3>3. c2s'[c][i + 1] = c2s[c][i + 1]
        BY <1>6, <3>2
      <3>4. QED
        BY <1>2, <3>1, <3>3 DEF Echoes
    <2>3. QED
      BY <2>1, <2>2 DEF Echoes, IsData
  <1>14. CursorOK'
    BY <1>3, <1>5 DEF CursorOK
  <1>15. LastRow'
    <2>1. LastConn' = LastConn /\ LastStamp' = LastStamp
      BY <1>1 DEF LastConn, LastStamp
    <2>2. ASSUME rpc # "finished", rows # <<>>, NEW d \in Conns, d = LastConn
          PROVE  cliAt[d] \in 1 .. Len(s2c'[d]) /\ s2c'[d][cliAt[d]] = s2c[d][cliAt[d]]
      <3>1. cliAt[d] >= 1
        BY <1>2, <1>5, <2>2 DEF LastRow
      <3>2. cliAt[d] \in 1 .. Len(s2c'[d])
        BY <1>5, <3>1
      <3>3. QED
        BY <1>7, <3>2
    <2>3. QED
      BY <1>1, <1>2, <1>3, <2>1, <2>2 DEF LastRow, IsData
  <1>16. Channel' /\ EndIsComplete' /\ GapsAreMarked' /\ MarkersDelimitConnections'
    BY <1>1 DEF IInv, Channel, EndIsComplete, GapsAreMarked, MarkersDelimitConnections,
       IsMarker, StampBefore, ConnBefore, Returned, LastStamp, LastSent, PrevId, Stop
  <1>17. QED
    BY <1>8, <1>9, <1>10, <1>12, <1>13, <1>14, <1>15, <1>16 DEF IInv

(* The invariant is inductive.                                             *)
LEMMA InvNext == IInv /\ [Next]_vars => IInv'
  <1> SUFFICES ASSUME IInv, [Next]_vars PROVE IInv'
    OBVIOUS
  <1>1. TypeOK'
    BY TypeNext DEF IInv
  <1>2. CASE UNCHANGED vars
    <2>1. /\ UNCHANGED <<nconn, net, c2s, s2c, srvAt, cliAt, handler>>
          /\ UNCHANGED <<spc, msgId, conn, reset, rpc, rconn, rows>>
      BY <1>2 DEF vars, netVars, clientVars, senderVars, readerVars
    <2>2. QED
      BY <1>1, <2>1, QuietSender, QuietReader, QuietChannel, QuietEndReturned DEF IInv
  <1>3. CASE ClientStep
    <2>1. UNCHANGED handler
      BY <1>3 DEF ClientStep
    <2>2. CASE Sender
      <3>1. CASE CreateFails
        BY <1>1, <2>1, <3>1, InvFatal DEF CreateFails
      <3>2. QED
        BY <1>1, <2>1, <2>2, <3>1, InvConnect, InvSend, InvReconnect, InvPush,
           InvResend, InvPace, InvReturn, InvComplete DEF Sender
    <2>3. CASE Reader
      BY <1>1, <2>1, <2>3, InvReadReply, InvReadError, InvTakeReset DEF Reader
    <2>4. CASE Stats
      BY <1>1, <2>1, <2>4, InvInterrupt, InvStatsPoll DEF Stats
    <2>5. CASE Interrupt
      BY <1>1, <2>1, <2>5, InvInterrupt
    <2>6. QED
      BY <1>3, <2>2, <2>3, <2>4, <2>5 DEF ClientStep
  <1>4. CASE ServerStep
    BY <1>1, <1>4, InvServer DEF ServerStep
  <1>5. CASE NetStep
    BY <1>1, <1>5, InvBreak DEF NetStep
  <1>6. QED
    BY <1>2, <1>3, <1>4, <1>5 DEF Next

(***************************************************************************)
(* What follows from it.                                                   *)
(***************************************************************************)

(* The streams, the sender's place and the file agree in every state.      *)
THEOREM Invariant == Spec => []IInv
  BY InvInit, InvNext, PTL DEF Spec

(* No iteration is missing from the file without a marker row in its       *)
(* place, whatever breaks and whenever.                                    *)
THEOREM GapsAreMarkedCorrect == Spec => []GapsAreMarked
  <1>1. IInv => GapsAreMarked
    BY DEF IInv
  <1>2. QED
    BY <1>1, Invariant, PTL

(* The measurements of two connections never run into each other.          *)
THEOREM MarkersDelimitCorrect == Spec => []MarkersDelimitConnections
  <1>1. IInv => MarkersDelimitConnections
    BY DEF IInv
  <1>2. QED
    BY <1>1, Invariant, PTL

(* A client that reports completion has every iteration it sent on file,   *)
(* provided that no network error's text holds "1000".                     *)
THEOREM CompletedCorrect ==
  ASSUME ~AddrHas1000
  PROVE  Spec => []CompletedIsComplete
  <1>1. IInv => CompletedIsComplete
    BY DEF IInv, EndIsComplete, CompletedIsComplete
  <1>2. QED
    BY <1>1, Invariant, PTL

(* The server takes its response size from connect()'s message, and no     *)
(* measurement is lost to it, on every connection.                         *)
THEOREM SizeReadFirstCorrect == Spec => []SizeReadFirst
  <1>1. IInv => SizeReadFirst
    <2> SUFFICES ASSUME IInv, NEW c \in Conns, NEW i \in 1 .. srvAt[c]
                 PROVE  (c2s[c][i].type = "size") <=> (i = 1)
      BY DEF SizeReadFirst
    <2>1. i \in 1 .. Len(c2s[c])
      BY Streams DEF IInv, TypeOK, Echoes
    <2>2. QED
      BY <2>1 DEF IInv, Stream, MessageAt
  <1>2. QED
    BY <1>1, Invariant, PTL

=============================================================================
