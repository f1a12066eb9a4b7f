--------------------------- MODULE WsPromiseProofs ---------------------------
(***************************************************************************)
(* What the WebSocket client promises: its file, row by row, is one that   *)
(* RttCsv allows, and without -tcpStats the channel `reset` hands every    *)
(* connection to the reader, in order, for any number of breaks.           *)
(***************************************************************************)
EXTENDS WsProofs

(***************************************************************************)
(* The file: WsSystem implements RttCsv under the mapping of WsSystem!Csv. *)
(***************************************************************************)

CsvRow == [stamp : Nat, marker : BOOLEAN]

\* What a row of the file is in RttCsv.
View(r) == [stamp |-> r.stamp, marker |-> r.id = 0]

(* A row's view is a row of RttCsv.                                        *)
LEMMA ViewType ==
  ASSUME NEW r, r.stamp \in Nat
  PROVE  View(r) \in CsvRow /\ View(r).stamp = r.stamp
  <1>1. PICK b \in BOOLEAN : b <=> r.id = 0
    OBVIOUS
  <1>2. View(r) = [stamp |-> r.stamp, marker |-> b]
    BY <1>1 DEF View
  <1>3. QED
    BY <1>2 DEF CsvRow

\* The mapped file has a row for each row of the file.
RowByRow ==
  /\ CsvRows \in Seq(CsvRow) /\ Len(CsvRows) = Len(rows) /\ Len(rows) \in Nat
  /\ rows = <<>> <=> CsvRows = <<>>
  /\ \A i \in 1 .. Len(rows) :
       CsvRows[i] = View(rows[i]) /\ CsvRows[i].stamp = rows[i].stamp

(* It has, whenever the file is a file.                                    *)
LEMMA CsvRowsSeq == ClientTypeOK => RowByRow
  <1> SUFFICES ASSUME ClientTypeOK PROVE RowByRow
    OBVIOUS
  <1>1. rows \in Seq(Row) /\ Len(rows) \in Nat /\ (rows = <<>> <=> Len(rows) = 0)
    BY EmptySeq, LenProperties DEF ClientTypeOK
  <1>2. PICK l \in Nat : l = Len(rows)
    BY <1>1
  <1>3. \A i \in 1 .. l : rows[i].stamp \in Nat
    <2>1. \A i \in 1 .. l : rows[i] \in Row
      BY <1>1, <1>2, ElementOfSeq
    <2>2. QED
      BY <2>1 DEF Row
  <1>4. CsvRows = [i \in 1 .. l |-> View(rows[i])]
    BY <1>2 DEF CsvRows, IsMarker, View
  <1>5. \A i \in 1 .. l : CsvRows[i] = View(rows[i])
    BY <1>4
  <1>6. \A i \in 1 .. l : CsvRows[i] \in CsvRow /\ CsvRows[i].stamp = rows[i].stamp
    BY <1>3, <1>5, ViewType
  <1>7. CsvRows \in [1 .. l -> CsvRow]
    BY <1>4, <1>6
  <1>8. CsvRows \in Seq(CsvRow) /\ Len(CsvRows) = l
    BY <1>7
  <1>9. CsvRows = <<>> <=> l = 0
    BY <1>8, EmptySeq
  <1>10. QED
    BY <1>1, <1>2, <1>5, <1>6, <1>8, <1>9 DEF RowByRow

(* The last row is mapped to the last row.                                 *)
LEMMA CsvLast ==
  ASSUME ClientTypeOK
  PROVE  Csv!LastStamp = LastStamp
  <1>1. CASE rows = <<>>
    BY <1>1, CsvRowsSeq DEF RowByRow, Csv!LastStamp, LastStamp
  <1>2. CASE rows # <<>>
    <2>1. Len(rows) \in 1 .. Len(rows)
      BY <1>2, EmptySeq DEF ClientTypeOK
    <2>2. CsvRows[Len(rows)].stamp = rows[Len(rows)].stamp
      BY <2>1, CsvRowsSeq DEF RowByRow
    <2>3. QED
      BY <1>2, <2>2, CsvRowsSeq DEF RowByRow, Csv!LastStamp, LastStamp
  <1>3. QED
    BY <1>1, <1>2

(* A row appended to the file is a row appended to the mapped one.         *)
LEMMA CsvAppend ==
  ASSUME ClientTypeOK, ClientTypeOK', NEW r \in Row, rows' = Append(rows, r)
  PROVE  CsvRows' = Append(CsvRows, View(r))
  <1>1. /\ CsvRows \in Seq(CsvRow) /\ Len(CsvRows) = Len(rows) /\ Len(rows) \in Nat
        /\ \A i \in 1 .. Len(rows) : CsvRows[i] = View(rows[i])
    BY CsvRowsSeq DEF RowByRow
  <1>2. /\ CsvRows' \in Seq(CsvRow) /\ Len(CsvRows') = Len(rows')
        /\ \A i \in 1 .. Len(rows') : CsvRows'[i] = View(rows'[i])
    <2>1. ClientTypeOK' => RowByRow'
      BY CsvRowsSeq, PTL
    <2>2. QED
      BY <2>1 DEF RowByRow
  <1>3. PICK l \in Nat : l = Len(rows)
    BY <1>1
  <1>4. /\ Len(rows') = l + 1 /\ rows'[l + 1] = r
        /\ \A i \in 1 .. l : rows'[i] = rows[i]
    BY <1>3, Grow DEF ClientTypeOK
  <1>5. View(r) \in CsvRow
    BY ViewType DEF Row
  <1>6. /\ Append(CsvRows, View(r)) \in Seq(CsvRow)
        /\ Len(Append(CsvRows, View(r))) = l + 1
        /\ \A i \in 1 .. l : Append(CsvRows, View(r))[i] = CsvRows[i]
        /\ Append(CsvRows, View(r))[l + 1] = View(r)
    BY <1>1, <1>3, <1>5, Grow
  <1>7. ASSUME NEW i \in 1 .. l + 1 PROVE CsvRows'[i] = Append(CsvRows, View(r))[i]
    <2>1. CASE i = l + 1
      BY <1>2, <1>4, <1>6, <2>1
    <2>2. CASE i # l + 1
      <3>1. i \in 1 .. l
        BY <2>2
      <3>2. QED
        BY <1>1, <1>2, <1>3, <1>4, <1>6, <3>1
    <2>3. QED
      BY <2>1, <2>2
  <1>8. QED
    BY <1>2, <1>4, <1>6, <1>7, SeqEqual

(* The initial states map to the empty, open file.                         *)
LEMMA CsvInit == Init => Csv!Init
  <1> SUFFICES ASSUME Init PROVE Csv!Init
    OBVIOUS
  <1>1. ClientTypeOK /\ rows = <<>> /\ ~ClosedFile
    BY TypeInit DEF TypeOK, Init, ClientInit, ClosedFile
  <1>2. QED
    BY <1>1, CsvRowsSeq DEF RowByRow, Csv!Init

(* The reader's step on a reply is a Measure or a Mark.                    *)
LEMMA CsvReply ==
  ASSUME IInv, TypeOK', ReadReply, NextReply.type # "close"
  PROVE  Csv!Measure \/ Csv!Mark
  <1>1. /\ Started /\ rpc = "reading" /\ rpc' = "reading" /\ spc' = spc
        /\ rows' = Append(rows, RowOf(NextReply))
    BY DEF ReadReply, senderVars
  <1>2. NetTypeOK /\ ClientTypeOK /\ ClientTypeOK'
    BY DEF IInv, TypeOK
  <1>3. ~ClosedFile /\ ClosedFile' = ClosedFile
    <2>1. rpc' = rpc /\ spc' = spc
      BY <1>1
    <2>2. QED
      BY <1>1, <2>1 DEF ClosedFile, Started
  <1>4. PICK f \in Frame : f = NextReply
    BY <1>2, TypeRow
  <1>5. RowOf(f) \in Row /\ RowOf(f).stamp = f.stamp /\ RowOf(f).id = f.id
    BY <1>1, StartedFacts DEF RowOf, Row, Frame, Conns
  <1>6. /\ CsvRows' = Append(CsvRows, View(RowOf(f)))
        /\ View(RowOf(f)) = [stamp |-> f.stamp, marker |-> f.id = 0]
    BY <1>1, <1>2, <1>4, <1>5, CsvAppend DEF View
  <1>7. IF f.id = 0 THEN f.stamp > LastStamp ELSE f.stamp = LastStamp + 1
    BY <1>4, RowFollows
  <1>8. f.stamp \in Nat /\ f.stamp <= IdModulus - 1
    <2>1. rconn \in Conns /\ cliAt[rconn] + 1 \in 1 .. Len(s2c[rconn])
      BY <1>1, <1>2, StartedFacts, Streams DEF ReadReply, ClientHasFrame
    <2>2. f = s2c[rconn][cliAt[rconn] + 1]
      BY <1>4 DEF NextReply
    <2>3. PICK i \in 1 .. Len(s2c[rconn]) : i = cliAt[rconn] + 1
      BY <2>1
    <2>4. /\ i + 1 \in 1 .. Len(c2s[rconn]) /\ f.type # "size"
          /\ IsData(f) => f.stamp = c2s[rconn][i + 1].stamp /\ f.stamp \in Nat
          /\ MessageAt(rconn, i + 1)
      BY <1>1, <2>1, <2>2, <2>3, ReplyAnswers
    <2>5. IsData(f)
      BY <1>4, <2>4 DEF Frame, IsData
    <2>6. QED
      BY <2>4, <2>5 DEF MessageAt
  <1>9. Csv!LastStamp = LastStamp /\ LastStamp \in Nat
    <2>1. rows \in Seq(Row)
      BY <1>2 DEF ClientTypeOK
    <2>2. rows # <<>> => rows[Len(rows)] \in Row
      BY <2>1, EmptySeq, ElementOfSeq
    <2>3. QED
      BY <1>2, <2>2, CsvLast DEF LastStamp, Row
  <1>10. CASE f.id = 0
    <2>1. f.stamp \in LastStamp + 1 .. IdModulus - 1
      BY <1>7, <1>8, <1>9, <1>10
    <2>2. CsvRows' = Append(CsvRows, [stamp |-> f.stamp, marker |-> TRUE])
      BY <1>6, <1>10
    <2>3. QED
      BY <1>3, <1>9, <2>1, <2>2 DEF Csv!Mark, Csv!AddRow
  <1>11. CASE f.id # 0
    <2>1. CsvRows' = Append(CsvRows, [stamp |-> LastStamp + 1, marker |-> FALSE])
      BY <1>6, <1>7, <1>11
    <2>2. QED
      BY <1>3, <1>9, <2>1 DEF Csv!Measure, Csv!AddRow
  <1>12. QED
    BY <1>10, <1>11

(* A step that writes no row leaves the mapped file, or closes it.         *)
LEMMA CsvQuiet ==
  ASSUME UNCHANGED rows, ClosedFile => ClosedFile'
  PROVE  Csv!Close \/ UNCHANGED Csv!vars
  <1>1. CsvRows' = CsvRows
    BY DEF CsvRows, IsMarker
  <1>2. QED
    BY <1>1 DEF Csv!Close, Csv!vars, ClosedFile

(* Every step maps to a step of RttCsv, or to none.                        *)
LEMMA CsvNext == IInv /\ IInv' /\ [Next]_vars => [Csv!Next]_Csv!vars
  <1> SUFFICES ASSUME IInv, IInv', [Next]_vars PROVE Csv!Next \/ UNCHANGED Csv!vars
    OBVIOUS
  <1>1. CASE ReadReply /\ NextReply.type # "close"
    BY <1>1, CsvReply DEF IInv, Csv!Next
  <1>2. CASE ~(ReadReply /\ NextReply.type # "close")
    <2>1. UNCHANGED rows
      BY <1>2 DEF Next, ClientStep, ServerStep, NetStep, vars, clientVars, Sender, Reader,
         Stats, Connect, Send, Reconnect, Push, PushForStats, Resend, PaceElapsed,
         PaceInterrupt, FinishLoop, Complete, ReadReply, ReadError, TakeReset, StatsCheck,
         StatsPoll, Interrupt, CreateFails, Fatal, Return, Write, PushReset, readerVars
    <2>2. ClosedFile => ClosedFile'
      BY DEF ClosedFile, Started, Next, ClientStep, ServerStep, NetStep, vars, clientVars,
         Sender, Reader, Stats, Connect, Send, Reconnect, Push, PushForStats, Resend,
         PaceElapsed, PaceInterrupt, FinishLoop, Complete, ReadReply, ReadError, TakeReset,
         StatsCheck, StatsPoll, Interrupt, CreateFails, Fatal, Return, Write, PushReset, readerVars,
         senderVars
    <2>3. QED
      BY <2>1, <2>2, CsvQuiet DEF Csv!Next
  <1>3. QED
    BY <1>1, <1>2

(* The client's file is one that RttCsv allows: a row per iteration, in    *)
(* order, an iteration left out only at a marker.                          *)
THEOREM ImplementsCsv == Spec => CsvSpec
  BY CsvInit, CsvNext, Invariant, PTL DEF Spec, CsvSpec, Csv!Spec

(***************************************************************************)
(* The channel `reset`.                                                    *)
(***************************************************************************)

(* Nothing is missed before the client starts.                             *)
LEMMA MissedInit == Init => ChannelHasAllMissed
  BY DEF Init, ClientInit, ChannelHasAllMissed, Started

(* Before the first dial the channel is empty.                             *)
LEMMA EmptyAtStart ==
  ASSUME IInv, spc = "start"
  PROVE  reset = <<>> /\ nconn = 0
  <1>1. conn = 0 /\ rconn = 0 /\ nconn = 0 /\ reset \in Seq(Conns)
    BY DEF IInv, Progress, TypeOK, ClientTypeOK
  <1>2. \A i \in 1 .. Len(reset) : reset[i] \in Conns /\ reset[i] \in 0 .. 0
    BY <1>1, ElementOfSeq DEF IInv, Channel
  <1>3. reset # <<>> => 1 \in 1 .. Len(reset)
    BY <1>1, EmptySeq
  <1>4. QED
    BY <1>1, <1>2, <1>3 DEF Conns

(* A push adds the newest connection, behind the others or at once.        *)
LEMMA MissedPush ==
  ASSUME ~SockOpt, IInv, ChannelHasAllMissed, Push
  PROVE  ChannelHasAllMissed' /\ rconn' \in {rconn, rconn + 1}
  <1>1. /\ spc = "push" /\ spc' = "resend" /\ Started /\ Started' /\ PushReset
        /\ conn' = conn /\ stpc' = stpc
    BY DEF Push, Started, statsVars
  <1>2. /\ ClientTypeOK /\ conn \in Nat /\ rconn \in Nat /\ conn \in Conns
        /\ reset \in Seq(Conns)
    BY <1>1, StartedFacts DEF ClientTypeOK
  <1>3. PICK l \in Nat : l = Len(reset)
    BY <1>2, LenProperties
  <1>4. /\ stpc = "finished" /\ (rpc = "blocked" => reset = <<>>)
        /\ rconn + l = conn - 1 /\ \A i \in 1 .. l : reset[i] = rconn + i
    BY <1>1, <1>3 DEF ChannelHasAllMissed
  <1>5. CASE rpc = "blocked"
    <2>1. /\ reset' = reset /\ rpc' = "reading" /\ rconn' = conn /\ l = 0 /\ Len(reset) = 0
      BY <1>1, <1>3, <1>4, <1>5 DEF PushReset
    <2>2. QED
      BY <1>1, <1>2, <1>4, <2>1 DEF ChannelHasAllMissed
  <1>6. CASE rpc # "blocked"
    <2>1. reset' = Append(reset, conn) /\ rpc' = rpc /\ rconn' = rconn
      BY <1>1, <1>6 DEF PushReset, Enqueue, readerVars
    <2>2. /\ Len(reset') = l + 1 /\ reset'[l + 1] = conn
          /\ \A i \in 1 .. l : reset'[i] = reset[i]
      BY <1>2, <1>3, <2>1, Grow
    <2>3. \A i \in 1 .. l + 1 : reset'[i] = rconn + i
      <3>1. rconn + (l + 1) = conn
        BY <1>2, <1>4
      <3>2. \A i \in 1 .. l + 1 : i \in 1 .. l \/ i = l + 1
        OBVIOUS
      <3>3. QED
        BY <1>4, <2>2, <3>1, <3>2
    <2>4. QED
      BY <1>1, <1>2, <1>4, <1>6, <2>1, <2>2, <2>3 DEF ChannelHasAllMissed
  <1>7. QED
    BY <1>5, <1>6

(* A receive takes the connection after the reader's.                      *)
LEMMA MissedTake ==
  ASSUME ~SockOpt, IInv, ChannelHasAllMissed, TakeReset
  PROVE  ChannelHasAllMissed' /\ rconn' \in {rconn, rconn + 1}
  <1>1. /\ Started /\ Started' /\ conn' = conn /\ stpc' = stpc /\ spc' = spc
    BY DEF TakeReset, Started, statsVars, senderVars
  <1>2. /\ ClientTypeOK /\ conn \in Nat /\ rconn \in Nat /\ reset \in Seq(Conns)
    BY <1>1, StartedFacts DEF ClientTypeOK
  <1>3. CASE reset = <<>>
    BY <1>1, <1>3 DEF TakeReset, ChannelHasAllMissed
  <1>4. CASE reset # <<>>
    <2>1. rconn' = Head(reset) /\ reset' = Tail(reset) /\ rpc' = "reading"
      BY <1>4 DEF TakeReset
    <2>2. PICK l \in Nat : l = Len(reset) /\ l >= 1
      BY <1>2, <1>4, Receive
    <2>3. /\ Head(reset) = reset[1] /\ Len(Tail(reset)) = l - 1
          /\ \A i \in 1 .. l - 1 : Tail(reset)[i] = reset[i + 1]
      BY <1>2, <1>4, <2>2, Receive
    <2>4. /\ stpc = "finished" /\ spc # "push2"
          /\ rconn + l = (IF spc = "push" THEN conn - 1 ELSE conn)
          /\ \A i \in 1 .. l : reset[i] = rconn + i
      BY <1>1, <2>2 DEF ChannelHasAllMissed
    <2>5. rconn' = rconn + 1
      BY <2>1, <2>2, <2>3, <2>4
    <2>6. ASSUME NEW i \in 1 .. l - 1 PROVE reset'[i] = rconn' + i
      <3>1. i + 1 \in 1 .. l /\ reset'[i] = reset[i + 1]
        BY <2>1, <2>3
      <3>2. reset[i + 1] = rconn + (i + 1)
        BY <2>4, <3>1
      <3>3. QED
        BY <1>2, <2>5, <3>1, <3>2
    <2>7. rconn' + (l - 1) = IF spc = "push" THEN conn - 1 ELSE conn
      BY <1>2, <2>4, <2>5
    <2>8. QED
      BY <1>1, <2>1, <2>3, <2>4, <2>5, <2>6, <2>7 DEF ChannelHasAllMissed
  <1>5. QED
    BY <1>3, <1>4

(* Every step keeps it and moves the reader by one connection at most.     *)
LEMMA MissedNext ==
  ASSUME ~SockOpt
  PROVE  IInv /\ ChannelHasAllMissed /\ [Next]_vars =>
           ChannelHasAllMissed' /\ (UNCHANGED vars \/ rconn' \in {rconn, rconn + 1})
  <1> SUFFICES ASSUME IInv, ChannelHasAllMissed, [Next]_vars
               PROVE  ChannelHasAllMissed' /\ rconn' \in {rconn, rconn + 1}
    OBVIOUS
  <1>1. ASSUME UNCHANGED <<spc, conn, reset, rpc, rconn, stpc>>
        PROVE  ChannelHasAllMissed' /\ rconn' \in {rconn, rconn + 1}
    BY <1>1 DEF ChannelHasAllMissed, Started
  (* Steps to a place of the sender that is not a push. *)
  <1>2. ASSUME UNCHANGED <<conn, reset, rconn, stpc>>, rpc' # "blocked" \/ rpc' = rpc,
               spc \notin {"start", "push"}, spc' \notin {"start", "push", "push2"},
               Started' => Started
        PROVE  ChannelHasAllMissed' /\ rconn' \in {rconn, rconn + 1}
    BY <1>2 DEF ChannelHasAllMissed, Started
  <1>3. CASE Connect
    <2>1. CASE Fatal
      BY <1>3, <2>1 DEF Fatal, ChannelHasAllMissed, Started, readerVars, statsVars
    <2>2. CASE ~Fatal
      <3>1. /\ spc = "start" /\ spc' = "loop" /\ conn' = nconn + 1 /\ rconn' = nconn + 1
            /\ UNCHANGED <<reset, rpc, stpc>>
        BY <1>3, <2>2 DEF Connect
      <3>2. reset = <<>> /\ nconn = 0 /\ rconn = 0 /\ Len(reset) = 0
        BY <3>1, EmptyAtStart DEF IInv, Progress
      <3>3. QED
        BY <3>1, <3>2 DEF ChannelHasAllMissed
    <2>3. QED
      BY <2>1, <2>2
  <1>4. CASE Reconnect
    <2>1. CASE Fatal
      BY <2>1 DEF Fatal, ChannelHasAllMissed, Started, readerVars, statsVars
    <2>2. CASE ~Fatal
      <3>1. /\ spc = "reconnect" /\ spc' = "push" /\ conn' = nconn + 1 /\ Started
            /\ UNCHANGED <<reset, rpc, rconn, stpc>>
        BY <1>4, <2>2 DEF Reconnect, readerVars, statsVars, Started
      <3>2. conn' = conn + 1 /\ conn \in Nat
        BY <3>1, StartedFacts
      <3>3. QED
        BY <3>1, <3>2 DEF ChannelHasAllMissed
    <2>3. QED
      BY <2>1, <2>2
  <1>5. CASE Push
    BY <1>5, MissedPush
  <1>6. CASE PushForStats
    BY <1>6 DEF PushForStats, ChannelHasAllMissed
  <1>7. CASE Send \/ Resend \/ PaceElapsed \/ PaceInterrupt \/ FinishLoop \/ Complete
    <2>1. /\ UNCHANGED <<conn, reset, rconn, rpc, stpc>>
          /\ spc \in {"loop", "resend", "pace", "waitReader"}
          /\ spc' \in {"loop", "reconnect", "pace", "waitReader", "completed"}
      BY <1>7 DEF Send, Resend, PaceElapsed, PaceInterrupt, FinishLoop, Complete, Return,
         Write, readerVars, statsVars
    <2>2. QED
      BY <1>2, <2>1 DEF Started
  <1>8. CASE ReadReply \/ ReadError
    <2>1. /\ UNCHANGED <<spc, conn, reset, rconn, stpc>> /\ (rpc' # "blocked" \/ rpc' = rpc)
      BY <1>8 DEF ReadReply, ReadError, senderVars, statsVars
    <2>2. QED
      BY <2>1 DEF ChannelHasAllMissed, Started
  <1>9. CASE TakeReset
    BY <1>9, MissedTake
  <1>10. CASE Stats
    BY <1>10 DEF Stats, StatsCheck, StatsPoll, ChannelHasAllMissed
  <1>11. CASE Interrupt \/ ServerStep \/ NetStep \/ UNCHANGED vars
    <2>1. UNCHANGED <<spc, conn, reset, rpc, rconn, stpc>>
      BY <1>11 DEF Interrupt, ServerStep, NetStep, vars, clientVars, senderVars,
         readerVars, statsVars
    <2>2. QED
      BY <1>1, <2>1
  <1>12. CASE CreateFails
    BY <1>12 DEF CreateFails, Fatal, ChannelHasAllMissed, Started, readerVars, statsVars
  <1>13. QED
    BY <1>3, <1>4, <1>5, <1>6, <1>7, <1>8, <1>9, <1>10, <1>11, <1>12
       DEF Next, ClientStep, Sender, Reader

(* Without -tcpStats the channel holds, in order, exactly the connections  *)
(* that the reader has yet to visit.                                       *)
THEOREM ChannelCorrect ==
  ASSUME ~SockOpt
  PROVE  Spec => []ChannelHasAllMissed
  <1>1. IInv /\ ChannelHasAllMissed /\ [Next]_vars => ChannelHasAllMissed'
    BY MissedNext
  <1>2. QED
    BY <1>1, MissedInit, Invariant, PTL DEF Spec

(* So the reader visits every connection that the sender made.             *)
THEOREM VisitsCorrect ==
  ASSUME ~SockOpt
  PROVE  Spec => ReaderVisitsEveryConnection
  <1>1. IInv /\ ChannelHasAllMissed /\ [Next]_vars => [rconn' \in {rconn, rconn + 1}]_vars
    BY MissedNext
  <1>2. QED
    BY <1>1, ChannelCorrect, Invariant, PTL DEF Spec, ReaderVisitsEveryConnection
=============================================================================
