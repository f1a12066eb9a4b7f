------------------------------ MODULE WsClient ------------------------------
(***************************************************************************)
(* The measuring client (enhanced-client/client): three goroutines.        *)
(*   sender: main and requestSender.  Dials, sends one message per         *)
(*           iteration, dials again when a write fails, and at the end     *)
(*           writes the close frame and waits for the other two.           *)
(*   reader: readDispatcher.  Turns replies into rows of the CSV file and, *)
(*           when a read fails, waits for the new connection.              *)
(*   stats:  getSocketStats (with -tcpStats).  Polls the same channel for  *)
(*           new connections until told to stop.                           *)
(* The sender hands a new connection to the others over the channel        *)
(* `reset`, once per goroutine that has to learn of it.                    *)
(***************************************************************************)
EXTENDS WsNet

CONSTANTS
  Reps,        \* -reps; 0 is documented as "until interrupted"
  IdModulus,   \* 2^32 in the code, where msgId is an int32
  SockOpt,     \* -tcpStats
  AddrHas1000  \* "1000" occurs in the text of a network error (in a port)

ASSUME RepsAssumption      == Reps \in Nat
ASSUME ModulusAssumption   == IdModulus \in Nat /\ IdModulus >= 2
ASSUME SockOptAssumption   == SockOpt \in BOOLEAN
ASSUME AddressAssumption   == AddrHas1000 \in BOOLEAN

VARIABLES
  spc,        \* where the sender is
  msgId,      \* current iteration, shared with stats
  conn,       \* the sender's connection
  ssReading,  \* FALSE tells stats to stop
  interrupt,  \* a SIGINT waits in the channel `interrupt`
  reset,      \* channel of new connections
  rpc,        \* where the reader is
  rconn,      \* the reader's connection
  stpc,       \* where stats is
  sconn,      \* the connection stats samples
  rows        \* rows of the CSV file; conn, where a row came from, is not written

senderVars == <<spc, msgId, conn, ssReading>>
readerVars == <<rpc, rconn, rows>>
statsVars  == <<stpc, sconn>>

ResetCap == 2

Row == [stamp : Nat, id : Nat, conn : Nat]

\* The goroutines run once main has dialled and until the process ends.
Started == spc \notin {"start", "completed", "exited"}

ClientTypeOK ==
  /\ spc \in {"start", "loop", "reconnect", "push", "push2", "resend", "pace",
              "waitReader", "completed", "exited"}
  /\ msgId \in 0 .. IdModulus - 1
  /\ conn \in 0 .. MaxBreaks + 1
  /\ ssReading \in BOOLEAN
  /\ interrupt \in BOOLEAN
  /\ reset \in Seq(Conns) /\ Len(reset) <= ResetCap
  /\ rpc \in {"reading", "failed", "blocked", "finished"}
  /\ rconn \in 0 .. MaxBreaks + 1
  /\ stpc \in {"check", "poll", "finished"}
  /\ sconn \in 0 .. MaxBreaks + 1
  /\ rows \in Seq(Row)
  /\ Started => conn \in Conns /\ rconn \in Conns

ClientInit ==
  /\ spc = "start"
  /\ msgId = 0
  /\ conn = 0
  /\ ssReading = TRUE
  /\ interrupt = FALSE
  /\ reset = <<>>
  /\ rpc = "reading"
  /\ rconn = 0
  /\ stpc = IF SockOpt THEN "check" ELSE "finished"
  /\ sconn = 0
  /\ rows = <<>>

(***************************************************************************)
(* Sender.                                                                 *)
(***************************************************************************)

\* Mutant: msgId is compared with the whole of reps, a uint64.
StopUntruncated == IF Reps = 0 THEN 0 ELSE Reps + 1

(* The loop ends when msgId equals int32(reps), reps having been           *)
(* incremented unless it is 0.                                             *)
Stop == (IF Reps = 0 THEN 0 ELSE Reps + 1) % IdModulus

NextId(i) == (i + 1) % IdModulus

\* Mutant: connect() does not send the response size.
HelloMissing == <<>>

\* What connect() writes on a fresh connection.
Hello == <<SizeFrame>>

(* log.Fatal: the process ends, and its sockets with it.                   *)
Fatal ==
  /\ spc' = "exited"
  /\ CloseAll
  /\ UNCHANGED <<msgId, conn, ssReading, interrupt, reset, readerVars, statsVars>>

(* main up to the first iteration: all goroutines get the same connection. *)
Connect ==
  /\ spc = "start"
  /\ \/ /\ Dial(Hello)
        /\ spc' = "loop"
        /\ msgId' = 1
        /\ conn' = nconn + 1 /\ rconn' = nconn + 1
        /\ sconn' = IF SockOpt THEN nconn + 1 ELSE sconn
        /\ UNCHANGED <<ssReading, interrupt, reset, rpc, rows, stpc>>
     \/ Fatal

(* An output file that cannot be created is found out after the dial, the  *)
(* last of them with the reader already started.                           *)
CreateFails ==
  /\ spc = "loop" /\ msgId = 1
  /\ Fatal

(* WriteMessage of f, then continue at ok or at failed.                    *)
Write(f, ok, failed) ==
  /\ \/ ClientWriteOk(conn, f) /\ spc' = ok
     \/ WriteFails(conn) /\ spc' = failed /\ UNCHANGED netVars
  /\ UNCHANGED <<msgId, conn, reset, readerVars, statsVars>>

Send ==
  /\ spc = "loop" /\ msgId # Stop
  /\ Write(DataFrame(msgId, msgId), "pace", "reconnect")
  /\ UNCHANGED <<ssReading, interrupt>>

Reconnect ==
  /\ spc = "reconnect"
  /\ \/ /\ Dial(Hello)
        /\ spc' = "push"
        /\ conn' = nconn + 1
        /\ UNCHANGED <<msgId, ssReading, interrupt, reset, readerVars, statsVars>>
     \/ Fatal

\* Mutant: only the newest connection is kept in the channel.
EnqueueLatest(q, c) == <<c>>

Enqueue(q, c) == Append(q, c)

\* Mutant: one more than the capacity fits.
CanPushOneMore == Len(reset) <= ResetCap

CanPush == Len(reset) < ResetCap

(* reset <- c.  A parked reader is handed the value; otherwise it is       *)
(* buffered, and the sender waits while the buffer is full.                *)
PushReset ==
  \/ /\ rpc = "blocked"
     /\ rpc' = "reading" /\ rconn' = conn
     /\ UNCHANGED <<reset, rows>>
  \/ /\ rpc # "blocked"
     /\ CanPush
     /\ reset' = Enqueue(reset, conn)
     /\ UNCHANGED readerVars

Push ==
  /\ spc = "push"
  /\ PushReset
  /\ spc' = IF SockOpt THEN "push2" ELSE "resend"
  /\ UNCHANGED <<netVars, msgId, conn, ssReading, interrupt, statsVars>>

PushForStats ==
  /\ spc = "push2"
  /\ PushReset
  /\ spc' = "resend"
  /\ UNCHANGED <<netVars, msgId, conn, ssReading, interrupt, statsVars>>

\* Mutant: the failed message is sent again as it was.
MarkerAsMessage == DataFrame(msgId, msgId)

(* The failed message with its id and payload cleared: it keeps its client *)
(* timestamp.                                                              *)
Marker == DataFrame(0, msgId)

Resend ==
  /\ spc = "resend"
  /\ Write(Marker, "pace", "reconnect")
  /\ UNCHANGED <<ssReading, interrupt>>

(* The select at the end of an iteration: the timer, or the interrupt.     *)
PaceElapsed ==
  /\ spc = "pace"
  /\ spc' = "loop"
  /\ msgId' = NextId(msgId)
  /\ UNCHANGED <<netVars, conn, ssReading, interrupt, reset, readerVars, statsVars>>

\* Mutant: the sender returns without a close frame.
ReturnSilently ==
  /\ ssReading' = FALSE
  /\ spc' = "waitReader"
  /\ UNCHANGED <<netVars, msgId, conn, reset, readerVars, statsVars>>

(* Both ways out write the close frame and return, whether or not the      *)
(* write failed; main then waits for the goroutines.                       *)
Return ==
  /\ ssReading' = FALSE
  /\ Write(CloseFrame, "waitReader", "waitReader")

PaceInterrupt ==
  /\ spc = "pace" /\ interrupt
  /\ interrupt' = FALSE
  /\ Return

FinishLoop ==
  /\ spc = "loop" /\ msgId = Stop
  /\ Return
  /\ UNCHANGED interrupt

(* <-doneRead, then wg.Wait(); the process ends.                           *)
Complete ==
  /\ spc = "waitReader"
  /\ rpc = "finished" /\ stpc = "finished"
  /\ spc' = "completed"
  /\ CloseAll
  /\ UNCHANGED <<msgId, conn, ssReading, interrupt, reset, readerVars, statsVars>>

Sender ==
  \/ Connect \/ CreateFails \/ Send \/ Reconnect \/ Push \/ PushForStats \/ Resend
  \/ PaceElapsed \/ PaceInterrupt \/ FinishLoop \/ Complete

(* SIGINT: Notify drops a signal when one is already waiting.              *)
Interrupt ==
  /\ spc \notin {"completed", "exited"}
  /\ ~interrupt
  /\ interrupt' = TRUE
  /\ UNCHANGED <<netVars, senderVars, reset, readerVars, statsVars>>

(***************************************************************************)
(* Reader.                                                                 *)
(***************************************************************************)

NextReply == s2c[rconn][cliAt[rconn] + 1]

\* A row keeps the reply's timestamp; id 0 is written with an RTT of -1.
RowOf(f) == [stamp |-> f.stamp, id |-> f.id, conn |-> rconn]

(* ReadMessage returns a message, or the peer's close frame as an error    *)
(* whose text holds its code, 1000.                                        *)
ReadReply ==
  /\ Started /\ rpc = "reading"
  /\ ClientHasFrame(rconn)
  /\ cliAt' = [cliAt EXCEPT ![rconn] = @ + 1]
  /\ \/ /\ NextReply.type # "close"
        /\ rows' = Append(rows, RowOf(NextReply))
        /\ UNCHANGED rpc
     \/ /\ NextReply.type = "close"
        /\ rpc' = "finished"
        /\ UNCHANGED rows
  /\ UNCHANGED <<nconn, net, c2s, s2c, srvAt,
                 senderVars, interrupt, reset, rconn, statsVars>>

\* Mutant: any read error counts as the end of the test.
AnyErrorEnds == TRUE

\* A network error is taken for a normal closure by the text "1000" in it.
MayMatch1000 == AddrHas1000

(* Any other error.  Its text need not name the address (an EOF does not). *)
ReadError ==
  /\ Started /\ rpc = "reading"
  /\ ClientReadFails(rconn)
  /\ \/ rpc' = "failed"
     \/ MayMatch1000 /\ rpc' = "finished"
  /\ UNCHANGED <<netVars, senderVars, interrupt, reset, rconn, rows, statsVars>>

(* c = <-reset: take a buffered connection, or park until one is pushed.   *)
TakeReset ==
  /\ Started /\ rpc = "failed"
  /\ \/ /\ reset # <<>>
        /\ rconn' = Head(reset) /\ reset' = Tail(reset)
        /\ rpc' = "reading"
     \/ /\ reset = <<>>
        /\ rpc' = "blocked"
        /\ UNCHANGED <<rconn, reset>>
  /\ UNCHANGED <<netVars, senderVars, interrupt, rows, statsVars>>

Reader == ReadReply \/ ReadError \/ TakeReset

(***************************************************************************)
(* Stats.                                                                  *)
(***************************************************************************)

Sampling == ssReading

(* The loop condition; leaving the loop ends with wg.Done().               *)
StatsCheck ==
  /\ Started /\ stpc = "check"
  /\ stpc' = IF Sampling THEN "poll" ELSE "finished"
  /\ UNCHANGED <<netVars, senderVars, interrupt, reset, readerVars, sconn>>

(* The loop body: a receive that does not wait, then a sample of sconn.    *)
StatsPoll ==
  /\ Started /\ stpc = "poll"
  /\ stpc' = "check"
  /\ \/ reset # <<>> /\ sconn' = Head(reset) /\ reset' = Tail(reset)
     \/ reset = <<>> /\ UNCHANGED <<sconn, reset>>
  /\ UNCHANGED <<netVars, senderVars, interrupt, readerVars>>

Stats == StatsCheck \/ StatsPoll
=============================================================================
