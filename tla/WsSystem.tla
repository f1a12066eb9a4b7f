------------------------------ MODULE WsSystem ------------------------------
(***************************************************************************)
(* One measurement: a client process, the server's handlers and the        *)
(* connections between them.                                               *)
(***************************************************************************)
EXTENDS WsClient, WsServer

clientVars == <<senderVars, interrupt, reset, readerVars, statsVars>>
vars == <<netVars, clientVars, handler>>

Init == NetInit /\ ClientInit /\ ServerInit

ClientStep == (Sender \/ Reader \/ Stats \/ Interrupt) /\ UNCHANGED handler

ServerStep == \E c \in Conns : Server(c) /\ UNCHANGED clientVars

NetStep == \E c \in Conns : Break(c) /\ UNCHANGED <<clientVars, handler>>

Next == ClientStep \/ ServerStep \/ NetStep

(* Each goroutine is scheduled again while it can run (the Go scheduler is *)
(* preemptive), and a select chooses uniformly among the ready cases, so a *)
(* waiting interrupt is taken in the end.  Nothing makes a connection      *)
(* break or a user press Ctrl-C.                                           *)
Fairness ==
  /\ WF_vars(Sender /\ UNCHANGED handler)
  /\ SF_vars(PaceInterrupt /\ UNCHANGED handler)
  /\ WF_vars(Reader /\ UNCHANGED handler)
  /\ WF_vars(Stats /\ UNCHANGED handler)
  /\ \A c \in Conns : WF_vars(Server(c) /\ UNCHANGED clientVars)

Spec == Init /\ [][Next]_vars /\ Fairness

(***************************************************************************)
(* Safety.                                                                 *)
(***************************************************************************)

(* Every variable has its type; msgId stays an int32, and the channel      *)
(* `reset` never holds more than its capacity (client.go, main).           *)
TypeOK == NetTypeOK /\ ClientTypeOK /\ ServerTypeOK

StampBefore(i) == IF i = 1 THEN 0 ELSE rows[i - 1].stamp
ConnBefore(i)  == IF i = 1 THEN 1 ELSE rows[i - 1].conn
IsMarker(i)    == rows[i].id = 0

(* Rows are in the order of the iterations, and one is left out only where *)
(* a marker row stands: what a reset lost is never lost silently           *)
(* (requestSender's marker, readDispatcher's rows).                        *)
GapsAreMarked ==
  \A i \in 1 .. Len(rows) :
    IF IsMarker(i) THEN rows[i].stamp > StampBefore(i)
    ELSE rows[i].id = rows[i].stamp /\ rows[i].stamp = StampBefore(i) + 1

(* A marker row is the first row of a new connection, and every connection *)
(* but the first begins with one: no two connections' measurements run     *)
(* into each other, and no row of an older connection comes late.          *)
MarkersDelimitConnections ==
  \A i \in 1 .. Len(rows) :
    IF IsMarker(i) THEN rows[i].conn > ConnBefore(i)
    ELSE rows[i].conn = ConnBefore(i)

\* The iteration before i, of those the loop takes (0: none).
PrevId(i) == IF i = 0 THEN IdModulus - 1 ELSE i - 1

\* The last iteration the sender took before it returned.
LastSent == IF msgId = Stop THEN PrevId(msgId) ELSE msgId

LastStamp == IF rows = <<>> THEN 0 ELSE rows[Len(rows)].stamp

(* When the client reports completion its file goes up to the last message *)
(* it sent: main waits for the reader, and the reader for the server's     *)
(* close frame, which follows every reply (client.go: "Everything is       *)
(* completed!").  Not so when a network error's text passes for that frame.*)
CompletedIsComplete ==
  spc = "completed" => LastStamp = LastSent

(* The server takes its response size from connect()'s control message and *)
(* never from, or in place of, a measurement: also after a reset.          *)
SizeReadFirst ==
  \A c \in Conns : \A i \in 1 .. srvAt[c] :
    (c2s[c][i].type = "size") <=> (i = 1)

(* Without -tcpStats the reader misses no connection the sender made, even *)
(* when resets come faster than it reads.                                  *)
ReaderVisitsEveryConnection == [][rconn' \in {rconn, rconn + 1}]_vars

(* "If *reps == 0 then loop infinitely" (requestHandling.go); "if `0` it   *)
(* runs until given interrupt" (client/README.md).  msgId wraps, and the   *)
(* loop then ends by itself.                                               *)
RunsUntilInterrupted ==
  [][Reps = 0 /\ spc # "waitReader" /\ spc' = "waitReader" => interrupt]_vars

(* The file the client writes, row by row, is a file that RttCsv allows.   *)
ClosedFile == rpc = "finished" \/ spc \in {"completed", "exited"}

CsvRows == [i \in 1 .. Len(rows) |->
              [stamp |-> rows[i].stamp, marker |-> IsMarker(i)]]

Csv == INSTANCE RttCsv WITH rows <- CsvRows, closed <- ClosedFile,
                            MaxStamp <- IdModulus - 1

CsvSpec == Csv!Spec

(***************************************************************************)
(* Liveness.                                                               *)
(***************************************************************************)

Gone == spc \in {"completed", "exited"}

(* Once the sender has returned on a working connection, the client        *)
(* completes unless that connection breaks before the close handshake is   *)
(* over.                                                                   *)
HealthyCloseCompletes ==
  (spc = "waitReader" /\ net[conn] = "open")
    ~> (Gone \/ (conn \in Conns /\ net[conn] = "broken"))

(* The reader waits for a connection that nobody will make any more.       *)
Orphaned == spc = "waitReader" /\ rpc = "blocked" /\ reset = <<>>

(* The only way not to end is the orphaned reader: the sender is never     *)
(* blocked for good on the channel `reset`, however many connections break *)
(* and whoever takes the new ones from the channel, and main's two waits   *)
(* hang for no other reason.  (A reader that leaves at a break, because    *)
(* the error's text holds 1000, does leave the sender blocked.)            *)
EndsOrOrphaned == <>(Gone \/ Orphaned)

(* A handler returns once its connection is gone; the server keeps no      *)
(* goroutine of a client that reset or left.                               *)
ServerReleases ==
  \A c \in Conns : (net[c] = "broken") ~> (handler[c] \in {"closed", "leaked"})

(* "Wait for the go routines to complete their job" (client.go): the wait  *)
(* ends.  It does not when the connection breaks after the last write.     *)
MainFinishes == (spc = "waitReader") ~> Gone
=============================================================================
