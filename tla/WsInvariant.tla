---------------------------- MODULE WsInvariant ----------------------------
(***************************************************************************)
(* The inductive invariant behind the safety properties of WsSystem: what  *)
(* is in each stream, how the sender's place in its loop bounds it, and    *)
(* how the file's last row relates to the reader's place in the stream.    *)
(***************************************************************************)
EXTENDS WsSystem

IsData(f) == f.type = "data"

\* An iteration that the loop takes.
Taken(i) == i >= 1 /\ (Stop = 0 \/ i < Stop)

Returned == spc \in {"waitReader", "completed"}
Resetting == spc \in {"push", "push2", "resend"}

(* A connection that has not been dialled is untouched.                    *)
Fresh ==
  \A c \in Conns :
    IF c > nconn
    THEN /\ net[c] = "idle" /\ handler[c] = "sizing"
         /\ c2s[c] = <<>> /\ s2c[c] = <<>> /\ cliAt[c] = 0
    ELSE net[c] # "idle"

(* A stream from the client: the size, then messages of consecutive        *)
(* iterations, the first of them a marker except on the first connection.  *)
MessageAt(c, i) ==
  /\ c2s[c][i].type = "size" <=> i = 1
  /\ c2s[c][i].stamp <= IdModulus - 1
  /\ IsData(c2s[c][i]) =>
       /\ IF i = 2
          THEN /\ c = 1 => c2s[c][i].stamp = 1
               /\ c > 1 => c2s[c][i].stamp >= 1
          ELSE /\ IsData(c2s[c][i - 1])
               /\ c2s[c][i].stamp = c2s[c][i - 1].stamp + 1
       /\ c2s[c][i].id = IF i = 2 /\ c > 1 THEN 0 ELSE c2s[c][i].stamp

(* A close frame is the last thing the sender writes, after its last       *)
(* message.                                                                *)
CloseAt(c, i) ==
  c2s[c][i].type = "close" =>
    /\ Returned /\ c = conn
    /\ IF i = 2 THEN c = 1 /\ LastSent = 0
       ELSE IsData(c2s[c][i - 1]) /\ c2s[c][i - 1].stamp = LastSent

Stream ==
  \A c \in Conns : \A i \in 1 .. Len(c2s[c]) : MessageAt(c, i) /\ CloseAt(c, i)

(* Iterations on a later connection are later.                             *)
Order ==
  \A c, d \in Conns : c < d =>
    \A i \in 1 .. Len(c2s[c]), j \in 1 .. Len(c2s[d]) :
      IsData(c2s[c][i]) /\ IsData(c2s[d][j]) => c2s[c][i].stamp < c2s[d][j].stamp

\* Every message so far is of an iteration before m.
AllBefore(m) ==
  \A c \in Conns : \A i \in 1 .. Len(c2s[c]) :
    IsData(c2s[c][i]) => c2s[c][i].stamp < m

\* The stream of the open connection ends with iteration m (0: none yet).
EndsAt(m) ==
  net[conn] = "open" =>
    IF Len(c2s[conn]) = 1 THEN conn = 1 /\ m = 0
    ELSE /\ Len(c2s[conn]) >= 2
         /\ IsData(c2s[conn][Len(c2s[conn])])
         /\ c2s[conn][Len(c2s[conn])].stamp = m

(* Where the sender is, and what it has written by then.                   *)
Progress ==
  /\ spc = "start" => nconn = 0 /\ conn = 0 /\ rconn = 0
  /\ Started => conn = nconn /\ conn \in Conns /\ rconn \in 1 .. conn
  /\ spc = "loop" => (msgId = Stop \/ Taken(msgId)) /\ EndsAt(PrevId(msgId))
  /\ spc = "loop" /\ msgId # Stop => AllBefore(msgId)
  /\ spc = "pace" => Taken(msgId) /\ AllBefore(msgId + 1) /\ EndsAt(msgId)
                     /\ (net[conn] = "open" => Len(c2s[conn]) >= 2)
  /\ Resetting => Taken(msgId) /\ AllBefore(msgId) /\ conn > 1
                  /\ (net[conn] = "open" => Len(c2s[conn]) = 1)
  /\ spc = "reconnect" => Taken(msgId) /\ AllBefore(msgId) /\ net[conn] = "broken"

(* A reply is the message one place further in the client's stream.        *)
Echoes ==
  \A c \in Conns :
    /\ srvAt[c] <= Len(c2s[c])
    /\ Len(s2c[c]) > 0 => Len(s2c[c]) < srvAt[c]
    /\ handler[c] = "sizing" => srvAt[c] = 0
    /\ handler[c] = "echoing" =>
         srvAt[c] >= 1 /\ (net[c] = "open" => srvAt[c] = Len(s2c[c]) + 1)
    /\ \A i \in 1 .. Len(s2c[c]) :
         /\ s2c[c][i].type = c2s[c][i + 1].type
         /\ IsData(s2c[c][i]) =>
              /\ s2c[c][i].id = c2s[c][i + 1].id
              /\ s2c[c][i].stamp = c2s[c][i + 1].stamp

(* The channel hands out connections in order, none older than the         *)
(* reader's, and a reader is parked only at an empty channel.              *)
Channel ==
  /\ rpc = "blocked" => Len(reset) = 0
  /\ \A i \in 1 .. Len(reset) :
       /\ reset[i] \in rconn .. conn
       /\ \A j \in i .. Len(reset) : reset[i] <= reset[j]

LastConn == rows[Len(rows)].conn

(* While the reader is at work, the last row is the last reply it read.    *)
LastRow ==
  rpc # "finished" =>
    /\ \A c \in Conns : cliAt[c] > 0 => rows # <<>> /\ c <= LastConn
    /\ rows # <<>> =>
         /\ LastConn \in Conns /\ LastConn <= rconn
         /\ cliAt[LastConn] \in 1 .. Len(s2c[LastConn])
         /\ IsData(s2c[LastConn][cliAt[LastConn]])
         /\ LastStamp = s2c[LastConn][cliAt[LastConn]].stamp

(* A reader that has ended has seen the close frame, and so every reply.   *)
EndIsComplete ==
  /\ spc = "completed" => rpc = "finished"
  /\ rpc = "finished" /\ ~AddrHas1000 => Returned /\ LastStamp = LastSent

CursorOK == \A c \in Conns : cliAt[c] <= Len(s2c[c])

IInv ==
  /\ TypeOK
  /\ Fresh /\ Stream /\ Order /\ Progress /\ Echoes
  /\ Channel /\ CursorOK /\ LastRow /\ EndIsComplete
  /\ GapsAreMarked /\ MarkersDelimitConnections

(* Without -tcpStats the channel holds exactly the connections that the    *)
(* reader has not got yet.                                                 *)
ChannelHasAllMissed ==
  ~SockOpt =>
    /\ stpc = "finished" /\ spc # "push2"
    /\ rpc = "blocked" => reset = <<>>
    /\ Started =>
         /\ rconn + Len(reset) = IF spc = "push" THEN conn - 1 ELSE conn
         /\ \A i \in 1 .. Len(reset) : reset[i] = rconn + i
=============================================================================
