------------------------------- MODULE WsNet -------------------------------
(***************************************************************************)
(* The WebSocket connections between the client and the server, as the     *)
(* code under src/ sees them through gorilla/websocket over TCP.  Nothing  *)
(* here is code of the repository: every definition is external.           *)
(*                                                                         *)
(* A connection is an ordered, reliable pair of streams until it breaks.   *)
(* When it breaks, each side still reads what had already reached it and   *)
(* then gets an error; a write on a broken connection is swallowed by the  *)
(* kernel or reported as an error, until the peer's reset is seen.         *)
(*                                                                         *)
(* The streams are immutable: a reader advances a cursor instead of        *)
(* removing the head, so that the order of what was read stays visible.    *)
(***************************************************************************)
EXTENDS Naturals, Sequences

CONSTANT MaxBreaks   \* bound: connections 1 .. MaxBreaks may break

ASSUME MaxBreaksAssumption == MaxBreaks \in Nat

\* The client dials again only after a break, so one more is enough.
Conns == 1 .. (MaxBreaks + 1)

VARIABLES
  nconn,   \* how many connections have been dialled
  net,     \* state of each connection
  c2s,     \* frames the client wrote, in order
  s2c,     \* frames the server wrote, in order
  srvAt,   \* how many frames of c2s the server has read
  cliAt    \* how many frames of s2c the client has read

netVars == <<nconn, net, c2s, s2c, srvAt, cliAt>>

(* A frame is the control message with the response size, a measurement    *)
(* message (id and client timestamp: the iteration that took it), or the   *)
(* WebSocket close frame with code 1000.                                   *)
Frame == [type : {"size", "data", "close"}, id : Nat, stamp : Nat]

SizeFrame        == [type |-> "size",  id |-> 0,  stamp |-> 0]
CloseFrame       == [type |-> "close", id |-> 0,  stamp |-> 0]
DataFrame(id, t) == [type |-> "data",  id |-> id, stamp |-> t]

NetTypeOK ==
  /\ nconn \in 0 .. (MaxBreaks + 1)
  /\ net \in [Conns -> {"idle", "open", "broken"}]
  /\ c2s \in [Conns -> Seq(Frame)]
  /\ s2c \in [Conns -> Seq(Frame)]
  /\ srvAt \in [Conns -> Nat]
  /\ cliAt \in [Conns -> Nat]

NetInit ==
  /\ nconn = 0
  /\ net = [c \in Conns |-> "idle"]
  /\ c2s = [c \in Conns |-> <<>>]
  /\ s2c = [c \in Conns |-> <<>>]
  /\ srvAt = [c \in Conns |-> 0]
  /\ cliAt = [c \in Conns |-> 0]

(* A successful handshake; `first` is what the dialler writes at once.     *)
Dial(first) ==
  /\ nconn < MaxBreaks + 1
  /\ nconn' = nconn + 1
  /\ net' = [net EXCEPT ![nconn + 1] = "open"]
  /\ c2s' = [c2s EXCEPT ![nconn + 1] = first]
  /\ UNCHANGED <<s2c, srvAt, cliAt>>

(* WriteMessage by the client or by the server.  On a broken connection a  *)
(* write that reports no error is lost all the same.                       *)
ClientWriteOk(c, f) ==
  /\ c2s' = IF net[c] = "open" THEN [c2s EXCEPT ![c] = Append(@, f)] ELSE c2s
  /\ UNCHANGED <<nconn, net, s2c, cliAt, srvAt>>

ServerWriteOk(c, f) ==
  s2c' = IF net[c] = "open" THEN [s2c EXCEPT ![c] = Append(@, f)] ELSE s2c

WriteFails(c) == net[c] = "broken"

(* ReadMessage fails once everything that arrived has been read.           *)
ServerHasFrame(c)  == srvAt[c] < Len(c2s[c])
ClientHasFrame(c)  == cliAt[c] < Len(s2c[c])
ServerReadFails(c) == net[c] = "broken" /\ ~ServerHasFrame(c)
ClientReadFails(c) == net[c] = "broken" /\ ~ClientHasFrame(c)

(* The connection breaks: any suffix of what was in flight, in either      *)
(* direction, is lost.                                                     *)
Break(c) ==
  /\ net[c] = "open"
  /\ c <= MaxBreaks
  /\ net' = [net EXCEPT ![c] = "broken"]
  /\ \E n \in srvAt[c] .. Len(c2s[c]) :
        c2s' = [c2s EXCEPT ![c] = SubSeq(@, 1, n)]
  /\ \E n \in cliAt[c] .. Len(s2c[c]) :
        s2c' = [s2c EXCEPT ![c] = SubSeq(@, 1, n)]
  /\ UNCHANGED <<nconn, srvAt, cliAt>>

(* The client process ends and the kernel closes its sockets.              *)
CloseAll ==
  /\ net' = [c \in Conns |-> IF net[c] = "open" THEN "broken" ELSE net[c]]
  /\ UNCHANGED <<nconn, c2s, s2c, srvAt, cliAt>>
=============================================================================
