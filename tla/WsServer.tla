------------------------------ MODULE WsServer ------------------------------
(***************************************************************************)
(* The echo server: one handler goroutine per upgraded connection          *)
(* (server/server.go).  A handler reads the response size first, then      *)
(* sends every message back with its own timestamp and payload.            *)
(***************************************************************************)
EXTENDS WsNet

VARIABLE handler   \* where the handler of each connection is

(* "sizing":  blocked in the first ReadMessage, before `defer c.Close()`   *)
(* "echoing": in the read-stamp-write loop                                 *)
(* "closed":  returned, its connection closed by the deferred call         *)
(* "leaked":  returned from the first read, the connection left open       *)
HandlerState == {"sizing", "echoing", "closed", "leaked"}

ServerTypeOK == handler \in [Conns -> HandlerState]

ServerInit == handler = [c \in Conns |-> "sizing"]

\* The dialler's handshake ends after Upgrade, so a handler exists from then.
Running(c) == net[c] # "idle" /\ handler[c] \in {"sizing", "echoing"}

NextIn(c)    == c2s[c][srvAt[c] + 1]
Consume(c)   == srvAt' = [srvAt EXCEPT ![c] = @ + 1]
Handle(c, s) == handler' = [handler EXCEPT ![c] = s]

(* The first message is taken as the response size, whatever it is; a      *)
(* close frame is sent back and read as an error, as in the loop.          *)
ReadSize(c) ==
  /\ Running(c) /\ handler[c] = "sizing"
  /\ ServerHasFrame(c)
  /\ Consume(c)
  /\ IF NextIn(c).type = "close"
     THEN Handle(c, "leaked") /\ ServerWriteOk(c, CloseFrame)
     ELSE Handle(c, "echoing") /\ UNCHANGED s2c
  /\ UNCHANGED <<nconn, net, c2s, cliAt>>

\* Mutant: the reply is built from a zero message instead of the request.
EchoedBlank(f) == DataFrame(0, f.stamp)

(* The reply keeps the request's id and client timestamp; its server       *)
(* timestamp and payload are not told apart here.                          *)
Echoed(f) == DataFrame(f.id, f.stamp)

(* One turn of the loop on a message; a failed write ends the handler.     *)
Echo(c) ==
  /\ Running(c) /\ handler[c] = "echoing"
  /\ ServerHasFrame(c) /\ NextIn(c).type # "close"
  /\ Consume(c)
  /\ \/ ServerWriteOk(c, Echoed(NextIn(c))) /\ UNCHANGED handler
     \/ WriteFails(c) /\ Handle(c, "closed") /\ UNCHANGED s2c
  /\ UNCHANGED <<nconn, net, c2s, cliAt>>

(* A close frame makes ReadMessage fail, after gorilla's close handler has *)
(* sent the frame back.                                                    *)
ReadClose(c) ==
  /\ Running(c) /\ handler[c] = "echoing"
  /\ ServerHasFrame(c) /\ NextIn(c).type = "close"
  /\ Consume(c)
  /\ ServerWriteOk(c, CloseFrame)
  /\ Handle(c, "closed")
  /\ UNCHANGED <<nconn, net, c2s, cliAt>>

\* Mutant: the echo loop logs a read error and reads again.
ReadFailedRetries(c) == FALSE

ReadFailed(c) ==
  /\ Running(c)
  /\ ServerReadFails(c)
  /\ Handle(c, IF handler[c] = "sizing" THEN "leaked" ELSE "closed")
  /\ UNCHANGED netVars

Server(c) == ReadSize(c) \/ Echo(c) \/ ReadClose(c) \/ ReadFailed(c)
=============================================================================
