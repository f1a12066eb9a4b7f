----------------------------- MODULE PingThread -----------------------------
(***************************************************************************)
(* The ping threads of the enhanced client (pingThread).  A thread runs    *)
(* ping over and over, each time with a helper goroutine that waits for an *)
(* interrupt on the channel `stopPing` and passes it on to that ping; when *)
(* the ping ends, its output is saved.  All threads share the channel, so  *)
(* an interrupt is for whichever helper receives it.                       *)
(***************************************************************************)
EXTENDS Naturals, Sequences, FiniteSets

CONSTANT Dests   \* the destinations to ping

ASSUME DestsAssumption == IsFiniteSet(Dests)

VARIABLES
  status,     \* "up", or how the process died: log.Fatal or a panic
  wg,         \* the counter of the WaitGroup
  killPing,   \* tells the threads to end
  stopPing,   \* how many interrupts the channel holds
  waiters,    \* helpers parked on the channel, in order
  ping,       \* where each thread is
  watch       \* where the helper of each thread's current ping is

pingVars == <<stopPing, waiters, ping, watch>>

\* Mutant: one place too few.
StopPingCapShort == Cardinality(Dests) - 1

\* The channel has room for one interrupt per destination.
StopPingCap == Cardinality(Dests)

PingTypeOK ==
  /\ status \in {"up", "fatal", "panic"}
  /\ wg \in Nat
  /\ killPing \in BOOLEAN
  /\ stopPing \in 0 .. StopPingCap
  /\ waiters \in Seq(Dests)
  /\ ping \in [Dests -> {"none", "create", "check", "start", "running", "save", "done"}]
  /\ watch \in [Dests -> {"none", "ready", "parked", "signal"}]

PingInit ==
  /\ status = "up"
  /\ wg = 0
  /\ killPing = FALSE
  /\ stopPing = 0
  /\ waiters = <<>>
  /\ ping = [d \in Dests |-> "none"]
  /\ watch = [d \in Dests |-> "none"]

Up == status = "up"

Dies(how) == status' = how
GoPing(d, pc) == ping' = [ping EXCEPT ![d] = pc]
GoWatch(d, pc) == watch' = [watch EXCEPT ![d] = pc]

(* The thread's file; log.Fatal when it cannot be created.                 *)
PingCreate(d) ==
  /\ ping[d] = "create"
  /\ \/ GoPing(d, "check") /\ UNCHANGED status
     \/ Dies("fatal") /\ UNCHANGED ping
  /\ UNCHANGED <<wg, killPing, stopPing, waiters, watch>>

\* for !*kill: end, or begin another ping with a helper of its own.
PingCheck(d) ==
  /\ ping[d] = "check"
  /\ \/ /\ killPing
        /\ GoPing(d, "done") /\ wg' = wg - 1
        /\ UNCHANGED watch
     \/ /\ ~killPing
        /\ GoPing(d, "start") /\ GoWatch(d, "ready")
        /\ UNCHANGED wg
  /\ UNCHANGED <<status, killPing, stopPing, waiters>>

\* pingerCmd.Output() starts the ping.
PingStart(d) ==
  /\ ping[d] = "start"
  /\ GoPing(d, "running")
  /\ UNCHANGED <<status, wg, killPing, stopPing, waiters, watch>>

(* A ping that ends with an error -- no route, no name, or an interrupt    *)
(* before the first reply -- is fatal to the whole campaign.               *)
PingFails(d) ==
  /\ ping[d] \in {"start", "running"}
  /\ Dies("fatal")
  /\ UNCHANGED <<wg, killPing, pingVars>>

\* An output that cannot be written is logged, and the thread goes on.
PingSave(d) ==
  /\ ping[d] = "save"
  /\ GoPing(d, "check")
  /\ UNCHANGED <<status, wg, killPing, stopPing, waiters, watch>>

(* The helper receives an interrupt that is there, or parks.               *)
HelperReceives(d) ==
  /\ watch[d] = "ready"
  /\ \/ /\ stopPing > 0
        /\ stopPing' = stopPing - 1
        /\ GoWatch(d, "signal")
        /\ UNCHANGED waiters
     \/ /\ stopPing = 0
        /\ waiters' = Append(waiters, d)
        /\ GoWatch(d, "parked")
        /\ UNCHANGED stopPing
  /\ UNCHANGED <<status, wg, killPing, ping>>

(* pingerCmd.Process.Signal: the ping ends; Process is nil, and the call a *)
(* panic, as long as the ping has not been started.                        *)
HelperSignals(d) ==
  /\ watch[d] = "signal"
  /\ \/ ping[d] = "start" /\ Dies("panic") /\ UNCHANGED <<ping, watch>>
     \/ /\ ping[d] = "running"
        /\ GoPing(d, "save") /\ GoWatch(d, "none")
        /\ UNCHANGED status
  /\ UNCHANGED <<wg, killPing, stopPing, waiters>>

PingThread(d) ==
  /\ Up
  /\ PingCreate(d) \/ PingCheck(d) \/ PingStart(d) \/ PingSave(d)
     \/ HelperReceives(d) \/ HelperSignals(d)

PingFatal == Up /\ \E d \in Dests : PingFails(d)

(* stopPing <- os.Interrupt: to the first parked helper, or to the buffer. *)
InterruptPing ==
  \/ /\ waiters # <<>>
     /\ GoWatch(Head(waiters), "signal")
     /\ waiters' = Tail(waiters)
     /\ UNCHANGED stopPing
  \/ /\ waiters = <<>> /\ stopPing < StopPingCap
     /\ stopPing' = stopPing + 1
     /\ UNCHANGED <<waiters, watch>>
=============================================================================
