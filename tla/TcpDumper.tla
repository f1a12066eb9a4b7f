----------------------------- MODULE TcpDumper -----------------------------
(***************************************************************************)
(* The tcpdump threads of the enhanced client (tcpDumper), one per run.  A *)
(* thread runs tshark until its helper goroutine passes on the interrupt   *)
(* that main puts in the run's own channel, then saves the report.  main   *)
(* does not wait for it before the next run.                               *)
(***************************************************************************)
EXTENDS PingThread

CONSTANT MaxRuns   \* bound: the most runs of a campaign

ASSUME MaxRunsAssumption == MaxRuns \in Nat

RunIds == 1 .. MaxRuns

VARIABLES
  stopTcpdump,   \* each run's channel holds an interrupt
  dump,          \* where the thread of each run is
  dumpWatch      \* where its helper is

dumpVars == <<stopTcpdump, dump, dumpWatch>>

DumpTypeOK ==
  /\ stopTcpdump \in [RunIds -> BOOLEAN]
  /\ dump \in [RunIds -> {"none", "create", "start", "running", "save", "done"}]
  /\ dumpWatch \in [RunIds -> {"none", "waiting", "signal"}]

DumpInit ==
  /\ stopTcpdump = [r \in RunIds |-> FALSE]
  /\ dump = [r \in RunIds |-> "none"]
  /\ dumpWatch = [r \in RunIds |-> "none"]

GoDump(r, pc) == dump' = [dump EXCEPT ![r] = pc]
GoDumpWatch(r, pc) == dumpWatch' = [dumpWatch EXCEPT ![r] = pc]

\* The report's file, then the helper.
DumpCreate(r) ==
  /\ dump[r] = "create"
  /\ \/ GoDump(r, "start") /\ GoDumpWatch(r, "waiting") /\ UNCHANGED status
     \/ Dies("fatal") /\ UNCHANGED <<dump, dumpWatch>>
  /\ UNCHANGED <<wg, killPing, stopTcpdump>>

DumpStart(r) ==
  /\ dump[r] = "start"
  /\ GoDump(r, "running")
  /\ UNCHANGED <<status, wg, killPing, stopTcpdump, dumpWatch>>

(* tshark ends by itself with its output, or with an error, which is fatal *)
(* to the whole campaign; an interrupt that comes later finds no process.  *)
DumpEnds(r) ==
  /\ dump[r] = "running"
  /\ GoDump(r, "save") /\ GoDumpWatch(r, "none")
  /\ UNCHANGED <<status, wg, killPing, stopTcpdump>>

DumpFails(r) ==
  /\ dump[r] \in {"start", "running"}
  /\ Dies("fatal")
  /\ UNCHANGED <<wg, killPing, dumpVars>>

\* A report that cannot be written is logged, and the thread ends all the same.
DumpSave(r) ==
  /\ dump[r] = "save"
  /\ GoDump(r, "done")
  /\ wg' = wg - 1
  /\ UNCHANGED <<status, killPing, stopTcpdump, dumpWatch>>

DumpHelperReceives(r) ==
  /\ dumpWatch[r] = "waiting" /\ stopTcpdump[r]
  /\ stopTcpdump' = [stopTcpdump EXCEPT ![r] = FALSE]
  /\ GoDumpWatch(r, "signal")
  /\ UNCHANGED <<status, wg, killPing, dump>>

\* As in PingThread: a panic if tshark has not been started.
DumpHelperSignals(r) ==
  /\ dumpWatch[r] = "signal"
  /\ \/ dump[r] = "start" /\ Dies("panic") /\ UNCHANGED <<dump, dumpWatch>>
     \/ /\ dump[r] = "running"
        /\ GoDump(r, "save") /\ GoDumpWatch(r, "none")
        /\ UNCHANGED status
  /\ UNCHANGED <<wg, killPing, stopTcpdump>>

TcpDumper(r) ==
  /\ Up
  /\ \/ DumpCreate(r) \/ DumpStart(r) \/ DumpSave(r)
     \/ DumpHelperReceives(r) \/ DumpHelperSignals(r)
  /\ UNCHANGED pingVars

\* What the outside may do to a dump: nothing makes it happen.
TcpdumpEnds ==
  /\ Up
  /\ \E r \in RunIds : DumpEnds(r) \/ DumpFails(r)
  /\ UNCHANGED pingVars
=============================================================================
