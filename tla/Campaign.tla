------------------------------ MODULE Campaign ------------------------------
(***************************************************************************)
(* The enhanced client's main goroutine (enhanced-client.go): a campaign   *)
(* of runs.  Each run measures the bandwidth, starts a tcpdump thread if   *)
(* that is asked for, runs the client once for every endpoint, interval    *)
(* and message size, and interrupts tcpdump and the pings.  After the last *)
(* run, main waits for the threads and starts the plotter.                 *)
(***************************************************************************)
EXTENDS TcpDumper

CONSTANT SettingsFiles   \* the settings files to look at

ASSUME SettingsAssumption ==
  SettingsFiles \subseteq
    [runs : 0 .. MaxRuns, runsInterval : Nat, runsStepDuration : Nat,
     endpoints : Nat, intervals : Seq(Nat), msgSizes : Nat,
     tcpdump : BOOLEAN]

VARIABLES
  settings,   \* the settings file; never changes
  main,       \* where main is
  run,        \* i, the current run
  step,       \* the current step of the run
  toSignal    \* interrupts main has still to send at the end of the run

mainVars == <<settings, main, run, step, toSignal>>
vars == <<status, wg, killPing, pingVars, dumpVars, mainVars>>

Combinations == settings.endpoints * Len(settings.intervals) * settings.msgSizes

(* The duration of a step in seconds: what the file says or, for want of   *)
(* it, the run's time (minutes) shared out.                                *)
StepDuration ==
  IF settings.runsStepDuration # 0 THEN settings.runsStepDuration
  ELSE (settings.runsInterval * 60) \div Combinations

NoDuration  == settings.runsStepDuration = 0 /\ settings.runsInterval = 0
DividesByZero == settings.runsStepDuration = 0 /\ Combinations = 0

\* Endpoints, then intervals, then sizes: the interval of the k-th step.
IntervalOf(k) ==
  settings.intervals[(((k - 1) \div settings.msgSizes) % Len(settings.intervals)) + 1]

(* -reps of the client for a step, by an integer division.                 *)
Repetitions(k) == (StepDuration * 1000) \div IntervalOf(k)

\* The client takes 0 repetitions as a loop without end: only a fatal error, an
\* interrupt of its own, or its msgId's return to 0 (RunsUntilInterrupted) ends it.
Endless == main = "client" /\ Repetitions(step) = 0

CampaignTypeOK ==
  /\ settings \in SettingsFiles
  /\ main \in {"settings", "pings", "iperf", "tcpdump", "steps", "client", "hung",
               "stopTcpdump", "killPing", "stopPing", "sleep", "wait", "plot", "done"}
  /\ run \in 1 .. MaxRuns + 1
  /\ step \in 1 .. Combinations + 1
  /\ toSignal \in 0 .. Cardinality(Dests)

Init ==
  /\ PingInit /\ DumpInit
  /\ settings \in SettingsFiles
  /\ main = "settings"
  /\ run = 1 /\ step = 1 /\ toSignal = 0

Goto(pc) == main' = pc

(* Settings that cannot be used end the program, as may a file, the        *)
(* folder's copy of the settings or that of the parameters included.       *)
ReadSettings ==
  /\ main = "settings"
  /\ \/ ~NoDuration /\ ~DividesByZero /\ Goto("pings") /\ UNCHANGED status
     \/ ~NoDuration /\ DividesByZero /\ Dies("panic") /\ UNCHANGED main
     \/ Dies("fatal") /\ UNCHANGED main
  /\ UNCHANGED <<wg, killPing, pingVars, dumpVars, settings, run, step, toSignal>>

StartPings ==
  /\ main = "pings"
  /\ wg' = wg + Cardinality(Dests)
  /\ ping' = [d \in Dests |-> "create"]
  /\ Goto(IF settings.runs = 0 THEN "wait" ELSE "iperf")
  /\ UNCHANGED <<status, killPing, stopPing, waiters, watch, dumpVars>>
  /\ UNCHANGED <<settings, run, step, toSignal>>

(* iperf's errors are logged, but not those of its output file.            *)
Iperf ==
  /\ main = "iperf"
  /\ \/ Goto("tcpdump") /\ UNCHANGED status
     \/ Dies("fatal") /\ UNCHANGED main
  /\ UNCHANGED <<wg, killPing, pingVars, dumpVars, settings, run, step, toSignal>>

\* Mutant: the thread is not added to the WaitGroup.
AddedNone == wg

Added == wg + 1

StartTcpdump ==
  /\ main = "tcpdump"
  /\ \/ /\ settings.tcpdump
        /\ wg' = Added
        /\ GoDump(run, "create")
     \/ ~settings.tcpdump /\ UNCHANGED <<wg, dump>>
  /\ Goto("steps") /\ step' = 1
  /\ UNCHANGED <<status, killPing, pingVars, stopTcpdump, dumpWatch, settings, run, toSignal>>

\* No address to filter by (getOutboundIP): fatal, whatever runs.
NoOutboundIP ==
  /\ main = "tcpdump" /\ settings.tcpdump
  /\ Dies("fatal")
  /\ UNCHANGED <<wg, killPing, pingVars, dumpVars, mainVars>>

(* The next step; an interval of 0 is divided by.                          *)
StartStep ==
  /\ main = "steps"
  /\ \/ step > Combinations /\ Goto("stopTcpdump") /\ UNCHANGED status
     \/ step <= Combinations /\ IntervalOf(step) # 0 /\ Goto("client") /\ UNCHANGED status
     \/ step <= Combinations /\ IntervalOf(step) = 0 /\ Dies("panic") /\ UNCHANGED main
  /\ UNCHANGED <<wg, killPing, pingVars, dumpVars, settings, run, step, toSignal>>

(* clientCmd.Run() returns when the client ends, by itself or with a fatal *)
(* error; the error is logged, and the campaign goes on.                   *)
ClientEnds ==
  /\ main = "client"
  /\ Goto("steps") /\ step' = step + 1
  /\ UNCHANGED <<status, wg, killPing, pingVars, dumpVars, settings, run, toSignal>>

(* A client whose reader is orphaned never ends (WsSystem, MainFinishes).  *)
ClientHangs ==
  /\ Up /\ main = "client"
  /\ Goto("hung")
  /\ UNCHANGED <<status, wg, killPing, pingVars, dumpVars, settings, run, step, toSignal>>

StopTcpdump ==
  /\ main = "stopTcpdump"
  /\ stopTcpdump' = [stopTcpdump EXCEPT ![run] = settings.tcpdump]
  /\ Goto("killPing")
  /\ UNCHANGED <<status, wg, killPing, pingVars, dump, dumpWatch, settings, run, step, toSignal>>

\* Mutant: the pings are told to end one run late.
LastRunMissed == run > settings.runs

LastRun == run = settings.runs

\* Mutant: the first destination is left out.
InterruptsOneShort == Cardinality(Dests) - 1

Interrupts == Cardinality(Dests)

KillPing ==
  /\ main = "killPing"
  /\ killPing' = (killPing \/ LastRun)
  /\ toSignal' = Interrupts
  /\ Goto("stopPing")
  /\ UNCHANGED <<status, wg, pingVars, dumpVars, settings, run, step>>

\* One interrupt per destination; main waits while the channel is full.
StopPing ==
  /\ main = "stopPing" /\ toSignal > 0
  /\ InterruptPing
  /\ toSignal' = toSignal - 1
  /\ UNCHANGED <<status, wg, killPing, ping, dumpVars, settings, main, run, step>>

StoppedPings ==
  /\ main = "stopPing" /\ toSignal = 0
  /\ Goto(IF run = settings.runs THEN "wait" ELSE "sleep")
  /\ UNCHANGED <<status, wg, killPing, pingVars, dumpVars, settings, run, step, toSignal>>

\* What is left of the interval between two runs, if anything.
NextRun ==
  /\ main = "sleep"
  /\ Goto("iperf") /\ run' = run + 1
  /\ UNCHANGED <<status, wg, killPing, pingVars, dumpVars, settings, step, toSignal>>

Wait ==
  /\ main = "wait" /\ wg = 0
  /\ Goto("plot")
  /\ UNCHANGED <<status, wg, killPing, pingVars, dumpVars, settings, run, step, toSignal>>

\* The plotter's errors are logged; then the health checker is stopped.
Plot ==
  /\ main = "plot"
  /\ Goto("done")
  /\ UNCHANGED <<status, wg, killPing, pingVars, dumpVars, settings, run, step, toSignal>>

Main ==
  /\ Up
  /\ \/ ReadSettings \/ StartPings \/ Iperf \/ StartTcpdump \/ NoOutboundIP \/ StartStep \/ ClientEnds
     \/ StopTcpdump \/ KillPing \/ StopPing \/ StoppedPings \/ NextRun \/ Wait \/ Plot

\* The health checker's server fails, which is fatal.
HealthFatal ==
  /\ Up /\ main # "done"
  /\ Dies("fatal")
  /\ UNCHANGED <<wg, killPing, pingVars, dumpVars, mainVars>>

PingStep == \E d \in Dests : PingThread(d) /\ UNCHANGED <<dumpVars, mainVars>>
DumpStep == \E r \in RunIds : TcpDumper(r) /\ UNCHANGED mainVars
Outside ==
  \/ PingFatal /\ UNCHANGED <<dumpVars, mainVars>>
  \/ TcpdumpEnds /\ UNCHANGED mainVars
  \/ ClientHangs
  \/ HealthFatal

Next == (main # "done") /\ (Main \/ PingStep \/ DumpStep \/ Outside)

(* Every goroutine is scheduled, and a client that does not hang ends,     *)
(* unless its loop has no end.  Nothing makes a command fail.              *)
Fairness ==
  /\ WF_vars(~Endless /\ Main)
  /\ \A d \in Dests : WF_vars(PingThread(d) /\ UNCHANGED <<dumpVars, mainVars>>)
  /\ \A r \in RunIds : WF_vars(TcpDumper(r) /\ UNCHANGED mainVars)

Spec == Init /\ [][Next]_vars /\ Fairness

(***************************************************************************)
(* Properties.                                                             *)
(***************************************************************************)

(* Every variable has its type; in particular `stopPing` holds at most one *)
(* interrupt per destination (enhanced-client.go, main).                   *)
TypeOK == PingTypeOK /\ DumpTypeOK /\ CampaignTypeOK

PingsLive  == {d \in Dests : ping[d] \notin {"none", "done"}}
DumpsLive  == {r \in RunIds : dump[r] \notin {"none", "done"}}

(* The plotter reads files that nobody writes any more: the thread of each *)
(* ping and of each run's tcpdump has returned, its output written or      *)
(* the failure to write it logged (main's wg.Wait).  Without a run there   *)
(* is nothing to plot, and it is not started either.                       *)
PlotsCompleteData ==
  main \in {"plot", "done"} =>
    /\ PingsLive = {} /\ DumpsLive = {}
    /\ settings.tcpdump => \A r \in 1 .. settings.runs : dump[r] = "done"
    /\ Dests # {} => settings.runs > 0

\* A thread whose ping needs an interrupt to end, none being on its way.
NeedsInterrupt == {d \in Dests : ping[d] \in {"start", "running"} /\ watch[d] # "signal"}

(* From the moment killPing is set there are interrupts enough, in the     *)
(* channel or still to be sent, for every ping that runs: whichever thread *)
(* takes which, and whatever an earlier run left in the channel.           *)
InterruptsSuffice ==
  killPing => Cardinality(NeedsInterrupt) <= stopPing + toSignal

Over == status # "up" \/ main \in {"done", "hung"}

(* main waits to send to a full channel that no thread reads any more.     *)
Stuck ==
  /\ main = "stopPing" /\ toSignal > 0
  /\ stopPing = StopPingCap /\ PingsLive = {}

(* That takes interrupts of an earlier run still in the channel when       *)
(* killPing is set: one run alone never gets main stuck (the capacity that *)
(* main gives stopPing).                                                   *)
StuckNeedsEarlierRun == Stuck => run > 1

(* A campaign ends, dies, is stuck, or waits for good for a client that    *)
(* does not end: wg.Wait never blocks for good.  It does in a campaign of  *)
(* no runs, whose pings nobody interrupts.                                 *)
CampaignEnds ==
  <>(Over \/ Stuck \/ (settings.runs = 0 /\ main = "wait")) \/ <>[]Endless
=============================================================================
