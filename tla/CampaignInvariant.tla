------------------------- MODULE CampaignInvariant -------------------------
(***************************************************************************)
(* The inductive invariant behind the safety properties of Campaign: who   *)
(* is counted in the WaitGroup, which helpers there are and which of them  *)
(* wait on `stopPing`, how far each run is, and what it takes to end.      *)
(***************************************************************************)
EXTENDS Campaign

\* Every thread that was started and has not ended is counted.
WgCounts == wg = Cardinality(PingsLive) + Cardinality(DumpsLive)

(* A helper exists as long as its ping; those parked on `stopPing` are in  *)
(* the channel's queue, each of them once.                                 *)
HelpersMatch ==
  /\ \A d \in Dests : watch[d] = "none" <=> ping[d] \notin {"start", "running"}
  /\ \A d \in Dests : watch[d] = "parked" <=> \E k \in DOMAIN waiters : waiters[k] = d
  /\ \A j, k \in DOMAIN waiters : waiters[j] = waiters[k] => j = k

\* main has not started the threads; it is in a run; it is past the last one.
Before == main \in {"settings", "pings"}
After  == main \in {"wait", "plot", "done"}
InRun  == ~Before /\ ~After

\* The runs whose tcpdump main has passed.
Dumped(r) == r < run \/ (r = run /\ ~Before /\ main \notin {"iperf", "tcpdump"})

(* main is within its runs and steps, and the threads that exist are those *)
(* it started.                                                             *)
RunsInOrder ==
  /\ Before => run = 1
  /\ InRun => run <= settings.runs
  /\ main = "sleep" => run < settings.runs
  /\ After => run = settings.runs \/ (settings.runs = 0 /\ run = 1)
  /\ main = "client" => step <= Combinations
  /\ \A d \in Dests : ping[d] = "none" <=> Before
  /\ \A r \in RunIds :
       dump[r] # "none" <=> settings.tcpdump /\ r <= settings.runs /\ Dumped(r)
  /\ main \in {"plot", "done"} => wg = 0

\* A thread ends only when it is told to, at the end of the last run.
EndsWhenTold ==
  /\ \A d \in Dests : ping[d] = "done" => killPing
  /\ killPing => settings.runs > 0

(* In the first run the channel holds no interrupt but those of its end,   *)
(* one for each destination at most.                                       *)
FirstRunFits ==
  run = 1 => /\ stopPing + toSignal <= Cardinality(Dests)
             /\ ~After /\ main \notin {"stopPing", "sleep"} => stopPing = 0 /\ toSignal = 0

IInv ==
  /\ TypeOK
  /\ WgCounts
  /\ HelpersMatch
  /\ RunsInOrder
  /\ EndsWhenTold
  /\ InterruptsSuffice
  /\ FirstRunFits
=============================================================================
