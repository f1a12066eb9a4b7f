-------------------------- MODULE PlotterInvariant --------------------------
(***************************************************************************)
(* The inductive invariant behind the safety properties of Plotter: what   *)
(* every goroutine that has returned leaves, what RttPlotter has gathered  *)
(* of the current combination, and where its time axis ends.               *)
(***************************************************************************)
EXTENDS Plotter

\* The settings and the files are those of a campaign.
InputOK == [files |-> files, reports |-> reports, settings |-> settings] \in Campaigns

\* A goroutine that has returned has drawn its plots; main waits for them all.
ReturnedMeansDrawn ==
  /\ process = "start" => started = {} /\ combo = 1
  /\ process = "done" => wg = 0
  /\ combo <= Combos + 1
  /\ DOMAIN tcp \subseteq ToSet(RequestedRuns)
  /\ process \in {"wait", "done"} =>
       /\ TypedJobs \ started \subseteq DOMAIN typed
       /\ <<"rtt", "all">> \in started \/ combo > Combos
       /\ PingJobs \subseteq started \/ Len(pinged) = Len(settings.pings)
       /\ \A job \in TcpJobs \ started : job[2] \in DOMAIN tcp

\* A point of RttPlotter, and its plots.
Sample == [file : DOMAIN files, row : Nat, rtt : Int]
Point  == [x : Int, sample : Sample]

PlotsTyped ==
  /\ points \in Seq(Point) /\ lines \subseteq Int
  /\ drawn \in Seq(ToSet(drawn))
  /\ \A i \in DOMAIN drawn : drawn[i].points \in Seq(Point)

\* What the file of a combination in a run gives; nothing if it is not there.
SamplesIn(c, run) ==
  IF FileOf(c, run) \in DOMAIN files THEN Samples(FileOf(c, run)) ELSE {}

(* The points of the current combination are those of the runs it has      *)
(* read.                                                                   *)
PointsSoFar ==
  /\ {p.sample : p \in ToSet(points)} = UNION {SamplesIn(combo, RequestedRuns[k]) : k \in 1 .. at - 1}
  /\ \A i \in DOMAIN points : \E k \in 1 .. at - 1 :
       points[i].sample.file = FileOf(combo, RequestedRuns[k])

(* The axis begins at 0.  Unless its last row had no RTT, the last run     *)
(* ends where the next one begins, and there is a line if one is to come.  *)
AxisSoFar ==
  IF points = <<>> THEN first = 0 /\ lastOfRun = 0
  ELSE LET q == points[Len(points)]
       IN \/ Torn(q.sample.file)
          \/ /\ q.x = lastOfRun - first
             /\ at <= Len(RequestedRuns) => q.x \in lines

IInv ==
  /\ InputOK
  /\ TypeOK
  /\ ReturnedMeansDrawn
  /\ PlotsTyped
  /\ PointsSoFar
  /\ PlotsShowTheirFiles
  /\ AxisSoFar
  /\ OneTimeAxis
=============================================================================
