---------------------------- MODULE PlotterProofs ----------------------------
(***************************************************************************)
(* Proofs about Plotter, for every value of its constants: any settings,   *)
(* any files of measurements and any tcpdump reports.                      *)
(***************************************************************************)
EXTENDS PlotterInvariant, TcpdumpLemmas

(***************************************************************************)
(* What the settings and the files are.                                    *)
(***************************************************************************)

(* What the settings and the files are.                                    *)
LEMMA InputTypes ==
  ASSUME InputOK
  PROVE  /\ FilesTyped(files) /\ ReportsTyped(reports) /\ SettingsTyped(settings)
         /\ RequestedRuns \in Seq(Nat) /\ Len(RequestedRuns) \in Nat
         /\ \A i, j \in 1 .. Len(RequestedRuns) : RequestedRuns[i] = RequestedRuns[j] => i = j
         /\ Combos \in Nat /\ Len(settings.pings) \in Nat
  <1>1. PICK c \in Campaigns : c = [files |-> files, reports |-> reports, settings |-> settings]
    BY DEF InputOK
  <1>2. /\ FilesTyped(files) /\ ReportsTyped(reports)
        /\ SettingsTyped(settings) /\ IsInjective(settings.runsToPlot)
    BY <1>1, CampaignsAssumption
  <1>3. /\ settings.runs \in Nat /\ settings.runsToPlot \in Seq(Nat)
        /\ settings.endpoints \in Seq(ToSet(settings.endpoints))
        /\ settings.intervals \in Seq(ToSet(settings.intervals))
        /\ settings.msgSizes \in Seq(ToSet(settings.msgSizes))
        /\ settings.pings \in Seq(Seq([at : Nat, rtt : Int]))
    BY <1>2 DEF SettingsTyped
  <1>4. /\ Len(settings.endpoints) \in Nat /\ Len(settings.intervals) \in Nat
        /\ Len(settings.msgSizes) \in Nat /\ Len(settings.pings) \in Nat
    BY <1>3, LenProperties
  <1>5. Combos \in Nat
    <2>1. \A x, y, z \in Nat : x * y * z \in Nat
      OBVIOUS
    <2>2. QED
      BY <1>4, <2>1 DEF Combos
  <1>6. /\ RequestedRuns \in Seq(Nat)
        /\ \A i, j \in 1 .. Len(RequestedRuns) : RequestedRuns[i] = RequestedRuns[j] => i = j
    <2>1. CASE settings.plotAll
      BY <1>3, <2>1 DEF RequestedRuns
    <2>2. CASE ~settings.plotAll
      BY <1>2, <1>3, <2>2 DEF RequestedRuns, IsInjective
    <2>3. QED
      BY <2>1, <2>2
  <1>7. QED
    BY <1>2, <1>4, <1>5, <1>6, LenProperties

(* The rows of a file, and the samples they give.                          *)
LEMMA RowsTyped ==
  ASSUME InputOK, NEW f \in DOMAIN files
  PROVE  /\ f = [run |-> f.run, dest |-> f.dest, inter |-> f.inter, size |-> f.size]
         /\ Rows(f) \in Seq([at : Nat, rtt : Int]) /\ Len(Rows(f)) \in Nat
         /\ \A i \in 1 .. Len(Rows(f)) : Rows(f)[i].at \in Nat /\ Rows(f)[i].rtt \in Int
         /\ Samples(f) = {[file |-> f, row |-> i, rtt |-> Rows(f)[i].rtt] : i \in 1 .. Len(Rows(f))}
  <1>1. /\ f = [run |-> f.run, dest |-> f.dest, inter |-> f.inter, size |-> f.size]
        /\ files[f].rows \in Seq([at : Nat, rtt : Int])
    BY InputTypes DEF FilesTyped
  <1>2. Rows(f) \in Seq([at : Nat, rtt : Int])
    BY <1>1 DEF Rows
  <1>3. /\ Len(Rows(f)) \in Nat /\ DOMAIN Rows(f) = 1 .. Len(Rows(f))
        /\ \A i \in 1 .. Len(Rows(f)) : Rows(f)[i] \in [at : Nat, rtt : Int]
    BY <1>2, LenProperties, ElementOfSeq
  <1>4. QED
    BY <1>1, <1>2, <1>3 DEF Samples

(* The runs to plot are finitely many.                                     *)
LEMMA RunsToPlot ==
  ASSUME InputOK
  PROVE  /\ IsFiniteSet(ToSet(RequestedRuns))
         /\ ToSet(RequestedRuns) = {RequestedRuns[i] : i \in 1 .. Len(RequestedRuns)}
  <1> DEFINE R == RequestedRuns
             n == Len(R)
  <1>1. R \in Seq(Nat) /\ n \in Nat /\ DOMAIN R = 1 .. n /\ R \in [1 .. n -> Nat]
    BY InputTypes, LenProperties
  <1>2. ToSet(R) = {R[i] : i \in 1 .. n}
    BY <1>1 DEF ToSet
  <1>3. R \in Surjection(1 .. n, ToSet(R))
    BY <1>1, <1>2 DEF Surjection
  <1>4. IsFiniteSet(1 .. n)
    BY <1>1, FS_Interval
  <1>5. QED
    BY <1>2, <1>3, <1>4, FS_Surjection

(***************************************************************************)
(* The goroutines: each is added, and each returns once.                   *)
(***************************************************************************)

(* The goroutines of one kind are none of another.                         *)
LEMMA JobsApart ==
  /\ TypedJobs \subseteq Jobs /\ <<"rtt", "all">> \in Jobs
  /\ PingJobs \subseteq Jobs /\ TcpJobs \subseteq Jobs
  /\ \A job \in TypedJobs : job[1] \in {"box", "cdf"} /\ job[2] \in Types
  /\ \A job \in TypedJobs : job # <<"rtt", "all">> /\ job \notin PingJobs /\ job \notin TcpJobs
  /\ <<"rtt", "all">> \notin PingJobs /\ <<"rtt", "all">> \notin TcpJobs
  /\ PingJobs \cap TcpJobs = {}
  BY DEF Jobs, TypedJobs, PingJobs, TcpJobs, Types

(* The WaitGroup counts every goroutine.                                   *)
LEMMA AllAdded ==
  ASSUME InputOK
  PROVE  IsFiniteSet(Jobs) /\ Cardinality(Jobs) = Added
  <1>1. \A x, y : x # y => IsFiniteSet({x, y}) /\ Cardinality({x, y}) = 2
    <2> SUFFICES ASSUME NEW x, NEW y, x # y
                 PROVE  IsFiniteSet({x, y}) /\ Cardinality({x, y}) = 2
      OBVIOUS
    <2>1. IsFiniteSet({x}) /\ Cardinality({x}) = 1 /\ {x, y} = {x} \cup {y} /\ y \notin {x}
      BY FS_Singleton
    <2>2. QED
      BY <2>1, FS_AddElement
  <1>2. IsFiniteSet(Types) /\ Cardinality(Types) = 3
    <2>1. IsFiniteSet({"sizes", "intervals"}) /\ Cardinality({"sizes", "intervals"}) = 2
      BY <1>1
    <2>2. Types = {"sizes", "intervals"} \cup {"endpoints"} /\ "endpoints" \notin {"sizes", "intervals"}
      BY DEF Types
    <2>3. QED
      BY <2>1, <2>2, FS_AddElement
  <1>3. IsFiniteSet(TypedJobs) /\ Cardinality(TypedJobs) = 6
    <2>1. IsFiniteSet({"box", "cdf"}) /\ Cardinality({"box", "cdf"}) = 2
      BY <1>1
    <2>2. /\ IsFiniteSet({"box", "cdf"} \X Types)
          /\ Cardinality({"box", "cdf"} \X Types) = 2 * 3
      BY <1>2, <2>1, FS_Product
    <2>3. QED
      BY <2>2 DEF TypedJobs
  <1>4. IsFiniteSet(PingJobs) /\ IsFiniteSet(TcpJobs)
    <2>1. IsFiniteSet(PingJobs)
      BY FS_EmptySet, FS_Singleton DEF PingJobs
    <2>2. IsFiniteSet({"tcp"}) /\ IsFiniteSet({})
      BY FS_EmptySet, FS_Singleton
    <2>3. IsFiniteSet({"tcp"} \X ToSet(RequestedRuns))
      BY <2>2, RunsToPlot, FS_Product
    <2>4. IsFiniteSet(TcpJobs)
      BY <2>2, <2>3 DEF TcpJobs
    <2>5. QED
      BY <2>1, <2>4
  <1> DEFINE More == PingJobs \cup TcpJobs
             Seven == TypedJobs \cup {<<"rtt", "all">>}
  <1>5. IsFiniteSet(More)
    BY <1>4, FS_Union
  <1>6. IsFiniteSet(Seven) /\ Cardinality(Seven) = 7
    <2>1. <<"rtt", "all">> \notin TypedJobs
      BY JobsApart
    <2>2. QED
      BY <1>3, <2>1, FS_AddElement
  <1>7. Seven \cap More = {} /\ Jobs = Seven \cup More
    BY JobsApart DEF Jobs
  <1>8. Cardinality(Seven \cap More) = 0
    BY <1>7, FS_EmptySet
  <1>9. IsFiniteSet(Jobs) /\ Cardinality(Jobs) = Cardinality(Seven) + Cardinality(More) - Cardinality(Seven \cap More)
    BY <1>5, <1>6, <1>7, FS_Union
  <1>10. Cardinality(More) \in Nat
    BY <1>5, FS_CardinalityType
  <1>11. QED
    BY <1>6, <1>8, <1>9, <1>10 DEF Added

(* A plot is added, and the others stay.                                   *)
LEMMA OneMore ==
  ASSUME NEW f, NEW d, NEW v
  PROVE  /\ DOMAIN With(f, d, v) = {d} \cup DOMAIN f
         /\ \A x \in {d} \cup DOMAIN f : With(f, d, v)[x] = IF x = d THEN v ELSE f[x]
  BY DEF With

(* The settings and the files never change, nor what is computed of them.  *)
LEMMA InputSame ==
  ASSUME UNCHANGED input
  PROVE  /\ files' = files /\ reports' = reports /\ settings' = settings
         /\ Combos' = Combos /\ RequestedRuns' = RequestedRuns
         /\ Jobs' = Jobs /\ TypedJobs' = TypedJobs /\ TcpJobs' = TcpJobs /\ PingJobs' = PingJobs
         /\ Added' = Added
         /\ InputOK => InputOK'
         /\ \A f : Rows(f)' = Rows(f) /\ Samples(f)' = Samples(f) /\ Torn(f)' = Torn(f)
         /\ \A c, run : FileOf(c, run)' = FileOf(c, run) /\ SamplesIn(c, run)' = SamplesIn(c, run)
         /\ \A comb : Measured(comb)' = Measured(comb)
         /\ Point' = Point
  <1>1. files' = files /\ reports' = reports /\ settings' = settings
    BY DEF input
  <1>2. /\ Combos' = Combos /\ RequestedRuns' = RequestedRuns
        /\ InputOK => InputOK'
    BY <1>1 DEF Combos, RequestedRuns, InputOK
  <1>3. TypedJobs' = TypedJobs /\ TcpJobs' = TcpJobs /\ PingJobs' = PingJobs
    BY <1>1, <1>2 DEF TypedJobs, Types, TcpJobs, PingJobs
  <1>4. Jobs' = Jobs /\ Added' = Added
    BY <1>3 DEF Jobs, Added
  <1>5. \A f : Rows(f)' = Rows(f) /\ Samples(f)' = Samples(f) /\ Torn(f)' = Torn(f)
    BY <1>1 DEF Rows, Samples, Torn
  <1>6. \A c, run : FileOf(c, run)' = FileOf(c, run)
    BY <1>1 DEF FileOf
  <1>7. \A c, run : SamplesIn(c, run)' = SamplesIn(c, run)
    BY <1>1, <1>5, <1>6 DEF SamplesIn
  <1>8. \A comb : Measured(comb)' = Measured(comb)
    BY <1>1, <1>2, <1>5 DEF Measured
  <1>9. Point' = Point
    BY <1>1 DEF Point, Sample
  <1>10. QED
    BY <1>1, <1>2, <1>3, <1>4, <1>5, <1>6, <1>7, <1>8, <1>9


(***************************************************************************)
(* What the goroutines leave: TypeOK's part about them, ReturnedMeansDrawn.*)
(***************************************************************************)
JobsTyped ==
  /\ process \in {"start", "wait", "done", "dead"}
  /\ started \subseteq Jobs
  /\ wg = IF process = "start" THEN 0 ELSE Cardinality(started)
  /\ DOMAIN typed \subseteq TypedJobs
  /\ DOMAIN tcp \subseteq DOMAIN reports
  /\ Len(pinged) \in {0, Len(settings.pings)}

RttTyped ==
  /\ combo \in Nat /\ at \in 1 .. Len(RequestedRuns) + 1
  /\ first \in Nat /\ lastOfRun \in Int
  /\ \A i \in DOMAIN points : points[i].x \in Int
  /\ Len(drawn) = combo - 1

(* TypeOK speaks of the goroutines and of RttPlotter.                      *)
LEMMA TypeParts == TypeOK <=> JobsTyped /\ RttTyped
  BY DEF TypeOK, JobsTyped, RttTyped

(* A goroutine that returns leaves one less, and the counter with it.      *)
LEMMA OneLess ==
  ASSUME InputOK, JobsTyped, UNCHANGED <<input, process>>,
         NEW job, Runs(job), Return(job)
  PROVE  /\ process = "wait" /\ process' = "wait"
         /\ started' \subseteq Jobs' /\ wg' = Cardinality(started')
  <1>1. process = "wait" /\ process' = "wait" /\ job \in started
    BY DEF Runs
  <1>2. started \subseteq Jobs /\ wg = Cardinality(started)
    BY <1>1 DEF JobsTyped
  <1>3. IsFiniteSet(started)
    BY <1>2, AllAdded, FS_Subset
  <1>4. started' = started \ {job} /\ wg' = wg - 1
    BY DEF Return
  <1>5. Cardinality(started \ {job}) = Cardinality(started) - 1
    BY <1>1, <1>3, FS_RemoveElement
  <1>6. Jobs' = Jobs
    BY InputSame
  <1>7. QED
    BY <1>1, <1>2, <1>4, <1>5, <1>6

(* A process that dies leaves everything as it is.                         *)
LEMMA JobsDie ==
  ASSUME InputOK, JobsTyped, ReturnedMeansDrawn, Dies
  PROVE  JobsTyped' /\ ReturnedMeansDrawn'
  <1>1. /\ process' = "dead" /\ started' = started /\ wg' = wg
        /\ typed' = typed /\ tcp' = tcp /\ pinged' = pinged /\ combo' = combo /\ UNCHANGED input
    BY DEF Dies, rttVars
  <1>2. wg = Cardinality(started)
    BY FS_EmptySet DEF JobsTyped, ReturnedMeansDrawn
  <1>3. JobsTyped'
    BY <1>1, <1>2, InputSame DEF JobsTyped
  <1>4. ReturnedMeansDrawn'
    BY <1>1, InputSame DEF ReturnedMeansDrawn
  <1>5. QED
    BY <1>3, <1>4

(* Each step keeps the count of the goroutines that run, and what those    *)
(* that returned have drawn: the start of all of them.                     *)
LEMMA JobsStart ==
  ASSUME InputOK, JobsTyped, RttTyped, ReturnedMeansDrawn, Start
  PROVE  JobsTyped' /\ ReturnedMeansDrawn'
  <1>1. CASE Dies
    BY <1>1, JobsDie
  <1>2. CASE ~Dies
    <2>1. /\ process' = "wait" /\ started' = Jobs /\ wg' = Added
          /\ typed' = typed /\ tcp' = tcp /\ pinged' = pinged /\ combo' = combo /\ UNCHANGED input
      BY <1>2 DEF Start, rttVars
    <2>2. JobsTyped'
      BY <2>1, AllAdded, InputSame DEF JobsTyped
    <2>3. ReturnedMeansDrawn'
      BY <2>1, InputSame, JobsApart DEF ReturnedMeansDrawn
    <2>4. QED
      BY <2>2, <2>3
  <1>3. QED
    BY <1>1, <1>2

(* wg.Wait returns.                                                        *)
LEMMA JobsWait ==
  ASSUME InputOK, JobsTyped, ReturnedMeansDrawn, Wait
  PROVE  JobsTyped' /\ ReturnedMeansDrawn'
  <1>1. /\ process = "wait" /\ wg = 0 /\ process' = "done" /\ started' = started /\ wg' = wg
        /\ typed' = typed /\ tcp' = tcp /\ pinged' = pinged /\ combo' = combo /\ UNCHANGED input
    BY DEF Wait, rttVars
  <1>2. JobsTyped'
    BY <1>1, InputSame DEF JobsTyped
  <1>3. ReturnedMeansDrawn'
    BY <1>1, InputSame DEF ReturnedMeansDrawn
  <1>4. QED
    BY <1>2, <1>3

(* A box or CDF plot is drawn.                                             *)
LEMMA JobsTypedPlots ==
  ASSUME InputOK, JobsTyped, ReturnedMeansDrawn, NEW job \in TypedJobs, TypedPlots(job)
  PROVE  JobsTyped' /\ ReturnedMeansDrawn'
  <1>1. CASE Dies
    BY <1>1, JobsDie
  <1>2. CASE ~Dies
    <2>1. /\ Runs(job) /\ Return(job) /\ process' = process /\ UNCHANGED input
          /\ DOMAIN typed' = {job} \cup DOMAIN typed
          /\ tcp' = tcp /\ pinged' = pinged /\ combo' = combo
      BY <1>2, OneMore DEF TypedPlots, rttVars
    <2>2. /\ process = "wait" /\ process' = "wait" /\ started' \subseteq Jobs'
          /\ wg' = Cardinality(started') /\ started' = started \ {job}
      BY <2>1, OneLess DEF Return
    <2>3. JobsTyped'
      BY <2>1, <2>2, InputSame DEF JobsTyped
    <2>4. ReturnedMeansDrawn'
      BY <2>1, <2>2, InputSame, JobsApart DEF ReturnedMeansDrawn
    <2>5. QED
      BY <2>3, <2>4
  <1>3. QED
    BY <1>1, <1>2

(* The pages of a run are drawn.                                           *)
LEMMA JobsTcpdump ==
  ASSUME InputOK, JobsTyped, ReturnedMeansDrawn,
         NEW run \in ToSet(RequestedRuns), TcpdumpPlotter(run)
  PROVE  JobsTyped' /\ ReturnedMeansDrawn'
  <1>1. CASE Dies
    BY <1>1, JobsDie
  <1>2. CASE ~Dies
    <2> DEFINE job == <<"tcp", run>>
    <2>1. /\ Runs(job) /\ Return(job) /\ process' = process /\ UNCHANGED input
          /\ run \in DOMAIN reports /\ DOMAIN tcp' = {run} \cup DOMAIN tcp
          /\ typed' = typed /\ pinged' = pinged /\ combo' = combo
      <3>1. /\ Runs(job) /\ Return(job) /\ UNCHANGED <<input, process, typed, pinged, rttVars>>
            /\ run \in DOMAIN reports /\ tcp' = With(tcp, run, Plotted(reports[run]).pages)
        BY <1>2 DEF TcpdumpPlotter
      <3>2. DOMAIN tcp' = {run} \cup DOMAIN tcp
        BY <3>1, OneMore
      <3>3. QED
        BY <3>1, <3>2 DEF rttVars
    <2>2. /\ process = "wait" /\ process' = "wait" /\ started' \subseteq Jobs'
          /\ wg' = Cardinality(started') /\ started' = started \ {job}
      BY <2>1, OneLess DEF Return
    <2>3. JobsTyped'
      BY <2>1, <2>2, InputSame DEF JobsTyped
    <2>4. /\ job \notin TypedJobs /\ job # <<"rtt", "all">> /\ job \notin PingJobs
          /\ \A other \in TcpJobs \ started' : other \in TcpJobs \ started \/ other[2] = run
      BY <2>2 DEF TypedJobs, Types, PingJobs
    <2>5. ReturnedMeansDrawn'
      BY <2>1, <2>2, <2>4, InputSame DEF ReturnedMeansDrawn
    <2>6. QED
      BY <2>3, <2>5
  <1>3. QED
    BY <1>1, <1>2

(* The ping pages are drawn.                                               *)
LEMMA JobsPing ==
  ASSUME InputOK, JobsTyped, ReturnedMeansDrawn, PingPlotter
  PROVE  JobsTyped' /\ ReturnedMeansDrawn'
  <1>1. CASE Dies
    BY <1>1, JobsDie
  <1>2. CASE ~Dies
    <2> DEFINE job == <<"ping", "all">>
               n == Len(settings.pings)
    <2>1. /\ Runs(job) /\ Return(job) /\ process' = process /\ UNCHANGED input
          /\ pinged' = [i \in DOMAIN settings.pings |-> PingPage(settings.pings[i])]
          /\ typed' = typed /\ tcp' = tcp /\ combo' = combo
      BY <1>2 DEF PingPlotter, rttVars
    <2>2. /\ process = "wait" /\ process' = "wait" /\ started' \subseteq Jobs'
          /\ wg' = Cardinality(started') /\ started' = started \ {job}
      BY <2>1, OneLess DEF Return
    <2>3. n \in Nat /\ DOMAIN settings.pings = 1 .. n
      BY InputTypes, LenProperties DEF SettingsTyped
    <2>4. Len(pinged') = n
      BY <2>1, <2>3
    <2>5. JobsTyped'
      BY <2>1, <2>2, <2>4, InputSame DEF JobsTyped
    <2>6. job \notin TypedJobs /\ job # <<"rtt", "all">> /\ job \notin TcpJobs
      BY DEF TypedJobs, Types, TcpJobs
    <2>7. ReturnedMeansDrawn'
      BY <2>1, <2>2, <2>4, <2>6, InputSame DEF ReturnedMeansDrawn
    <2>8. QED
      BY <2>5, <2>7
  <1>3. QED
    BY <1>1, <1>2

(* A step of RttPlotter.                                                   *)
LEMMA JobsRtt ==
  ASSUME InputOK, JobsTyped, RttTyped, ReturnedMeansDrawn, RttPlotter
  PROVE  JobsTyped' /\ ReturnedMeansDrawn'
  <1>1. CASE Dies
    BY <1>1, JobsDie
  <1>2. CASE (ReadRun \/ DrawCombination) /\ ~Dies
    <2>1. /\ OnRtt /\ UNCHANGED input /\ process' = process /\ started' = started /\ wg' = wg
          /\ typed' = typed /\ tcp' = tcp /\ pinged' = pinged /\ combo' \in {combo, combo + 1}
      BY <1>2 DEF ReadRun, DrawCombination
    <2>2. process = "wait" /\ <<"rtt", "all">> \in started /\ combo <= Combos
      BY <2>1 DEF OnRtt, Runs
    <2>3. JobsTyped'
      BY <2>1, InputSame DEF JobsTyped
    <2>4. combo' <= Combos' + 1
      BY <2>1, <2>2, InputSame, InputTypes DEF RttTyped
    <2>5. ReturnedMeansDrawn'
      BY <2>1, <2>2, <2>4, InputSame DEF ReturnedMeansDrawn
    <2>6. QED
      BY <2>3, <2>5
  <1>3. CASE FinishRtt
    <2> DEFINE job == <<"rtt", "all">>
    <2>1. /\ Runs(job) /\ Return(job) /\ process' = process /\ UNCHANGED input
          /\ combo > Combos /\ combo' = combo
          /\ typed' = typed /\ tcp' = tcp /\ pinged' = pinged
      BY <1>3 DEF FinishRtt, rttVars
    <2>2. /\ process = "wait" /\ process' = "wait" /\ started' \subseteq Jobs'
          /\ wg' = Cardinality(started') /\ started' = started \ {job}
      BY <2>1, OneLess DEF Return
    <2>3. JobsTyped'
      BY <2>1, <2>2, InputSame DEF JobsTyped
    <2>4. job \notin TypedJobs /\ job \notin PingJobs /\ job \notin TcpJobs
      BY JobsApart
    <2>5. ReturnedMeansDrawn'
      BY <2>1, <2>2, <2>4, InputSame DEF ReturnedMeansDrawn
    <2>6. QED
      BY <2>3, <2>5
  <1>4. QED
    BY <1>1, <1>2, <1>3 DEF RttPlotter

(* Nothing changes.                                                        *)
LEMMA JobsStutter ==
  ASSUME InputOK, JobsTyped, ReturnedMeansDrawn, UNCHANGED vars
  PROVE  JobsTyped' /\ ReturnedMeansDrawn'
  <1>1. /\ process' = process /\ started' = started /\ wg' = wg
        /\ typed' = typed /\ tcp' = tcp /\ pinged' = pinged /\ combo' = combo /\ UNCHANGED input
    BY DEF vars, rttVars
  <1>2. JobsTyped'
    BY <1>1, InputSame DEF JobsTyped
  <1>3. ReturnedMeansDrawn'
    BY <1>1, InputSame DEF ReturnedMeansDrawn
  <1>4. QED
    BY <1>2, <1>3

(* Any step.                                                               *)
LEMMA JobsStep ==
  ASSUME InputOK, JobsTyped, RttTyped, ReturnedMeansDrawn, [Next]_vars
  PROVE  JobsTyped' /\ ReturnedMeansDrawn'
  <1>1. ASSUME NEW job \in TypedJobs, TypedPlots(job) PROVE JobsTyped' /\ ReturnedMeansDrawn'
    BY <1>1, JobsTypedPlots
  <1>2. ASSUME NEW run \in ToSet(RequestedRuns), TcpdumpPlotter(run)
        PROVE  JobsTyped' /\ ReturnedMeansDrawn'
    BY <1>2, JobsTcpdump
  <1>3. QED
    BY <1>1, <1>2, JobsStart, JobsWait, JobsPing, JobsRtt, JobsStutter DEF Next


(* When main returns, every plot has been drawn.                           *)
LEMMA DrawnWhenDone ==
  ASSUME IInv
  PROVE  DoneMeansDrawn
  <1> SUFFICES ASSUME process = "done" PROVE DoneMeansDrawn
    BY DEF DoneMeansDrawn
  <1>1. InputOK /\ JobsTyped /\ RttTyped /\ ReturnedMeansDrawn
    BY TypeParts DEF IInv
  <1>2. started = {}
    <2>1. wg = 0 /\ wg = Cardinality(started) /\ started \subseteq Jobs
      BY <1>1 DEF JobsTyped, ReturnedMeansDrawn
    <2>2. IsFiniteSet(started)
      BY <1>1, <2>1, AllAdded, FS_Subset
    <2>3. QED
      BY <2>1, <2>2, FS_EmptySet
  <1>3. Len(drawn) = Combos
    BY <1>1, <1>2, InputTypes DEF RttTyped, ReturnedMeansDrawn
  <1>4. DOMAIN typed = TypedJobs
    BY <1>1, <1>2 DEF JobsTyped, ReturnedMeansDrawn
  <1>5. settings.tcpdump => DOMAIN tcp = ToSet(RequestedRuns)
    <2> SUFFICES ASSUME settings.tcpdump PROVE DOMAIN tcp = ToSet(RequestedRuns)
      OBVIOUS
    <2>1. \A job \in TcpJobs : job[2] \in DOMAIN tcp
      BY <1>1, <1>2 DEF ReturnedMeansDrawn
    <2>2. ASSUME NEW run \in ToSet(RequestedRuns) PROVE run \in DOMAIN tcp
      <3>1. <<"tcp", run>> \in TcpJobs /\ <<"tcp", run>>[2] = run
        BY DEF TcpJobs
      <3>2. QED
        BY <2>1, <3>1
    <2>3. QED
      BY <1>1, <2>2 DEF ReturnedMeansDrawn
  <1>6. Len(pinged) = Len(settings.pings)
    <2>1. CASE settings.pings = <<>>
      <3>1. Len(settings.pings) = 0
        BY <2>1, EmptySeq
      <3>2. QED
        BY <1>1, <3>1 DEF JobsTyped
    <2>2. CASE settings.pings # <<>>
      BY <1>1, <1>2, <2>2 DEF ReturnedMeansDrawn, PingJobs
    <2>3. QED
      BY <2>1, <2>2
  <1>7. QED
    BY <1>2, <1>3, <1>4, <1>5, <1>6 DEF DoneMeansDrawn

(***************************************************************************)
(* The typed plots show the files of their cells.                          *)
(***************************************************************************)
TypedShow ==
  \A job \in DOMAIN typed : \A cell \in DOMAIN typed[job] : \A key \in Keys(job[2]) :
    LET values == typed[job][cell].values
        shown == IF key \in DOMAIN values THEN values[key] ELSE {}
        measured == MeasuredFor(job[2], cell, key)
    IN /\ measured \subseteq shown
       /\ \A s \in shown \ measured : job[2] # "endpoints" /\ <<cell[1], s.file.dest>> \in Tails

DrawnShow ==
  \A c \in DOMAIN drawn :
    LET f == FileOf(c, 1)
    IN {p.sample : p \in ToSet(drawn[c].points)}
         = Measured(Combination(f.dest, f.inter, f.size))

(* PlotsShowTheirFiles speaks of the plots of RttPlotter and of the typed  *)
(* ones.                                                                   *)
LEMMA ShowParts == PlotsShowTheirFiles <=> DrawnShow /\ TypedShow
  BY DEF PlotsShowTheirFiles, DrawnShow, TypedShow

(* The files whose names openDesiredFiles looks for, and the combination   *)
(* of a cell and a key.                                                    *)
LEMMA WantedFiles ==
  ASSUME NEW type \in Types, NEW cell, NEW key, NEW f
  PROVE  LET found == f \in Desired(type, cell) /\ KeyOf(type, f) = key
             same == /\ f \in DOMAIN files /\ f.run \in ToSet(RequestedRuns)
                     /\ Combination(f.dest, f.inter, f.size) \in CombinationsOf(type, cell, key)
         IN /\ same => found
            /\ found => same \/ (type # "endpoints" /\ <<cell[1], f.dest>> \in Tails)
  <1>1. CASE type = "sizes"
    BY <1>1 DEF CombinationsOf, Combination, Desired, KeyOf, NameContains, WantedRun
  <1>2. CASE type = "intervals"
    BY <1>2 DEF CombinationsOf, Combination, Desired, KeyOf, NameContains, WantedRun
  <1>3. CASE type = "endpoints"
    BY <1>3 DEF CombinationsOf, Combination, Desired, KeyOf, NameContains, WantedRun
  <1>4. QED
    BY <1>1, <1>2, <1>3 DEF Types

(* A sample is of its file.                                                *)
LEMMA SampleOfFile ==
  ASSUME NEW f, NEW s \in Samples(f)
  PROVE  s.file = f
  BY DEF Samples

(* What a cell of a typed plot shows under a key.                          *)
LEMMA CellShows ==
  ASSUME NEW type \in Types, NEW cell, NEW key \in Keys(type)
  PROVE  LET values == Shown(type, cell)
             shown == IF key \in DOMAIN values THEN values[key] ELSE {}
             measured == MeasuredFor(type, cell, key)
         IN /\ measured \subseteq shown
            /\ \A s \in shown \ measured : type # "endpoints" /\ <<cell[1], s.file.dest>> \in Tails
  <1> DEFINE values == Shown(type, cell)
             shown == IF key \in DOMAIN values THEN values[key] ELSE {}
             measured == MeasuredFor(type, cell, key)
             Found(f) == f \in Desired(type, cell) /\ KeyOf(type, f) = key
             Same(f) == /\ f \in DOMAIN files /\ f.run \in ToSet(RequestedRuns)
                        /\ Combination(f.dest, f.inter, f.size) \in CombinationsOf(type, cell, key)
             Other(f) == type # "endpoints" /\ <<cell[1], f.dest>> \in Tails
  <1>1. shown = ValuesOf(type, cell, key)
    BY DEF Shown, PresentKeys
  <1>2. \A s : s \in shown <=> \E f : Found(f) /\ s \in Samples(f)
    BY <1>1 DEF ValuesOf
  <1>3. \A s : s \in measured <=> \E f : Same(f) /\ s \in Samples(f)
    BY DEF MeasuredFor, Measured, ToSet
  <1>4. \A f : Same(f) => Found(f)
    BY WantedFiles
  <1>5. \A f : Found(f) => Same(f) \/ Other(f)
    BY WantedFiles
  <1>6. measured \subseteq shown
    BY <1>2, <1>3, <1>4
  <1>7. ASSUME NEW s \in shown \ measured PROVE Other(s.file)
    <2>1. PICK f : Found(f) /\ s \in Samples(f)
      BY <1>2, <1>7
    <2>2. ~Same(f)
      BY <1>3, <1>7, <2>1
    <2>3. Other(f)
      BY <1>5, <2>1, <2>2
    <2>4. QED
      BY <2>1, <2>3, SampleOfFile
  <1>8. QED
    BY <1>6, <1>7

(* A typed plot shows its files from when it is drawn.                     *)
LEMMA TypedShowStep ==
  ASSUME InputOK, TypedShow, JobsTyped, [Next]_vars
  PROVE  TypedShow'
  <1> DEFINE Cell(j, cell, key, values) ==
               LET shown == IF key \in DOMAIN values THEN values[key] ELSE {}
                   measured == MeasuredFor(j[2], cell, key)
               IN /\ measured \subseteq shown
                  /\ \A s \in shown \ measured : j[2] # "endpoints" /\ <<cell[1], s.file.dest>> \in Tails
  <1>1. UNCHANGED input
    BY DEF Next, Start, Wait, PingPlotter, RttPlotter, ReadRun, DrawCombination, FinishRtt,
           TypedPlots, TcpdumpPlotter, Dies, vars
  <1>2. /\ \A t : Keys(t)' = Keys(t)
        /\ \A comb : Measured(comb)' = Measured(comb)
    BY <1>1, InputSame DEF Keys
  <1>3. TypedShow <=> \A j \in DOMAIN typed : \A cell \in DOMAIN typed[j] : \A key \in Keys(j[2]) :
                        Cell(j, cell, key, typed[j][cell].values)
    BY DEF TypedShow
  <1>4. TypedShow' <=> \A j \in DOMAIN typed' : \A cell \in DOMAIN typed'[j] : \A key \in Keys(j[2]) :
                         Cell(j, cell, key, typed'[j][cell].values)
    <2>1. \A j, cell, key : MeasuredFor(j, cell, key)' = MeasuredFor(j, cell, key)
      <3>1. settings' = settings
        BY <1>1, InputSame
      <3>2. \A j, cell, key : CombinationsOf(j, cell, key)' = CombinationsOf(j, cell, key)
        BY <3>1 DEF CombinationsOf, ToSet
      <3>3. QED
        BY <1>2, <3>2 DEF MeasuredFor
    <2>2. QED
      BY <1>2, <2>1 DEF TypedShow
  <1>5. CASE typed' = typed
    BY <1>3, <1>4, <1>5
  <1>6. ASSUME NEW job \in TypedJobs, TypedPlots(job) PROVE TypedShow'
    <2>1. CASE Dies
      BY <1>5, <2>1 DEF Dies
    <2>2. CASE ~Dies
      <3> DEFINE plot == [cell \in Cells(job[2]) |->
                           [values |-> Shown(job[2], cell), axis |-> TypedAxis(job, cell)]]
      <3>1. typed' = With(typed, job, plot)
        BY <1>6, <2>2 DEF TypedPlots
      <3>4. ASSUME NEW cell \in DOMAIN plot, NEW key \in Keys(job[2])
            PROVE  Cell(job, cell, key, plot[cell].values)
        <4>1. plot[cell].values = Shown(job[2], cell) /\ job[2] \in Types
          BY JobsApart
        <4>2. QED
          BY <4>1, CellShows
      <3> HIDE DEF plot, Cell
      <3>2. /\ DOMAIN typed' = {job} \cup DOMAIN typed
            /\ \A j \in DOMAIN typed' : typed'[j] = IF j = job THEN plot ELSE typed[j]
        BY <3>1 DEF With
      <3>5. ASSUME NEW j \in DOMAIN typed', NEW cell \in DOMAIN typed'[j], NEW key \in Keys(j[2])
            PROVE  Cell(j, cell, key, typed'[j][cell].values)
        <4>1. CASE j = job
          BY <3>2, <3>4, <4>1
        <4>2. CASE j # job
          BY <1>3, <3>2, <4>2
        <4>3. QED
          BY <4>1, <4>2
      <3>6. QED
        BY <1>4, <3>5
    <2>3. QED
      BY <2>1, <2>2
  <1>7. CASE ~\E job \in TypedJobs : TypedPlots(job)
    <2>1. typed' = typed
      BY <1>7 DEF Next, Start, Wait, PingPlotter, RttPlotter, ReadRun, DrawCombination, FinishRtt,
                  TcpdumpPlotter, Dies, vars
    <2>2. QED
      BY <1>5, <2>1
  <1>8. QED
    BY <1>6, <1>7


(***************************************************************************)
(* RttPlotter: what reading a run adds, and what drawing takes away.       *)
(***************************************************************************)
RttPart ==
  /\ RttTyped /\ combo <= Combos + 1
  /\ PlotsTyped /\ PointsSoFar /\ DrawnShow /\ AxisSoFar /\ OneTimeAxis

(* The sequence s, then t.                                                 *)
LEMMA SetOfConcat ==
  ASSUME NEW S, NEW s \in Seq(S), NEW t \in Seq(S)
  PROVE  ToSet(s \o t) = ToSet(s) \cup ToSet(t)
  <1> DEFINE m == Len(s)
             n == Len(t)
             st == s \o t
  <1>1. /\ m \in Nat /\ n \in Nat /\ DOMAIN s = 1 .. m /\ DOMAIN t = 1 .. n
        /\ st \in Seq(S) /\ Len(st) = m + n
        /\ \A i \in 1 .. m + n : st[i] = IF i <= m THEN s[i] ELSE t[i - m]
    BY LenProperties, ConcatProperties
  <1>2. DOMAIN st = 1 .. m + n
    BY <1>1, LenProperties
  <1> HIDE DEF m, n, st
  <1>3. ASSUME NEW i \in 1 .. m + n PROVE st[i] \in ToSet(s) \cup ToSet(t)
    <2>1. CASE i <= m
      <3>1. i \in 1 .. m /\ st[i] = s[i]
        BY <1>1, <2>1
      <3>2. QED
        BY <1>1, <3>1 DEF ToSet
    <2>2. CASE ~(i <= m)
      <3>1. i - m \in 1 .. n /\ st[i] = t[i - m]
        BY <1>1, <2>2
      <3>2. QED
        BY <1>1, <3>1 DEF ToSet
    <2>3. QED
      BY <2>1, <2>2
  <1>4. ASSUME NEW i \in 1 .. m PROVE s[i] \in ToSet(st)
    <2>1. i \in 1 .. m + n /\ st[i] = s[i]
      BY <1>1
    <2>2. QED
      BY <1>2, <2>1 DEF ToSet
  <1>5. ASSUME NEW i \in 1 .. n PROVE t[i] \in ToSet(st)
    <2>1. m + i \in 1 .. m + n /\ st[m + i] = t[i]
      <3>1. m + i \in 1 .. m + n /\ ~(m + i <= m) /\ (m + i) - m = i
        BY <1>1
      <3>2. QED
        BY <1>1, <3>1
    <2>2. QED
      BY <1>2, <2>1 DEF ToSet
  <1>6. /\ \A x : x \in ToSet(st) <=> \E i \in 1 .. m + n : x = st[i]
        /\ \A x : x \in ToSet(s) <=> \E i \in 1 .. m : x = s[i]
        /\ \A x : x \in ToSet(t) <=> \E i \in 1 .. n : x = t[i]
    BY <1>1, <1>2 DEF ToSet
  <1>7. ToSet(st) = ToSet(s) \cup ToSet(t)
    BY <1>3, <1>4, <1>5, <1>6
  <1>8. QED
    BY <1>7 DEF st

(* The i-th row of a file, as a point of an axis.                          *)
PointOf(f, i, x) == [x |-> x, sample |-> [file |-> f, row |-> i, rtt |-> Rows(f)[i].rtt]]

Base(f, run) == IF run = 1 THEN Rows(f)[1].at ELSE lastOfRun

(* The points of a run are added at the end; the line, if one is, is where *)
(* the last of them lies.                                                  *)
LEMMA RunAdded ==
  ASSUME InputOK, RttTyped, PlotsTyped, NEW f \in DOMAIN files, Rows(f) # <<>>,
         NEW run \in Nat, AddRun(f, run)
  PROVE  LET m == Len(points)
             n == Len(Rows(f))
             Gap == Rows(f)[1].at - Base(f, run)
         IN /\ m \in Nat /\ n \in Nat /\ n >= 1
            /\ first' \in Nat /\ lastOfRun' \in Int
            /\ first' = IF run = 1 THEN Rows(f)[1].at ELSE first
            /\ points' \in Seq(Point) /\ Len(points') = m + n
            /\ \A i \in 1 .. m : points'[i] = points[i]
            /\ \A j \in 1 .. n : points'[m + j] = PointOf(f, j, Rows(f)[j].at - first' - Gap)
            /\ ToSet(points') = ToSet(points) \cup {PointOf(f, j, Rows(f)[j].at - first' - Gap) : j \in 1 .. n}
            /\ lines \subseteq lines' /\ lines' \subseteq Int
            /\ ~Torn(f) => /\ lastOfRun' = Rows(f)[n].at - Gap
                           /\ at # Len(RequestedRuns) => points'[m + n].x \in lines'
  <1> DEFINE rows == Rows(f)
             m == Len(points)
             n == Len(rows)
             base == Base(f, run)
             gap == rows[1].at - base
             X(j) == rows[j].at - first' - gap
             added == [j \in 1 .. n |-> PointOf(f, j, X(j))]
  <1>1. /\ rows \in Seq([at : Nat, rtt : Int]) /\ n \in Nat
        /\ \A j \in 1 .. n : rows[j].at \in Nat /\ rows[j].rtt \in Int
    BY RowsTyped
  <1>2. n >= 1
    BY <1>1, EmptySeq
  <1>3. points \in Seq(Point) /\ m \in Nat /\ lines \subseteq Int
    BY LenProperties DEF PlotsTyped
  <1>4. /\ first' = IF run = 1 THEN rows[1].at ELSE first
        /\ points' = points \o added
        /\ Torn(f) => lastOfRun' = base /\ lines' = lines
        /\ ~Torn(f) => /\ lastOfRun' = rows[n].at - gap
                       /\ lines' = IF at # Len(RequestedRuns) THEN lines \cup {X(n)} ELSE lines
    BY DEF AddRun, Base, PointOf, Torn, EndOfRun
  <1>5. first' \in Nat /\ base \in Int /\ gap \in Int
    <2>1. rows[1].at \in Nat
      BY <1>1, <1>2
    <2>2. first' \in Nat
      BY <1>4, <2>1 DEF RttTyped
    <2>3. base \in Int
      BY <2>1 DEF RttTyped, Base
    <2>4. QED
      BY <2>1, <2>2, <2>3
  <1>6. ASSUME NEW j \in 1 .. n PROVE X(j) \in Int
    <2>1. rows[j].at \in Int /\ first' \in Int
      BY <1>1, <1>5
    <2> HIDE DEF rows, gap
    <2>2. QED
      BY <1>5, <2>1
  <1>7. \A j \in 1 .. n : PointOf(f, j, X(j)) \in Point
    <2>1. ASSUME NEW j \in 1 .. n PROVE PointOf(f, j, X(j)) \in Point
      <3>1. X(j) \in Int /\ rows[j].rtt \in Int /\ j \in Nat
        BY <1>1, <1>6
      <3> HIDE DEF X, rows
      <3>2. QED
        BY <3>1 DEF PointOf, Point, Sample, rows
    <2>2. QED
      BY <2>1
  <1> HIDE DEF X
  <1>8. added \in Seq(Point) /\ Len(added) = n /\ \A j \in 1 .. n : added[j] = PointOf(f, j, X(j))
    BY <1>1, <1>7
  <1> HIDE DEF added
  <1>9. /\ points' \in Seq(Point) /\ Len(points') = m + n
        /\ \A i \in 1 .. m + n : points'[i] = IF i <= m THEN points[i] ELSE added[i - m]
    <2>1. /\ points \o added \in Seq(Point) /\ Len(points \o added) = m + Len(added)
          /\ \A i \in 1 .. m + Len(added) :
               (points \o added)[i] = IF i <= m THEN points[i] ELSE added[i - m]
      BY <1>3, <1>8, ConcatProperties
    <2>2. points' = points \o added /\ Len(added) = n
      BY <1>4, <1>8 DEF added
    <2>3. QED
      BY <2>1, <2>2
  <1>10. \A i \in 1 .. m : points'[i] = points[i]
    BY <1>1, <1>3, <1>9
  <1>11. ASSUME NEW j \in 1 .. n PROVE points'[m + j] = PointOf(f, j, X(j))
    <2>1. m + j \in 1 .. m + n /\ ~(m + j <= m) /\ (m + j) - m = j
      BY <1>1, <1>3
    <2>2. points'[m + j] = added[j]
      BY <1>9, <2>1
    <2>3. QED
      BY <1>8, <2>2
  <1>12. ToSet(points') = ToSet(points) \cup {PointOf(f, j, X(j)) : j \in 1 .. n}
    <2>1. DOMAIN added = 1 .. n
      BY <1>8, LenProperties
    <2>2. ToSet(added) = {PointOf(f, j, X(j)) : j \in 1 .. n}
      BY <1>8, <2>1 DEF ToSet
    <2>3. QED
      BY <1>3, <1>4, <1>8, <2>2, SetOfConcat
  <1>13. points'[m + n].x = X(n) /\ X(n) \in Int
    <2>1. points'[m + n] = PointOf(f, n, X(n)) /\ n \in 1 .. n
      BY <1>1, <1>2, <1>11
    <2>2. QED
      BY <1>6, <2>1 DEF PointOf
  <1>14. lines \subseteq lines' /\ lines' \subseteq Int
    BY <1>3, <1>4, <1>13
  <1>15. ~Torn(f) => /\ lastOfRun' = rows[n].at - gap
                     /\ at # Len(RequestedRuns) => points'[m + n].x \in lines'
    BY <1>4, <1>13
  <1>16. lastOfRun' \in Int
    <2>1. rows[n].at \in Nat
      BY <1>1, <1>2
    <2>2. QED
      BY <1>4, <1>5, <2>1
  <1>17. QED
    BY <1>1, <1>2, <1>3, <1>4, <1>5, <1>9, <1>10, <1>11, <1>12, <1>14, <1>15, <1>16 DEF X

(***************************************************************************)
(* A run is read.                                                          *)
(***************************************************************************)

(* The file of a run is named after it.                                    *)
LEMMA FileOfRun ==
  ASSUME NEW c, NEW run
  PROVE  FileOf(c, run).run = run
  BY DEF FileOf

(* The file that is read is none of those read before it.                  *)
LEMMA FileIsNew ==
  ASSUME InputOK, PointsSoFar, RttTyped, at <= Len(RequestedRuns), NEW i \in DOMAIN points
  PROVE  points[i].sample.file # FileOf(combo, RequestedRuns[at])
  <1>1. PICK k \in 1 .. at - 1 : points[i].sample.file = FileOf(combo, RequestedRuns[k])
    BY DEF PointsSoFar
  <1>2. k \in 1 .. Len(RequestedRuns) /\ at \in 1 .. Len(RequestedRuns) /\ k # at
    BY InputTypes DEF RttTyped
  <1>3. RequestedRuns[k] # RequestedRuns[at]
    BY <1>2, InputTypes
  <1>4. QED
    BY <1>1, <1>3, FileOfRun

RunNow == RequestedRuns[at]
FileNow == FileOf(combo, RunNow)
There == FileNow \in DOMAIN files /\ Rows(FileNow) # <<>>

(* What ReadRun does but for the box plots of its page.                    *)
Reads ==
  /\ at <= Len(RequestedRuns) /\ at' = at + 1
  /\ UNCHANGED <<input, combo, drawn>>
  /\ IF There THEN AddRun(FileNow, RunNow) ELSE UNCHANGED <<first, lastOfRun, points, lines>>

(* ReadRun reads the next run, unless the program dies.                    *)
LEMMA ReadRunReads ==
  ASSUME ReadRun, ~Dies
  PROVE  Reads
  BY DEF ReadRun, Reads, There, FileNow, RunNow

(* RunAdded, of the run that is read.                                      *)
LEMMA NowAdded ==
  ASSUME InputOK, RttPart, Reads, There
  PROVE  LET f == FileNow
             m == Len(points)
             n == Len(Rows(f))
             Gap == Rows(f)[1].at - Base(f, RunNow)
         IN /\ RunNow \in Nat /\ f \in DOMAIN files /\ AddRun(f, RunNow)
            /\ m \in Nat /\ n \in Nat /\ n >= 1
            /\ first' \in Nat /\ lastOfRun' \in Int
            /\ first' = IF RunNow = 1 THEN Rows(f)[1].at ELSE first
            /\ points' \in Seq(Point) /\ Len(points') = m + n /\ DOMAIN points' = 1 .. m + n
            /\ \A i \in 1 .. m : points'[i] = points[i]
            /\ \A j \in 1 .. n : points'[m + j] = PointOf(f, j, Rows(f)[j].at - first' - Gap)
            /\ ToSet(points') = ToSet(points) \cup {PointOf(f, j, Rows(f)[j].at - first' - Gap) : j \in 1 .. n}
            /\ lines \subseteq lines' /\ lines' \subseteq Int
            /\ ~Torn(f) => /\ lastOfRun' = Rows(f)[n].at - Gap
                           /\ at # Len(RequestedRuns) => points'[m + n].x \in lines'
  <1>1. RttTyped /\ PlotsTyped
    BY DEF RttPart
  <1>2. RunNow \in Nat
    <2>1. at \in 1 .. Len(RequestedRuns)
      BY <1>1, InputTypes DEF RttTyped, Reads
    <2>2. QED
      BY <2>1, InputTypes, ElementOfSeq DEF RunNow
  <1>3. FileNow \in DOMAIN files /\ Rows(FileNow) # <<>> /\ AddRun(FileNow, RunNow)
    BY DEF Reads, There
  <1>4. points' \in Seq(Point) /\ DOMAIN points' = 1 .. Len(points')
    BY <1>1, <1>2, <1>3, RunAdded, LenProperties
  <1>5. QED
    BY <1>1, <1>2, <1>3, <1>4, RunAdded

(* What is gathered has its type.                                          *)
LEMMA ReadTypes ==
  ASSUME InputOK, RttPart, Reads
  PROVE  RttTyped' /\ PlotsTyped'
  <1>1. /\ RttTyped /\ PlotsTyped /\ UNCHANGED input
        /\ at <= Len(RequestedRuns) /\ at' = at + 1 /\ combo' = combo /\ drawn' = drawn
    BY DEF RttPart, Reads
  <1>2. at' \in 1 .. Len(RequestedRuns') + 1
    BY <1>1, InputSame, InputTypes DEF RttTyped
  <1>3. /\ first' \in Nat /\ lastOfRun' \in Int
        /\ points' \in Seq(Point) /\ lines' \subseteq Int
    <2>1. CASE There
      BY <2>1, NowAdded
    <2>2. CASE ~There
      BY <1>1, <2>2 DEF Reads, RttTyped, PlotsTyped
    <2>3. QED
      BY <2>1, <2>2
  <1>4. \A i \in DOMAIN points' : points'[i].x \in Int
    <2>1. DOMAIN points' = 1 .. Len(points')
      BY <1>3, LenProperties
    <2>2. \A i \in 1 .. Len(points') : points'[i] \in Point
      BY <1>3, ElementOfSeq
    <2>3. QED
      BY <2>1, <2>2 DEF Point
  <1>5. RttTyped'
    BY <1>1, <1>2, <1>3, <1>4 DEF RttTyped
  <1>6. PlotsTyped'
    BY <1>1, <1>3, InputSame DEF PlotsTyped
  <1>7. QED
    BY <1>5, <1>6

(* The samples of the first n runs, of the current combination.            *)
Gathered(n) == UNION {SamplesIn(combo, RequestedRuns[k]) : k \in 1 .. n}

(* The samples of the first n runs, one by one.                            *)
LEMMA GatheredElements ==
  \A n, x : x \in Gathered(n) <=> \E k \in 1 .. n : x \in SamplesIn(combo, RequestedRuns[k])
  BY DEF Gathered

(* The next run adds its samples.                                          *)
LEMMA GatheredNext ==
  ASSUME NEW n \in Nat, n >= 1
  PROVE  Gathered(n) = Gathered(n - 1) \cup SamplesIn(combo, RequestedRuns[n])
  <1>1. n \in 1 .. n /\ \A k : k \in 1 .. n <=> k \in 1 .. n - 1 \/ k = n
    OBVIOUS
  <1>2. ASSUME NEW x \in Gathered(n)
        PROVE  x \in Gathered(n - 1) \cup SamplesIn(combo, RequestedRuns[n])
    BY <1>1, GatheredElements
  <1>3. ASSUME NEW x \in Gathered(n - 1) \cup SamplesIn(combo, RequestedRuns[n])
        PROVE  x \in Gathered(n)
    BY <1>1, GatheredElements
  <1>4. QED
    BY <1>2, <1>3

(* The samples to gather are those of the files, which stay.               *)
LEMMA GatheredSame ==
  ASSUME UNCHANGED <<input, combo>>
  PROVE  \A n : Gathered(n)' = Gathered(n)
  <1>1. \A k : SamplesIn(combo, RequestedRuns[k])' = SamplesIn(combo, RequestedRuns[k])
    BY InputSame
  <1>2. \A n, x : x \in Gathered(n)' <=> \E k \in 1 .. n : x \in SamplesIn(combo, RequestedRuns[k])'
    BY DEF Gathered
  <1>3. \A n, x : x \in Gathered(n)' <=> x \in Gathered(n)
    BY <1>1, <1>2, GatheredElements
  <1>4. QED
    BY <1>3

(* The points gathered are the samples of the runs read.                   *)
LEMMA ReadPoints ==
  ASSUME InputOK, RttPart, Reads
  PROVE  PointsSoFar'
  <1> DEFINE In(k) == SamplesIn(combo, RequestedRuns[k])
             S == {p.sample : p \in ToSet(points)}
             T == {p.sample : p \in ToSet(points')}
  <1>1. /\ RttTyped /\ PointsSoFar /\ UNCHANGED input
        /\ at <= Len(RequestedRuns) /\ at' = at + 1 /\ combo' = combo
    BY DEF RttPart, Reads
  <1>2. at \in Nat /\ at >= 1
    BY <1>1, InputTypes DEF RttTyped
  <1>3. /\ S = Gathered(at - 1)
        /\ \A i \in DOMAIN points : \E k \in 1 .. at - 1 :
             points[i].sample.file = FileOf(combo, RequestedRuns[k])
    BY <1>1 DEF PointsSoFar, Gathered
  <1>4. Gathered(at) = Gathered(at - 1) \cup In(at)
    BY <1>2, GatheredNext
  <1>5. /\ T = S \cup In(at)
        /\ \A i \in DOMAIN points' : \E k \in 1 .. at :
             points'[i].sample.file = FileOf(combo, RequestedRuns[k])
    <2>1. CASE There
      <3> DEFINE f == FileNow
                 m == Len(points)
                 n == Len(Rows(f))
                 X(j) == Rows(f)[j].at - first' - (Rows(f)[1].at - Base(f, RunNow))
      <3>1. /\ f \in DOMAIN files /\ m \in Nat /\ n \in Nat /\ DOMAIN points' = 1 .. m + n
            /\ \A i \in 1 .. m : points'[i] = points[i]
            /\ \A j \in 1 .. n : points'[m + j] = PointOf(f, j, X(j))
            /\ ToSet(points') = ToSet(points) \cup {PointOf(f, j, X(j)) : j \in 1 .. n}
        BY <2>1, NowAdded
      <3> HIDE DEF X
      <3>2. In(at) = {[file |-> f, row |-> j, rtt |-> Rows(f)[j].rtt] : j \in 1 .. n}
        BY <3>1, RowsTyped DEF SamplesIn, FileNow, RunNow
      <3>3. \A j : PointOf(f, j, X(j)).sample = [file |-> f, row |-> j, rtt |-> Rows(f)[j].rtt]
        BY DEF PointOf
      <3> HIDE DEF In, n
      <3>4. {p.sample : p \in ToSet(points')} = {p.sample : p \in ToSet(points)} \cup In(at)
        <4> DEFINE New == {PointOf(f, j, X(j)) : j \in 1 .. n}
        <4>1. {p.sample : p \in New} = {PointOf(f, j, X(j)).sample : j \in 1 .. n}
          OBVIOUS
        <4>2. ToSet(points') = ToSet(points) \cup New
          BY <3>1
        <4> HIDE DEF New
        <4>3. {PointOf(f, j, X(j)).sample : j \in 1 .. n} = In(at)
          BY <3>2, <3>3
        <4>4. QED
          BY <4>1, <4>2, <4>3
      <3>5. ASSUME NEW i \in 1 .. m + n
            PROVE  \E k \in 1 .. at : points'[i].sample.file = FileOf(combo, RequestedRuns[k])
        <4>1. CASE i \in 1 .. m
          <5>1. i \in DOMAIN points
            BY <1>1, <4>1, LenProperties DEF RttPart, PlotsTyped
          <5>2. PICK k \in 1 .. at - 1 : points[i].sample.file = FileOf(combo, RequestedRuns[k])
            BY <1>3, <5>1
          <5>3. k \in 1 .. at
            BY <1>2
          <5>4. QED
            BY <3>1, <4>1, <5>2, <5>3
        <4>2. CASE i \notin 1 .. m
          <5>1. \E j \in 1 .. n : i = m + j
            <6>1. i - m \in 1 .. n /\ i = m + (i - m)
              BY <3>1, <4>2
            <6>2. QED
              BY <6>1
          <5>2. PICK j \in 1 .. n : points'[i] = PointOf(f, j, X(j))
            BY <3>1, <5>1
          <5>3. points'[i].sample.file = f
            BY <5>2 DEF PointOf
          <5>4. at \in 1 .. at
            BY <1>2
          <5>5. QED
            BY <5>3, <5>4 DEF FileNow, RunNow
        <4>3. QED
          BY <4>1, <4>2
      <3>6. QED
        BY <3>1, <3>4, <3>5
    <2>2. CASE ~There
      <3>1. points' = points
        BY <2>2 DEF Reads
      <3>2. In(at) = {}
        <4>1. CASE FileNow \notin DOMAIN files
          BY <4>1 DEF SamplesIn, FileNow, RunNow
        <4>2. CASE FileNow \in DOMAIN files /\ Rows(FileNow) = <<>>
          BY <4>2 DEF SamplesIn, Samples, FileNow, RunNow
        <4>3. QED
          BY <2>2, <4>1, <4>2 DEF There
      <3>3. \A k \in 1 .. at - 1 : k \in 1 .. at
        BY <1>2
      <3> HIDE DEF In
      <3>4. QED
        BY <1>3, <3>1, <3>2, <3>3
    <2>3. QED
      BY <2>1, <2>2
  <1>6. at' - 1 = at
    BY <1>1, <1>2
  <1>7. /\ \A k : FileOf(combo, RequestedRuns[k])' = FileOf(combo, RequestedRuns[k])
        /\ \A n : Gathered(n)' = Gathered(n)
    BY <1>1, InputSame, GatheredSame
  <1> HIDE DEF In, S, T
  <1>8. T = Gathered(at)
    BY <1>3, <1>4, <1>5
  <1>9. {p.sample : p \in ToSet(points')} = Gathered(at - 1)'
    BY <1>6, <1>7, <1>8 DEF T
  <1>10. \A i \in DOMAIN points' : \E k \in 1 .. at' - 1 :
           points'[i].sample.file = FileOf(combo, RequestedRuns[k])'
    BY <1>5, <1>6, <1>7
  <1>11. QED
    BY <1>9, <1>10 DEF PointsSoFar, Gathered


(***************************************************************************)
(* The time axis.                                                          *)
(***************************************************************************)
Time(s) == Rows(s.file)[s.row].at

(* What OneTimeAxis asks of two points that follow each other.             *)
Follows(p, q, ends) ==
  IF p.sample.file = q.sample.file
  THEN p.x - q.x = Time(p.sample) - Time(q.sample)
  ELSE \/ p.x = q.x /\ q.x \in ends
       \/ Torn(q.sample.file)
       \/ p.sample.file.run = 1 /\ q.x \in ends

(* OneTimeAxis compares each point with the one before.                    *)
LEMMA AxisByPoints ==
  OneTimeAxis <=> \A i \in DOMAIN points :
                    IF i = 1 THEN points[i].x = 0 ELSE Follows(points[i], points[i - 1], lines)
  BY DEF OneTimeAxis, Follows, Time

(* So it does in the next state.                                           *)
LEMMA AxisByPointsNext ==
  ASSUME UNCHANGED input
  PROVE  OneTimeAxis' <=> \A i \in DOMAIN points' :
                            IF i = 1 THEN points'[i].x = 0
                            ELSE Follows(points'[i], points'[i - 1], lines')
  <1>1. \A f : Rows(f)' = Rows(f) /\ Torn(f)' = Torn(f)
    BY InputSame
  <1>2. QED
    BY <1>1 DEF OneTimeAxis, Follows, Time

(* A line that is drawn stays.                                             *)
LEMMA FollowsStill ==
  ASSUME NEW p, NEW q, NEW A, NEW B, A \subseteq B, Follows(p, q, A)
  PROVE  Follows(p, q, B)
  BY DEF Follows

(* Where the last run ended is where the next one begins.                  *)
LEMMA ReadAxis ==
  ASSUME InputOK, RttPart, Reads
  PROVE  AxisSoFar'
  <1>1. /\ RttTyped /\ PlotsTyped /\ AxisSoFar /\ UNCHANGED input
        /\ at <= Len(RequestedRuns) /\ at' = at + 1 /\ at \in Nat
        /\ Len(RequestedRuns) \in Nat /\ RequestedRuns' = RequestedRuns
        /\ \A g : Torn(g)' = Torn(g)
    BY InputTypes, InputSame DEF RttPart, Reads, RttTyped
  <1>2. CASE There
    <2> DEFINE f == FileNow
               m == Len(points)
               n == Len(Rows(f))
               base == Base(f, RunNow)
               q == points'[Len(points')]
    <2>1. /\ f \in DOMAIN files /\ m \in Nat /\ n \in Nat /\ n >= 1
          /\ points' \in Seq(Point) /\ Len(points') = m + n
          /\ \A j \in 1 .. n : points'[m + j] = PointOf(f, j, Rows(f)[j].at - first' - (Rows(f)[1].at - base))
          /\ ~Torn(f) => /\ lastOfRun' = Rows(f)[n].at - (Rows(f)[1].at - base)
                         /\ at # Len(RequestedRuns) => points'[m + n].x \in lines'
          /\ first' \in Nat
      BY <1>2, NowAdded
    <2>2. base \in Int
      BY <1>1, <2>1, RowsTyped DEF Base, RttTyped
    <2>3. Rows(f)[1].at \in Nat /\ Rows(f)[n].at \in Nat
      BY <1>1, <2>1, RowsTyped
    <2>4. q = PointOf(f, n, Rows(f)[n].at - first' - (Rows(f)[1].at - base))
      BY <2>1
    <2>5. points' # <<>>
      BY <2>1, EmptySeq
    <2>6. q.sample.file = f /\ q.x = Rows(f)[n].at - first' - (Rows(f)[1].at - base)
      BY <2>4 DEF PointOf
    <2>7. ~Torn(f) => q.x = lastOfRun' - first'
      <3>1. \A a, b, c, d \in Int : a - b - (c - d) = (a - (c - d)) - b
        OBVIOUS
      <3>2. Rows(f)[n].at \in Int /\ first' \in Int /\ Rows(f)[1].at \in Int
        BY <2>1, <2>3
      <3> HIDE DEF base, n, q, f
      <3>3. Rows(f)[n].at - first' - (Rows(f)[1].at - base) = (Rows(f)[n].at - (Rows(f)[1].at - base)) - first'
        BY <2>2, <3>1, <3>2
      <3>4. QED
        BY <2>1, <2>6, <3>3
    <2>8. ~Torn(f) /\ at' <= Len(RequestedRuns) => q.x \in lines'
      BY <1>1, <2>1
    <2>9. Torn(points[Len(points)].sample.file)' = Torn(q.sample.file)
      BY <1>1
    <2>10. Torn(q.sample.file) \/ (q.x = lastOfRun' - first' /\ (at' <= Len(RequestedRuns) => q.x \in lines'))
      BY <2>6, <2>7, <2>8
    <2>11. QED
      BY <1>1, <2>5, <2>9, <2>10 DEF AxisSoFar
  <1>3. CASE ~There
    <2>1. points' = points /\ first' = first /\ lastOfRun' = lastOfRun /\ lines' = lines
      BY <1>3 DEF Reads
    <2>2. at' <= Len(RequestedRuns) => at <= Len(RequestedRuns)
      BY <1>1
    <2>3. QED
      BY <1>1, <2>1, <2>2 DEF AxisSoFar
  <1>4. QED
    BY <1>2, <1>3

(* A run that is read follows the one before on the time axis.             *)
LEMMA ReadTime ==
  ASSUME InputOK, RttPart, Reads
  PROVE  OneTimeAxis'
  <1>1. /\ RttTyped /\ PlotsTyped /\ AxisSoFar /\ OneTimeAxis /\ PointsSoFar /\ UNCHANGED input
        /\ at <= Len(RequestedRuns)
    BY DEF RttPart, Reads
  <1>2. CASE There
    <2> DEFINE f == FileNow
               m == Len(points)
               n == Len(Rows(f))
               first1 == Rows(f)[1].at
               base == Base(f, RunNow)
               X(j) == Rows(f)[j].at - first' - (first1 - base)
    <2>1. /\ f \in DOMAIN files /\ m \in Nat /\ n \in Nat /\ n >= 1
          /\ DOMAIN points' = 1 .. m + n
          /\ \A i \in 1 .. m : points'[i] = points[i]
          /\ \A j \in 1 .. n : points'[m + j] = PointOf(f, j, X(j))
          /\ first' \in Nat /\ first' = IF RunNow = 1 THEN first1 ELSE first
          /\ lines \subseteq lines'
      BY <1>2, NowAdded
    <2>2. DOMAIN points = 1 .. m /\ points \in Seq(Point)
      BY <1>1, LenProperties DEF PlotsTyped
    <2>3. \A j \in 1 .. n : Rows(f)[j].at \in Int
      BY <1>1, <2>1, RowsTyped
    <2>4. first1 \in Int /\ base \in Int /\ first' \in Int
      BY <1>1, <2>1, <2>3 DEF Base, RttTyped
    <2>5. X(1) = base - first'
      <3>1. \A a, b, c \in Int : a - b - (a - c) = c - b
        OBVIOUS
      <3> HIDE DEF base
      <3>2. QED
        BY <2>4, <3>1
    <2>6. f.run = RunNow
      BY FileOfRun DEF FileNow
    <2>7. \A j : PointOf(f, j, X(j)).x = X(j) /\ PointOf(f, j, X(j)).sample.file = f
                 /\ PointOf(f, j, X(j)).sample.row = j
      BY DEF PointOf
    <2> HIDE DEF X, base, first1, f, n, m
    <2>8. ASSUME NEW i \in 1 .. m PROVE IF i = 1 THEN points'[i].x = 0 ELSE Follows(points'[i], points'[i - 1], lines')
      <3>1. IF i = 1 THEN points[i].x = 0 ELSE Follows(points[i], points[i - 1], lines)
        BY <1>1, <2>2, AxisByPoints
      <3>2. i # 1 => i - 1 \in 1 .. m
        BY <2>1
      <3>3. QED
        BY <2>1, <3>1, <3>2, FollowsStill
    <2>9. IF m + 1 = 1 THEN points'[m + 1].x = 0 ELSE Follows(points'[m + 1], points'[m], lines')
      <3>1. points'[m + 1] = PointOf(f, 1, X(1))
        BY <2>1
      <3>2. CASE m = 0
        <4>1. points = <<>>
          BY <2>2, <3>2, EmptySeq DEF m
        <4>2. first = 0 /\ lastOfRun = 0
          BY <1>1, <4>1 DEF AxisSoFar
        <4>3. base = first'
          BY <2>1, <4>2 DEF Base, base, first1, f
        <4>4. X(1) = 0
          BY <2>4, <2>5, <4>3
        <4>5. QED
          BY <2>7, <3>1, <3>2, <4>4
      <3>3. CASE m # 0
        <4> DEFINE p == points'[m + 1]
                   q == points[m]
        <4>1. m \in DOMAIN points /\ points'[m] = q /\ points # <<>>
          BY <2>1, <2>2, <3>3, EmptySeq DEF m
        <4>2. p.sample.file = f /\ p.x = base - first'
          BY <2>5, <2>7, <3>1
        <4>3. q.sample.file # f
          BY <1>1, <4>1, FileIsNew DEF f, FileNow, RunNow
        <4>4. \/ Torn(q.sample.file)
              \/ q.x = lastOfRun - first /\ q.x \in lines
          BY <1>1, <4>1 DEF AxisSoFar, m
        <4>5. RunNow # 1 => p.x = lastOfRun - first
          BY <2>1, <4>2 DEF Base, base
        <4> HIDE DEF p, q
        <4>6. Follows(p, q, lines')
          BY <2>1, <2>6, <4>2, <4>3, <4>4, <4>5 DEF Follows
        <4>7. QED
          BY <2>1, <3>3, <4>1, <4>6 DEF p
      <3>4. QED
        BY <3>2, <3>3
    <2>10. ASSUME NEW j \in 2 .. n PROVE Follows(points'[m + j], points'[m + (j - 1)], lines')
      <3>1. j \in 1 .. n /\ j - 1 \in 1 .. n
        BY <2>1
      <3>2. points'[m + j] = PointOf(f, j, X(j)) /\ points'[m + (j - 1)] = PointOf(f, j - 1, X(j - 1))
        BY <2>1, <3>1
      <3>3. X(j) - X(j - 1) = Rows(f)[j].at - Rows(f)[j - 1].at
        <4>1. \A a, b, c, d, e \in Int : (a - b - (c - d)) - (e - b - (c - d)) = a - e
          OBVIOUS
        <4>2. Rows(f)[j].at \in Int /\ Rows(f)[j - 1].at \in Int
          BY <2>3, <3>1
        <4>3. QED
          BY <2>4, <4>1, <4>2 DEF X
      <3>4. QED
        BY <2>7, <3>2, <3>3 DEF Follows, Time
    <2>11. ASSUME NEW i \in 1 .. m + n
           PROVE  IF i = 1 THEN points'[i].x = 0 ELSE Follows(points'[i], points'[i - 1], lines')
      <3>1. CASE i \in 1 .. m
        BY <2>8, <3>1
      <3>2. CASE i = m + 1
        <4>1. i - 1 = m
          BY <2>1, <3>2
        <4>2. QED
          BY <2>9, <3>2, <4>1
      <3>3. CASE i \notin 1 .. m + 1
        <4>1. /\ i - m \in 2 .. n /\ i # 1
              /\ m + (i - m) = i /\ m + ((i - m) - 1) = i - 1
          BY <2>1, <3>3
        <4>2. Follows(points'[m + (i - m)], points'[m + ((i - m) - 1)], lines')
          BY <2>10, <4>1
        <4>3. QED
          BY <4>1, <4>2
      <3>4. QED
        BY <2>1, <3>1, <3>2, <3>3
    <2>12. QED
      BY <1>1, <2>1, <2>11, AxisByPointsNext
  <1>3. CASE ~There
    <2>1. points' = points /\ lines' = lines
      BY <1>3 DEF Reads
    <2>2. QED
      BY <1>1, <2>1, AxisByPoints, AxisByPointsNext
  <1>4. QED
    BY <1>2, <1>3


(***************************************************************************)
(* The plots of a combination that is finished.                            *)
(***************************************************************************)

(* The plots drawn before show their files still.                          *)
LEMMA DrawnSame ==
  ASSUME UNCHANGED <<input, drawn>>, DrawnShow
  PROVE  DrawnShow'
  <1>1. /\ \A c : FileOf(c, 1)' = FileOf(c, 1)
        /\ \A comb : Measured(comb)' = Measured(comb)
        /\ drawn' = drawn
    BY InputSame
  <1>2. \A d, i, s : Combination(d, i, s)' = Combination(d, i, s)
    BY DEF Combination
  <1>3. QED
    BY <1>1, <1>2 DEF DrawnShow

(* Once all its runs are read, the points of a combination are those of    *)
(* its files.                                                              *)
LEMMA AllGathered ==
  ASSUME InputOK, RttPart, at > Len(RequestedRuns)
  PROVE  LET f == FileOf(combo, 1)
         IN {p.sample : p \in ToSet(points)} = Measured(Combination(f.dest, f.inter, f.size))
  <1> DEFINE R == RequestedRuns
             n == Len(R)
             f == FileOf(combo, 1)
             comb == Combination(f.dest, f.inter, f.size)
             S == {p.sample : p \in ToSet(points)}
             Of(g) == /\ Combination(g.dest, g.inter, g.size) = comb
                      /\ \E k \in DOMAIN R : R[k] = g.run
  <1>1. n \in Nat /\ DOMAIN R = 1 .. n
    BY InputTypes, LenProperties
  <1>2. at - 1 = n
    BY <1>1 DEF RttPart, RttTyped
  <1>3. S = Gathered(n)
    BY <1>2 DEF RttPart, PointsSoFar, Gathered
  <1>4. \A x : x \in S <=> \E k \in 1 .. n : x \in SamplesIn(combo, R[k])
    BY <1>3, GatheredElements
  <1>5. \A x : x \in Measured(comb) <=> \E g \in DOMAIN files : Of(g) /\ x \in Samples(g)
    BY DEF Measured
  <1>6. \A k : LET g == FileOf(combo, R[k])
               IN g.run = R[k] /\ g.dest = f.dest /\ g.inter = f.inter /\ g.size = f.size
    BY DEF FileOf
  <1>7. ASSUME NEW x \in S PROVE x \in Measured(comb)
    <2>1. PICK k \in 1 .. n : x \in SamplesIn(combo, R[k])
      BY <1>4
    <2>2. FileOf(combo, R[k]) \in DOMAIN files /\ x \in Samples(FileOf(combo, R[k]))
      BY <2>1 DEF SamplesIn
    <2>3. Of(FileOf(combo, R[k]))
      BY <1>1, <1>6
    <2> HIDE DEF Of, comb
    <2>4. QED
      BY <1>5, <2>2, <2>3
  <1>8. ASSUME NEW x \in Measured(comb) PROVE x \in S
    <2>1. PICK g \in DOMAIN files : Of(g) /\ x \in Samples(g)
      BY <1>5
    <2>2. PICK k \in 1 .. n : R[k] = g.run
      BY <1>1, <2>1
    <2>3. g.dest = f.dest /\ g.inter = f.inter /\ g.size = f.size
      BY <2>1 DEF Combination
    <2>4. g = [run |-> g.run, dest |-> g.dest, inter |-> g.inter, size |-> g.size]
      BY <2>1, RowsTyped
    <2>5. g = FileOf(combo, R[k])
      BY <2>2, <2>3, <2>4 DEF FileOf
    <2>6. x \in SamplesIn(combo, R[k])
      BY <2>1, <2>5 DEF SamplesIn
    <2> HIDE DEF S
    <2>7. QED
      BY <1>4, <2>6
  <1>9. S = Measured(comb)
    <2> HIDE DEF S, comb
    <2>1. QED
      BY <1>7, <1>8
  <1>10. QED
    BY <1>9

(* A plot drawn of all that was gathered shows its files.                  *)
LEMMA DrawStep ==
  ASSUME InputOK, RttPart, DrawCombination, ~Dies
  PROVE  RttPart'
  <1>1. /\ RttTyped /\ PlotsTyped /\ DrawnShow
        /\ combo <= Combos /\ at > Len(RequestedRuns) /\ UNCHANGED input
        /\ combo' = combo + 1 /\ at' = 1 /\ first' = 0 /\ lastOfRun' = 0
        /\ points' = <<>> /\ lines' = {}
    BY DEF RttPart, DrawCombination, OnRtt
  <1>2. PICK e : e.points = points /\ drawn' = Append(drawn, e)
    <2> DEFINE e == [points |-> points, lines |-> lines, axis |-> Axis(Limits(PointSamples)),
                     sum |-> MapThenSumSet(LAMBDA s : s.rtt, PointSamples)]
    <2>1. drawn' = Append(drawn, e)
      BY DEF DrawCombination
    <2>2. e.points = points
      OBVIOUS
    <2> HIDE DEF e
    <2>3. QED
      BY <2>1, <2>2
  <1>3. /\ drawn' \in Seq(ToSet(drawn')) /\ Len(drawn') = combo
        /\ combo \in Nat /\ combo >= 1
        /\ DOMAIN drawn = 1 .. combo - 1 /\ DOMAIN drawn' = 1 .. combo
        /\ \A i \in 1 .. combo - 1 : drawn'[i] = drawn[i]
        /\ drawn'[combo] = e
    <2>1. drawn \in Seq(ToSet(drawn)) /\ combo \in Nat /\ Len(drawn) = combo - 1
      BY <1>1 DEF PlotsTyped, RttTyped
    <2>2. /\ Len(drawn) \in Nat /\ drawn' \in Seq(ToSet(drawn')) /\ Len(drawn') = Len(drawn) + 1
          /\ DOMAIN drawn = 1 .. Len(drawn) /\ DOMAIN drawn' = 1 .. Len(drawn) + 1
          /\ \A i \in 1 .. Len(drawn) : drawn'[i] = drawn[i]
          /\ drawn'[Len(drawn) + 1] = e
      BY <1>2, <2>1, PlotAdded
    <2>3. Len(drawn) + 1 = combo /\ combo >= 1
      BY <2>1, <2>2
    <2>4. QED
      BY <2>1, <2>2, <2>3
  <1>4. RttTyped'
    <2>1. 1 \in 1 .. Len(RequestedRuns') + 1
      BY <1>1, InputTypes, InputSame
    <2>2. combo' \in Nat /\ Len(drawn') = combo' - 1
      BY <1>1, <1>3
    <2>3. DOMAIN points' = {}
      BY <1>1
    <2>4. QED
      BY <1>1, <2>1, <2>2, <2>3 DEF RttTyped
  <1>5. combo' <= Combos' + 1
    BY <1>1, <1>3, InputTypes, InputSame
  <1>6. PlotsTyped'
    <2>1. \A i \in DOMAIN drawn' : drawn'[i].points \in Seq(Point)
      <3>1. \A i \in 1 .. combo : i \in 1 .. combo - 1 \/ i = combo
        BY <1>3
      <3>2. /\ points \in Seq(Point)
            /\ \A i \in 1 .. combo - 1 : drawn[i].points \in Seq(Point)
        BY <1>1, <1>3 DEF PlotsTyped
      <3>3. QED
        BY <1>2, <1>3, <3>1, <3>2
    <2>2. points' \in Seq(Point)' /\ Point' = Point
      BY <1>1, InputSame, EmptySeq
    <2>3. QED
      BY <1>1, <1>3, <2>1, <2>2 DEF PlotsTyped
  <1>7. PointsSoFar'
    <2>1. ToSet(points') = {} /\ DOMAIN points' = {}
      BY <1>1 DEF ToSet
    <2>2. \A k : k \notin 1 .. at' - 1
      BY <1>1
    <2>3. QED
      BY <2>1, <2>2 DEF PointsSoFar
  <1>8. DrawnShow'
    <2> DEFINE Shows(c, pts) ==
                 {p.sample : p \in ToSet(pts)}
                   = Measured(Combination(FileOf(c, 1).dest, FileOf(c, 1).inter, FileOf(c, 1).size))
    <2>1. \A c \in 1 .. combo - 1 : Shows(c, drawn[c].points)
      BY <1>1, <1>3 DEF DrawnShow
    <2>2. Shows(combo, points)
      BY <1>1, AllGathered
    <2>3. \A c : FileOf(c, 1)' = FileOf(c, 1)
      BY <1>1, InputSame
    <2>4. \A comb : Measured(comb)' = Measured(comb)
      BY <1>1, InputSame
    <2>5. (\A c \in DOMAIN drawn' : Shows(c, drawn'[c].points)) => DrawnShow'
      BY <2>3, <2>4 DEF DrawnShow, Combination
    <2> HIDE DEF Shows
    <2>6. ASSUME NEW c \in 1 .. combo PROVE Shows(c, drawn'[c].points)
      <3>1. CASE c = combo
        BY <1>2, <1>3, <2>2, <3>1
      <3>2. CASE c # combo
        <4>1. c \in 1 .. combo - 1
          BY <1>3, <3>2
        <4>2. QED
          BY <1>3, <2>1, <4>1
      <3>3. QED
        BY <3>1, <3>2
    <2>7. QED
      BY <1>3, <2>5, <2>6
  <1>9. AxisSoFar' /\ OneTimeAxis'
    <2>1. DOMAIN points' = {}
      BY <1>1
    <2>2. QED
      BY <1>1, <2>1 DEF AxisSoFar, OneTimeAxis
  <1>10. QED
    BY <1>4, <1>5, <1>6, <1>7, <1>8, <1>9 DEF RttPart

(* The goroutines other than RttPlotter leave its state alone.             *)
LEMMA RttSame ==
  ASSUME InputOK, RttPart, UNCHANGED <<input, rttVars>>
  PROVE  RttPart'
  <1>1. /\ combo' = combo /\ at' = at /\ first' = first /\ lastOfRun' = lastOfRun
        /\ points' = points /\ lines' = lines /\ drawn' = drawn /\ UNCHANGED input
    BY DEF rttVars
  <1>2. RttTyped' /\ combo' <= Combos' + 1
    BY <1>1, InputSame DEF RttPart, RttTyped
  <1>3. PlotsTyped'
    BY <1>1, InputSame DEF RttPart, PlotsTyped
  <1>4. PointsSoFar'
    <2>1. \A n : Gathered(n)' = Gathered(n)
      BY <1>1, GatheredSame
    <2>2. \A k : FileOf(combo, RequestedRuns[k])' = FileOf(combo, RequestedRuns[k])
      BY <1>1, InputSame
    <2>3. {p.sample : p \in ToSet(points')} = Gathered(at - 1)'
      BY <1>1, <2>1 DEF RttPart, PointsSoFar, Gathered
    <2>4. \A i \in DOMAIN points' : \E k \in 1 .. at' - 1 :
            points'[i].sample.file = FileOf(combo, RequestedRuns[k])'
      BY <1>1, <2>2 DEF RttPart, PointsSoFar
    <2>5. QED
      BY <2>3, <2>4 DEF PointsSoFar, Gathered
  <1>5. DrawnShow'
    BY <1>1, DrawnSame DEF RttPart
  <1>6. AxisSoFar'
    <2>1. \A f : Torn(f)' = Torn(f)
      BY <1>1, InputSame
    <2>2. QED
      BY <1>1, <2>1, InputSame DEF RttPart, AxisSoFar
  <1>7. OneTimeAxis'
    BY <1>1, AxisByPoints, AxisByPointsNext DEF RttPart
  <1>8. QED
    BY <1>2, <1>3, <1>4, <1>5, <1>6, <1>7 DEF RttPart

(* Every step keeps what RttPlotter has gathered and drawn.                *)
LEMMA RttStep ==
  ASSUME InputOK, RttPart, [Next]_vars
  PROVE  RttPart'
  <1>1. CASE Dies
    <2>1. UNCHANGED <<input, rttVars>>
      BY <1>1 DEF Dies
    <2>2. QED
      BY <2>1, RttSame
  <1>2. CASE ReadRun /\ ~Dies
    <2>1. Reads
      BY <1>2, ReadRunReads
    <2>2. UNCHANGED input /\ combo' = combo /\ drawn' = drawn
      BY <2>1 DEF Reads
    <2>3. combo' <= Combos' + 1 /\ DrawnShow'
      BY <2>2, InputSame, DrawnSame DEF RttPart
    <2>4. QED
      BY <2>1, <2>3, ReadTypes, ReadPoints, ReadAxis, ReadTime DEF RttPart
  <1>3. CASE DrawCombination /\ ~Dies
    BY <1>3, DrawStep
  <1>4. CASE ~Dies /\ ~ReadRun /\ ~DrawCombination
    <2>1. UNCHANGED <<input, rttVars>>
      BY <1>4 DEF Next, Start, Wait, PingPlotter, RttPlotter, FinishRtt, TypedPlots, TcpdumpPlotter, vars
    <2>2. QED
      BY <2>1, RttSame
  <1>5. QED
    BY <1>1, <1>2, <1>3, <1>4

(***************************************************************************)
(* The typed plots: their values, axes and boxes.                          *)
(***************************************************************************)

(* What the settings say of axes and whiskers.                             *)
LEMMA SettingsNumbers ==
  ASSUME InputOK
  PROVE  Removed /\ WhiskersTyped
  BY InputTypes DEF SettingsTyped, Removed, WhiskersTyped

(* A list of the settings has finitely many members.                       *)
LEMMA FiniteList ==
  ASSUME NEW list, list \in Seq(ToSet(list))
  PROVE  IsFiniteSet(ToSet(list))
  <1>1. Len(list) \in Nat /\ DOMAIN list = 1 .. Len(list)
    BY LenProperties
  <1>2. list \in Surjection(1 .. Len(list), ToSet(list))
    <2>1. list \in [1 .. Len(list) -> ToSet(list)]
      BY LenProperties
    <2>2. QED
      BY <1>1, <2>1 DEF Surjection, ToSet
  <1>3. IsFiniteSet(1 .. Len(list))
    BY <1>1, FS_Interval
  <1>4. QED
    BY <1>2, <1>3, FS_Surjection

(* A typed plot has finitely many cells and keys.                          *)
LEMMA FiniteCells ==
  ASSUME InputOK, NEW type \in Types
  PROVE  IsFiniteSet(Cells(type)) /\ IsFiniteSet(Keys(type))
  <1>1. /\ IsFiniteSet(ToSet(settings.endpoints))
        /\ IsFiniteSet(ToSet(settings.intervals))
        /\ IsFiniteSet(ToSet(settings.msgSizes))
    BY InputTypes, FiniteList DEF SettingsTyped
  <1>2. IsFiniteSet(Keys(type))
    <2> DEFINE d == [i \in DOMAIN settings.endpoints |-> settings.description[settings.endpoints[i]]]
               E == ToSet(settings.endpoints)
               g == [e \in E |-> settings.description[e]]
    <2>1. CASE type = "endpoints"
      <3>1. ToSet(d) = {settings.description[e] : e \in E}
        BY DEF ToSet
      <3>2. g \in Surjection(E, ToSet(d))
        BY <3>1 DEF Surjection
      <3>3. IsFiniteSet(ToSet(d))
        BY <1>1, <3>2, FS_Surjection
      <3>4. Keys(type) = ToSet(d)
        BY <2>1 DEF Keys
      <3>5. QED
        BY <3>3, <3>4
    <2>2. CASE type # "endpoints"
      BY <1>1, <2>2 DEF Types, Keys
    <2>3. QED
      BY <2>1, <2>2
  <1>3. IsFiniteSet(Cells(type))
    <2>1. CASE type = "sizes"
      BY <1>1, <2>1, FS_Product DEF Cells
    <2>2. CASE type = "intervals"
      BY <1>1, <2>2, FS_Product DEF Cells
    <2>3. CASE type = "endpoints"
      BY <1>1, <2>3, FS_Product DEF Cells
    <2>4. QED
      BY <2>1, <2>2, <2>3 DEF Types
  <1>4. QED
    BY <1>2, <1>3

(* The samples of a file, and of any files, are finitely many.             *)
LEMMA SamplesMeasure ==
  ASSUME InputOK, NEW F \in SUBSET DOMAIN files
  PROVE  Measures(UNION {Samples(f) : f \in F})
  <1>1. ASSUME NEW f \in F PROVE IsFiniteSet(Samples(f)) /\ \A s \in Samples(f) : s.rtt \in Int
    <2> DEFINE n == Len(Rows(f))
               g == [i \in 1 .. n |-> [file |-> f, row |-> i, rtt |-> Rows(f)[i].rtt]]
    <2>1. /\ n \in Nat /\ \A i \in 1 .. n : Rows(f)[i].rtt \in Int
          /\ Samples(f) = {[file |-> f, row |-> i, rtt |-> Rows(f)[i].rtt] : i \in 1 .. n}
      BY RowsTyped
    <2>2. g \in Surjection(1 .. n, Samples(f))
      BY <2>1 DEF Surjection
    <2>3. IsFiniteSet(1 .. n)
      BY <2>1, FS_Interval
    <2>4. QED
      BY <2>1, <2>2, <2>3, FS_Surjection
  <1> DEFINE G == {Samples(f) : f \in F}
             h == [f \in F |-> Samples(f)]
  <1>2. IsFiniteSet(F)
    BY InputTypes, FS_Subset DEF FilesTyped
  <1>3. h \in Surjection(F, G)
    BY DEF Surjection
  <1>4. IsFiniteSet(G)
    BY <1>2, <1>3, FS_Surjection
  <1>5. \A T \in G : IsFiniteSet(T)
    BY <1>1
  <1>6. IsFiniteSet(UNION G)
    <2> HIDE DEF G
    <2>1. QED
      BY <1>4, <1>5, FS_UNION
  <1>7. QED
    BY <1>1, <1>6 DEF Measures

(* The values of a cell's keys.                                            *)
LEMMA ShownMeasures ==
  ASSUME InputOK, NEW type \in Types, NEW cell
  PROVE  /\ IsFiniteSet(Range(Shown(type, cell)))
         /\ \A S \in Range(Shown(type, cell)) : Measures(S) /\ S # {}
         /\ PresentKeys(type, cell) # {} => Range(Shown(type, cell)) # {}
  <1> DEFINE K == PresentKeys(type, cell)
  <1>1. IsFiniteSet(K)
    <2>1. K \in SUBSET Keys(type)
      BY DEF PresentKeys
    <2>2. QED
      BY <2>1, FiniteCells, FS_Subset
  <1>2. \A key \in K : Measures(ValuesOf(type, cell, key)) /\ ValuesOf(type, cell, key) # {}
    <2> SUFFICES ASSUME NEW key \in K
                 PROVE  Measures(ValuesOf(type, cell, key)) /\ ValuesOf(type, cell, key) # {}
      OBVIOUS
    <2> DEFINE F == {g \in Desired(type, cell) : KeyOf(type, g) = key}
    <2>1. F \in SUBSET DOMAIN files
      BY DEF Desired
    <2>2. ValuesOf(type, cell, key) = UNION {Samples(f) : f \in F}
      BY DEF ValuesOf
    <2> HIDE DEF F
    <2>3. QED
      BY <2>1, <2>2, SamplesMeasure DEF PresentKeys
  <1>3. Shown(type, cell) = [k \in K |-> ValuesOf(type, cell, k)]
    BY DEF Shown
  <1> HIDE DEF K
  <1>4. Shown(type, cell) \in Surjection(K, Range(Shown(type, cell)))
    BY <1>3 DEF Surjection, Range
  <1>5. IsFiniteSet(Range(Shown(type, cell)))
    BY <1>1, <1>4, FS_Surjection
  <1>6. \A S \in Range(Shown(type, cell)) : \E k \in K : S = ValuesOf(type, cell, k)
    BY <1>3 DEF Range
  <1>7. K # {} => Range(Shown(type, cell)) # {}
    BY <1>3 DEF Range
  <1>8. QED
    BY <1>2, <1>5, <1>6, <1>7 DEF K

\* No cell of a job is fatal.
CellsGood(job) == \A cell \in Cells(job[2]) : ~BadCell(job, cell)

(* A cell that a typed plot draws has values, finitely many, with indices  *)
(* in range.                                                               *)
LEMMA GoodCell ==
  ASSUME InputOK, NEW job \in TypedJobs, CellsGood(job), NEW cell \in Cells(job[2])
  PROVE  /\ Range(Shown(job[2], cell)) # {} /\ IsFiniteSet(Range(Shown(job[2], cell)))
         /\ \A S \in Range(Shown(job[2], cell)) :
              /\ Measures(S) /\ S # {} /\ ~OutOfRange(Cardinality(S))
              /\ job[1] = "box" => ~NoWhisker(Cardinality(S))
  <1>1. job[2] \in Types
    BY JobsApart
  <1>2. ~BadCell(job, cell)
    BY DEF CellsGood
  <1>3. QED
    BY <1>1, <1>2, ShownMeasures DEF BadCell

(* The span of the limits of several values takes in those of each.        *)
LEMMA LimitsSpan ==
  ASSUME InputOK, NEW R, R # {}, IsFiniteSet(R),
         \A S \in R : Measures(S) /\ ~OutOfRange(Cardinality(S))
  PROVE  LET span == Span({Limits(S) : S \in R})
         IN /\ span.low \in Int /\ span.high \in Int
            /\ \A S \in R : span.low <= Limits(S).low /\ span.high >= Limits(S).high
            /\ 2 * settings.percentilesToRemove < Hundred => span.low <= span.high
  <1> DEFINE L == {Limits(S) : S \in R}
             f == [S \in R |-> Limits(S)]
  <1>1. \A S \in R : /\ Limits(S).low \in Int /\ Limits(S).high \in Int
                     /\ 2 * settings.percentilesToRemove < Hundred => Limits(S).low <= Limits(S).high
    BY SettingsNumbers, LimitsCut
  <1>2. f \in Surjection(R, L)
    BY DEF Surjection
  <1>3. IsFiniteSet(L) /\ L # {}
    BY <1>2, FS_Surjection
  <1>4. /\ \A l \in L : l.low \in Int /\ l.high \in Int
        /\ 2 * settings.percentilesToRemove < Hundred => \A l \in L : l.low <= l.high
        /\ \A S \in R : Limits(S) \in L
    BY <1>1
  <1> HIDE DEF L
  <1>5. /\ Span(L).low \in Int /\ Span(L).high \in Int
        /\ \A S \in R : Span(L).low <= Limits(S).low /\ Span(L).high >= Limits(S).high
        /\ 2 * settings.percentilesToRemove < Hundred => Span(L).low <= Span(L).high
    BY <1>3, <1>4, SpanTakesIn
  <1>6. QED
    BY <1>5 DEF L

(* The trimmed limits of a cell take in those of each of its values.       *)
LEMMA CellSpan ==
  ASSUME InputOK, NEW job \in TypedJobs, CellsGood(job), NEW cell \in Cells(job[2])
  PROVE  LET span == TrimmedSpan(job[2], cell)
         IN /\ span.low \in Int /\ span.high \in Int
            /\ \A S \in Range(Shown(job[2], cell)) :
                 span.low <= Limits(S).low /\ span.high >= Limits(S).high
            /\ 2 * settings.percentilesToRemove < Hundred => span.low <= span.high
  <1> DEFINE R == Range(Shown(job[2], cell))
  <1>1. /\ R # {} /\ IsFiniteSet(R)
        /\ \A S \in R : Measures(S) /\ ~OutOfRange(Cardinality(S))
    BY GoodCell
  <1>2. TrimmedSpan(job[2], cell) = Span({Limits(S) : S \in R})
    BY DEF TrimmedSpan
  <1> HIDE DEF R
  <1>3. QED
    BY <1>1, <1>2, LimitsSpan DEF R


(* The axis of a cell keeps the middle of each of its values.              *)
LEMMA TypedAxisKeeps ==
  ASSUME InputOK, NEW job \in TypedJobs, CellsGood(job), NEW cell \in Cells(job[2])
  PROVE  /\ \A S \in Range(Shown(job[2], cell)) : KeepsMiddle(S, TypedAxis(job, cell))
         /\ Upright(TypedAxis(job, cell))
  <1> DEFINE type == job[2]
             span == TrimmedSpan(type, cell)
             R == Range(Shown(type, cell))
  <1>0. PICK axis : axis = TypedAxis(job, cell)
    OBVIOUS
  <1>1. /\ span.low \in Int /\ span.high \in Int
        /\ \A S \in R : span.low <= Limits(S).low /\ span.high >= Limits(S).high
        /\ 2 * settings.percentilesToRemove < Hundred => span.low <= span.high
    BY CellSpan
  <1>2. /\ R # {}
        /\ \A S \in R : Measures(S) /\ S # {} /\ ~OutOfRange(Cardinality(S))
    BY GoodCell
  <1>3. \A S \in R : /\ Limits(S).low \in Int /\ Limits(S).high \in Int
                     /\ Limits(S).low \in Rtts(S) /\ Limits(S).high \in Rtts(S)
    BY <1>2, SettingsNumbers, LimitsCut
  <1> DEFINE Wide == /\ settings.rttMin = 0 => axis.low \in Int /\ \A S \in R : axis.low <= Limits(S).low
                     /\ settings.rttMax = 0 => axis.high \in Int /\ \A S \in R : axis.high >= Limits(S).high
  <1>4. ASSUME ~settings.equalizationDisabled PROVE Wide /\ Upright(axis)
    <2> DEFINE L == {TrimmedSpan(type, c) : c \in Cells(type)}
               f == [c \in Cells(type) |-> TrimmedSpan(type, c)]
    <2>1. axis = Axis(Span(L))
      BY <1>0, <1>4 DEF TypedAxis
    <2>2. \A c \in Cells(type) :
            /\ TrimmedSpan(type, c).low \in Int /\ TrimmedSpan(type, c).high \in Int
            /\ 2 * settings.percentilesToRemove < Hundred =>
                 TrimmedSpan(type, c).low <= TrimmedSpan(type, c).high
      BY CellSpan
    <2>3. f \in Surjection(Cells(type), L)
      BY DEF Surjection
    <2>4. IsFiniteSet(L) /\ L # {}
      BY <2>3, FiniteCells, JobsApart, FS_Surjection
    <2>5. /\ \A l \in L : l.low \in Int /\ l.high \in Int
          /\ 2 * settings.percentilesToRemove < Hundred => \A l \in L : l.low <= l.high
          /\ span \in L
      BY <2>2
    <2> HIDE DEF L, span
    <2>6. /\ Span(L).low \in Int /\ Span(L).high \in Int
          /\ Span(L).low <= span.low /\ Span(L).high >= span.high
          /\ 2 * settings.percentilesToRemove < Hundred => Span(L).low <= Span(L).high
      BY <2>4, <2>5, SpanTakesIn
    <2>7. /\ settings.rttMin = 0 => axis.low = Span(L).low
          /\ settings.rttMax = 0 => axis.high = Span(L).high
      BY <2>1 DEF Axis
    <2> HIDE DEF R
    <2>8. Wide
      BY <1>1, <1>3, <2>6, <2>7
    <2>9. Upright(axis)
      BY <2>6, <2>7 DEF Upright
    <2>10. QED
      BY <2>8, <2>9
  <1>5. ASSUME settings.equalizationDisabled /\ job[1] = "cdf" PROVE Wide /\ Upright(axis)
    <2>1. axis = span
      BY <1>0, <1>5 DEF TypedAxis
    <2> HIDE DEF span, R
    <2>2. QED
      BY <1>1, <2>1 DEF Upright
  <1>6. ASSUME settings.equalizationDisabled /\ job[1] # "cdf" PROVE Wide /\ Upright(axis)
    <2> DEFINE V == UNION R
               all == {s.rtt : s \in V}
    <2>1. axis = [low |-> Min(all), high |-> Max(all)]
      BY <1>0, <1>6 DEF TypedAxis
    <2>2. Measures(V)
      <3>1. IsFiniteSet(R) /\ \A S \in R : IsFiniteSet(S)
        BY <1>2, GoodCell DEF Measures
      <3> HIDE DEF R
      <3>2. IsFiniteSet(V)
        BY <3>1, FS_UNION
      <3>3. QED
        BY <1>2, <3>2 DEF Measures
    <2>3. V # {}
      BY <1>2
    <2>4. all = Rtts(V)
      BY DEF Rtts
    <2>5. IsFiniteSet(all) /\ all \subseteq Int /\ all # {}
      BY <2>2, <2>3, <2>4, RttsFinite
    <2>6. \A S \in R : Rtts(S) \subseteq all
      BY DEF Rtts
    <2> HIDE DEF all, R
    <2>7. /\ Min(all) \in Int /\ \A y \in all : Min(all) <= y
          /\ Max(all) \in Int /\ \A y \in all : Max(all) >= y
      BY <2>5, LeastOf, GreatestOf
    <2>8. Wide
      BY <1>3, <2>1, <2>6, <2>7
    <2>9. Upright(axis)
      <3>1. PICK y \in all : y \in Int
        BY <2>5
      <3>2. Min(all) <= Max(all)
        BY <2>7, <3>1
      <3>3. QED
        BY <2>1, <3>2 DEF Upright
    <2>10. QED
      BY <2>8, <2>9
  <1>7. Wide /\ Upright(axis)
    BY <1>4, <1>5, <1>6
  <1>8. \A S \in R : KeepsMiddle(S, axis)
    BY <1>2, <1>3, <1>7, SettingsNumbers, AxisKeeps
  <1>9. QED
    BY <1>0, <1>7, <1>8

\* What LimitsKeepTheMiddle and BoxesKeepEveryRtt say of some boxes and
\* their axis.
AxisKept(plot) ==
  (\A S \in Range(plot.values) : KeepsMiddle(S, plot.axis)) /\ Upright(plot.axis)
BoxKept(S) == KeepsEvery(S) /\ (Uncrossed => Box(S).low \cap Box(S).high = {})

TypedLimits ==
  \A job \in DOMAIN typed : \A cell \in DOMAIN typed[job] : AxisKept(typed[job][cell])

PerRunGood ==
  /\ Measures(hourly)
  /\ perRun \in Seq(ToSet(perRun))
  /\ \A i \in DOMAIN perRun :
       AxisKept(perRun[i]) /\ \A S \in Range(perRun[i].values) : BoxKept(S)

DrawnLimits ==
  \A c \in DOMAIN drawn :
    /\ KeepsMiddle({p.sample : p \in ToSet(drawn[c].points)}, drawn[c].axis)
    /\ Upright(drawn[c].axis)

PageLimits(page) == KeepsMiddle(ToSet(page.points), page.axis) /\ Upright(page.axis)

PingLimits == \A page \in ToSet(pinged) : PageLimits(page)
TcpLimits == \A run \in DOMAIN tcp : \A page \in ToSet(tcp[run]) : PageLimits(page)

(* LimitsKeepTheMiddle speaks of five kinds of plots.                      *)
LEMMA LimitParts ==
  TypedLimits /\ PerRunGood /\ DrawnLimits /\ PingLimits /\ TcpLimits => LimitsKeepTheMiddle
  <1> SUFFICES ASSUME TypedLimits, PerRunGood, DrawnLimits, PingLimits, TcpLimits
               PROVE  LimitsKeepTheMiddle
    OBVIOUS
  <1>1. \A page \in ToSet(perRun) : AxisKept(page)
    BY DEF PerRunGood, ToSet
  <1>2. \A page \in ToSet(pinged) \cup UNION {ToSet(pages) : pages \in Range(tcp)} : PageLimits(page)
    BY DEF PingLimits, TcpLimits, Range
  <1>3. QED
    BY <1>1, <1>2 DEF LimitsKeepTheMiddle, TypedLimits, DrawnLimits, PageLimits, Upright, AxisKept

TypedBoxes ==
  \A job \in DOMAIN typed : \A cell \in DOMAIN typed[job] :
    \A S \in Range(typed[job][cell].values) : job[1] = "box" => BoxKept(S)

(* BoxesKeepEveryRtt speaks of the typed plots and of the pages per run.   *)
LEMMA BoxPartsAre == TypedBoxes /\ PerRunGood => BoxesKeepEveryRtt
  <1>1. \A S : BoxKept(S) => KeepsEveryRtt(S)
    BY DEF BoxKept, KeepsEveryRtt, KeepsEvery, Lower, Higher
  <1>2. PerRunGood => \A page \in ToSet(perRun) : \A S \in Range(page.values) : KeepsEveryRtt(S)
    BY <1>1 DEF PerRunGood, ToSet
  <1>3. QED
    BY <1>1, <1>2 DEF BoxesKeepEveryRtt, TypedBoxes

(* What the axes and the boxes are computed from does not change.          *)
LEMMA AxesSame ==
  ASSUME UNCHANGED input
  PROVE  /\ \A S, axis : KeepsMiddle(S, axis)' = KeepsMiddle(S, axis)
         /\ \A axis : Upright(axis)' = Upright(axis)
         /\ \A plot : AxisKept(plot)' = AxisKept(plot)
         /\ \A S : BoxKept(S)' = BoxKept(S)
  <1>1. settings' = settings
    BY DEF input
  <1>2. \A S : Box(S)' = Box(S)
    <2>1. /\ \A n : Below(n)' = Below(n) /\ Above(n)' = Above(n)
          /\ \A n, p : Percentiles(n, p)' = Percentiles(n, p)
      BY <1>1 DEF Below, Above, Percentiles
    <2>2. \A S : Sorted(S)' = Sorted(S)
      BY DEF Sorted, Nth
    <2>3. \A V, n : Outside(V, n)' = Outside(V, n)
      BY DEF Outside, TwiceMedian
    <2>4. \A T : FirstRun(T)' = FirstRun(T)
      BY DEF FirstRun
    <2>5. QED
      BY <1>1, <2>1, <2>2, <2>3, <2>4 DEF Box
  <1>3. \A S : KeepsEvery(S)' = KeepsEvery(S)
    BY <1>1, <1>2 DEF KeepsEvery, Nth, Lower, Higher
  <1>4. /\ \A S, axis : KeepsMiddle(S, axis)' = KeepsMiddle(S, axis)
        /\ \A axis : Upright(axis)' = Upright(axis)
    BY <1>1 DEF KeepsMiddle, Upright
  <1>5. \A S : BoxKept(S)' = BoxKept(S)
    BY <1>1, <1>2, <1>3 DEF BoxKept, Uncrossed
  <1>6. \A plot : AxisKept(plot)' = AxisKept(plot)
    BY <1>4 DEF AxisKept, Range
  <1>7. QED
    BY <1>3, <1>4, <1>5, <1>6

(* A typed plot is drawn, or none.                                         *)
LEMMA TypedAdds ==
  ASSUME [Next]_vars
  PROVE  \/ typed' = typed
         \/ \E job \in TypedJobs :
              /\ CellsGood(job)
              /\ DOMAIN typed' = {job} \cup DOMAIN typed
              /\ DOMAIN typed'[job] = Cells(job[2])
              /\ \A cell \in Cells(job[2]) :
                   /\ typed'[job][cell].values = Shown(job[2], cell)
                   /\ typed'[job][cell].axis = TypedAxis(job, cell)
              /\ \A j \in DOMAIN typed : j # job => typed'[j] = typed[j]
  <1>1. CASE ~\E job \in TypedJobs : TypedPlots(job)
    BY <1>1 DEF Next, Start, Wait, PingPlotter, RttPlotter, ReadRun, DrawCombination, FinishRtt,
                TcpdumpPlotter, Dies, vars
  <1>2. ASSUME NEW job \in TypedJobs, TypedPlots(job), ~Dies
        PROVE  /\ CellsGood(job)
               /\ DOMAIN typed' = {job} \cup DOMAIN typed
               /\ DOMAIN typed'[job] = Cells(job[2])
               /\ \A cell \in Cells(job[2]) :
                    /\ typed'[job][cell].values = Shown(job[2], cell)
                    /\ typed'[job][cell].axis = TypedAxis(job, cell)
               /\ \A j \in DOMAIN typed : j # job => typed'[j] = typed[j]
    <2> DEFINE plot == [cell \in Cells(job[2]) |->
                         [values |-> Shown(job[2], cell), axis |-> TypedAxis(job, cell)]]
    <2>1. CellsGood(job) /\ typed' = With(typed, job, plot)
      BY <1>2 DEF TypedPlots, CellsGood
    <2>2. /\ DOMAIN plot = Cells(job[2])
          /\ \A cell \in Cells(job[2]) :
               plot[cell].values = Shown(job[2], cell) /\ plot[cell].axis = TypedAxis(job, cell)
      OBVIOUS
    <2> HIDE DEF plot
    <2>3. /\ DOMAIN typed' = {job} \cup DOMAIN typed
          /\ \A j \in {job} \cup DOMAIN typed : typed'[j] = IF j = job THEN plot ELSE typed[j]
      BY <2>1 DEF With
    <2>4. QED
      BY <2>1, <2>2, <2>3
  <1>3. CASE Dies
    BY <1>3 DEF Dies
  <1>4. QED
    BY <1>1, <1>2, <1>3

(* The axes of the typed plots, and their boxes, are right from when they  *)
(* are drawn.                                                              *)
LEMMA TypedAxesStep ==
  ASSUME InputOK, [Next]_vars, TypedLimits, TypedBoxes
  PROVE  TypedLimits' /\ TypedBoxes'
  <1>1. UNCHANGED input
    BY DEF Next, Start, Wait, PingPlotter, RttPlotter, ReadRun, DrawCombination, FinishRtt,
           TypedPlots, TcpdumpPlotter, Dies, vars
  <1> DEFINE BoxesOf(job, plot) == \A S \in Range(plot.values) : job[1] = "box" => BoxKept(S)
             Of(job, plot) == AxisKept(plot) /\ BoxesOf(job, plot)
  <1>2. \A job \in DOMAIN typed : \A cell \in DOMAIN typed[job] : Of(job, typed[job][cell])
    BY DEF TypedLimits, TypedBoxes
  <1>3. (\A job \in DOMAIN typed' : \A cell \in DOMAIN typed'[job] : Of(job, typed'[job][cell]))
          => TypedLimits' /\ TypedBoxes'
    <2> SUFFICES ASSUME \A job \in DOMAIN typed' : \A cell \in DOMAIN typed'[job] : Of(job, typed'[job][cell])
                 PROVE  TypedLimits' /\ TypedBoxes'
      OBVIOUS
    <2>1. /\ \A plot : AxisKept(plot)' = AxisKept(plot)
          /\ \A S : BoxKept(S)' = BoxKept(S)
      BY <1>1, AxesSame
    <2>2. TypedLimits'
      BY <2>1 DEF TypedLimits
    <2>3. TypedBoxes'
      BY <2>1 DEF TypedBoxes, Range
    <2>4. QED
      BY <2>2, <2>3
  <1>4. ASSUME NEW job \in TypedJobs, CellsGood(job), NEW cell \in Cells(job[2]), NEW plot,
               plot.values = Shown(job[2], cell), plot.axis = TypedAxis(job, cell)
        PROVE  Of(job, plot)
    <2>1. AxisKept(plot)
      BY <1>4, TypedAxisKeeps DEF AxisKept
    <2>2. \A S \in Range(Shown(job[2], cell)) :
            Measures(S) /\ S # {} /\ (job[1] = "box" => ~NoWhisker(Cardinality(S)))
      BY <1>4, GoodCell
    <2>3. BoxesOf(job, plot)
      BY <1>4, <2>2, SettingsNumbers, BoxKeeps, BoxApart DEF BoxKept
    <2>4. QED
      BY <2>1, <2>3
  <1> HIDE DEF Of
  <1>5. CASE typed' = typed
    BY <1>2, <1>3, <1>5
  <1>6. ASSUME NEW job \in TypedJobs, CellsGood(job),
               DOMAIN typed' = {job} \cup DOMAIN typed,
               DOMAIN typed'[job] = Cells(job[2]),
               \A cell \in Cells(job[2]) :
                 /\ typed'[job][cell].values = Shown(job[2], cell)
                 /\ typed'[job][cell].axis = TypedAxis(job, cell),
               \A j \in DOMAIN typed : j # job => typed'[j] = typed[j]
        PROVE  TypedLimits' /\ TypedBoxes'
    <2>1. \A cell \in DOMAIN typed'[job] : Of(job, typed'[job][cell])
      BY <1>4, <1>6
    <2>2. \A j \in DOMAIN typed' : \A cell \in DOMAIN typed'[j] : Of(j, typed'[j][cell])
      BY <1>2, <1>6, <2>1
    <2>3. QED
      BY <1>3, <2>2
  <1>7. QED
    BY <1>5, <1>6, TypedAdds


(***************************************************************************)
(* The axes of the other plots.                                            *)
(***************************************************************************)

(* The axis of a ping page keeps the middle of its RTTs.                   *)
LEMMA PingPageKeeps ==
  ASSUME InputOK, NEW answers \in Seq([at : Nat, rtt : Int]), ~OutOfRange(Len(answers))
  PROVE  PageLimits(PingPage(answers))
  <1> DEFINE n == Len(answers)
             line == [i \in DOMAIN answers |->
                        [x |-> answers[i].at - answers[1].at, row |-> i, rtt |-> answers[i].rtt]]
  <1>1. n \in Nat /\ DOMAIN answers = 1 .. n /\ \A i \in 1 .. n : answers[i] \in [at : Nat, rtt : Int]
    BY LenProperties, ElementOfSeq
  <1>2. /\ PingPage(answers).points = line
        /\ PingPage(answers).axis = Axis(Limits(ToSet(line)))
    BY DEF PingPage
  <1>3. /\ DOMAIN line = 1 .. n
        /\ \A i \in 1 .. n : line[i].rtt \in Int
        /\ \A i, j \in 1 .. n : line[i].row = line[j].row => i = j
    BY <1>1
  <1> HIDE DEF line
  <1>4. Measures(ToSet(line)) /\ Cardinality(ToSet(line)) = n
    BY <1>1, <1>3, LineMeasures
  <1>5. QED
    BY <1>2, <1>4, SettingsNumbers, OwnAxis DEF PageLimits

(* So do those of all ping pages, from when they are drawn.                *)
LEMMA PingAxesStep ==
  ASSUME InputOK, [Next]_vars, PingLimits
  PROVE  PingLimits'
  <1>1. UNCHANGED input
    BY DEF Next, Start, Wait, PingPlotter, RttPlotter, ReadRun, DrawCombination, FinishRtt,
           TypedPlots, TcpdumpPlotter, Dies, vars
  <1>2. (\A page \in ToSet(pinged') : PageLimits(page)) => PingLimits'
    BY <1>1, AxesSame DEF PingLimits, PageLimits, ToSet
  <1>3. CASE pinged' = pinged
    BY <1>2, <1>3 DEF PingLimits
  <1>4. CASE PingPlotter /\ ~Dies
    <2>1. /\ \A answers \in ToSet(settings.pings) : ~OutOfRange(Len(answers))
          /\ pinged' = [i \in DOMAIN settings.pings |-> PingPage(settings.pings[i])]
      BY <1>4 DEF PingPlotter
    <2>2. \A i \in DOMAIN settings.pings : settings.pings[i] \in Seq([at : Nat, rtt : Int])
      BY InputTypes, LenProperties, ElementOfSeq DEF SettingsTyped
    <2>3. \A i \in DOMAIN settings.pings : PageLimits(PingPage(settings.pings[i]))
      BY <2>1, <2>2, PingPageKeeps DEF ToSet
    <2>4. QED
      BY <1>2, <2>1, <2>3 DEF ToSet
  <1>5. CASE ~PingPlotter \/ Dies
    <2>1. pinged' = pinged
      BY <1>5 DEF Next, Start, Wait, PingPlotter, RttPlotter, ReadRun, DrawCombination, FinishRtt,
                  TypedPlots, TcpdumpPlotter, Dies, vars
    <2>2. QED
      BY <1>3, <2>1
  <1>6. QED
    BY <1>4, <1>5

(* The samples of the points are those of files.                           *)
LEMMA PointsMeasure ==
  ASSUME InputOK, PlotsTyped
  PROVE  Measures(PointSamples)
  <1>1. points \in Seq(Point)
    BY DEF PlotsTyped
  <1>2. /\ Len(points) \in Nat /\ DOMAIN points = 1 .. Len(points)
        /\ \A i \in 1 .. Len(points) : points[i] \in Point
    BY <1>1, LenProperties, ElementOfSeq
  <1>3. \A s \in PointSamples : s.rtt \in Int
    BY <1>2 DEF PointSamples, Point, Sample
  <1>4. IsFiniteSet(PointSamples)
    <2> DEFINE f == [i \in 1 .. Len(points) |-> points[i].sample]
    <2>1. f \in Surjection(1 .. Len(points), PointSamples)
      BY <1>2 DEF Surjection, PointSamples
    <2>2. IsFiniteSet(1 .. Len(points))
      BY <1>2, FS_Interval
    <2>3. QED
      BY <2>1, <2>2, FS_Surjection
  <1>5. QED
    BY <1>3, <1>4 DEF Measures

(* And those of the plots of RttPlotter.                                   *)
LEMMA DrawnAxesStep ==
  ASSUME InputOK, [Next]_vars, PlotsTyped, DrawnLimits
  PROVE  DrawnLimits'
  <1>1. UNCHANGED input
    BY DEF Next, Start, Wait, PingPlotter, RttPlotter, ReadRun, DrawCombination, FinishRtt,
           TypedPlots, TcpdumpPlotter, Dies, vars
  <1> DEFINE Of(plot) == KeepsMiddle({p.sample : p \in ToSet(plot.points)}, plot.axis) /\ Upright(plot.axis)
  <1>2. (\A c \in DOMAIN drawn' : Of(drawn'[c])) => DrawnLimits'
    BY <1>1, AxesSame DEF DrawnLimits, ToSet
  <1>3. CASE drawn' = drawn
    BY <1>2, <1>3 DEF DrawnLimits
  <1>4. CASE DrawCombination /\ ~Dies
    <2> DEFINE e == [points |-> points, lines |-> lines, axis |-> Axis(Limits(PointSamples)),
                     sum |-> MapThenSumSet(LAMBDA s : s.rtt, PointSamples)]
    <2>1. ~OutOfRange(Cardinality(PointSamples)) /\ drawn' = Append(drawn, e)
      BY <1>4 DEF DrawCombination
    <2>2. {p.sample : p \in ToSet(points)} = PointSamples
      BY DEF PointSamples, ToSet
    <2>3. e.points = points /\ e.axis = Axis(Limits(PointSamples))
      OBVIOUS
    <2> HIDE DEF e
    <2>4. Of(e)
      BY <2>1, <2>2, <2>3, PointsMeasure, SettingsNumbers, OwnAxis
    <2> HIDE DEF Of
    <2>5. drawn \in Seq(ToSet(drawn))
      BY DEF PlotsTyped
    <2>6. /\ DOMAIN drawn = 1 .. Len(drawn) /\ DOMAIN drawn' = 1 .. Len(drawn) + 1 /\ Len(drawn) \in Nat
          /\ \A i \in 1 .. Len(drawn) : drawn'[i] = drawn[i]
          /\ drawn'[Len(drawn) + 1] = e
      BY <2>1, <2>5, PlotAdded
    <2>7. \A i \in 1 .. Len(drawn) : Of(drawn[i])
      BY <2>6 DEF DrawnLimits, Of
    <2>8. \A i \in 1 .. Len(drawn) + 1 : i \in 1 .. Len(drawn) \/ i = Len(drawn) + 1
      BY <2>6
    <2>9. QED
      BY <1>2, <2>4, <2>6, <2>7, <2>8
  <1>5. CASE ~DrawCombination \/ Dies
    <2>1. drawn' = drawn
      BY <1>5 DEF Next, Start, Wait, PingPlotter, RttPlotter, ReadRun, DrawCombination, FinishRtt,
                  TypedPlots, TcpdumpPlotter, Dies, vars, rttVars
    <2>2. QED
      BY <1>3, <2>1
  <1>6. QED
    BY <1>4, <1>5

(* The values of the runs of a page, finitely many.                        *)
LEMMA PageRuns ==
  ASSUME NEW T, Measures(T)
  PROVE  /\ IsFiniteSet(Range(PerRun(T)))
         /\ \A V \in Range(PerRun(T)) : Measures(V) /\ V # {}
         /\ T # {} => Range(PerRun(T)) # {}
  <1> DEFINE f == [s \in T |-> {u \in T : u.file.run = s.file.run}]
  <1>1. Range(PerRun(T)) = {f[s] : s \in T}
    <2> DEFINE runs == {s.file.run : s \in T}
               Of(r) == {u \in T : u.file.run = r}
    <2>1. Range(PerRun(T)) = {Of(r) : r \in runs}
      BY DEF PerRun, Range
    <2>2. \A s \in T : f[s] = Of(s.file.run)
      OBVIOUS
    <2> HIDE DEF Of, f
    <2>3. QED
      BY <2>1, <2>2
  <1>2. \A V \in {f[s] : s \in T} : V \subseteq T /\ V # {}
    OBVIOUS
  <1>3. f \in Surjection(T, {f[s] : s \in T})
    BY DEF Surjection
  <1> HIDE DEF f
  <1>4. IsFiniteSet({f[s] : s \in T})
    BY <1>3, FS_Surjection DEF Measures
  <1>5. \A V \in {f[s] : s \in T} : Measures(V)
    <2>1. ASSUME NEW V, V \subseteq T PROVE Measures(V)
      BY <2>1, FS_Subset DEF Measures
    <2>2. QED
      BY <1>2, <2>1
  <1>6. QED
    BY <1>1, <1>2, <1>4, <1>5

(* The boxes of a page of runs and their axis are right.                   *)
LEMMA BoxPageKeeps ==
  ASSUME InputOK, NEW T, Measures(T), ~BadPage(T)
  PROVE  /\ AxisKept(BoxPage(T))
         /\ \A V \in Range(BoxPage(T).values) : BoxKept(V)
  <1> DEFINE R == Range(PerRun(T))
             span == Span({Limits(V) : V \in R})
             axis == Axis(span)
  <1>1. BoxPage(T).values = PerRun(T) /\ BoxPage(T).axis = axis
    BY DEF BoxPage
  <1>2. /\ IsFiniteSet(R) /\ R # {}
        /\ \A V \in R : Measures(V) /\ V # {}
        /\ \A V \in R : ~OutOfRange(Cardinality(V)) /\ ~NoWhisker(Cardinality(V))
    BY PageRuns DEF BadPage
  <1> HIDE DEF R
  <1>3. /\ span.low \in Int /\ span.high \in Int
        /\ \A V \in R : span.low <= Limits(V).low /\ span.high >= Limits(V).high
        /\ 2 * settings.percentilesToRemove < Hundred => span.low <= span.high
    BY <1>2, LimitsSpan
  <1> HIDE DEF span
  <1>4. /\ settings.rttMin = 0 => axis.low = span.low
        /\ settings.rttMax = 0 => axis.high = span.high
    BY DEF Axis
  <1> HIDE DEF axis
  <1>5. Upright(axis)
    BY <1>3, <1>4 DEF Upright
  <1>6. \A V \in R : KeepsMiddle(V, axis)
    <2> SUFFICES ASSUME NEW V \in R PROVE KeepsMiddle(V, axis)
      OBVIOUS
    <2>1. Measures(V) /\ ~OutOfRange(Cardinality(V)) /\ Removed
      BY <1>2, SettingsNumbers
    <2>2. /\ settings.rttMin = 0 => axis.low \in Int /\ axis.low <= Limits(V).low
          /\ settings.rttMax = 0 => axis.high \in Int /\ axis.high >= Limits(V).high
      BY <1>3, <1>4
    <2>3. QED
      BY <2>1, <2>2, AxisKeeps
  <1>7. \A V \in R : BoxKept(V)
    BY <1>2, SettingsNumbers, BoxKeeps, BoxApart DEF BoxKept
  <1>8. QED
    BY <1>1, <1>5, <1>6, <1>7 DEF AxisKept, R

(* The samples of a page are finitely many, and its boxes are right from   *)
(* when they are drawn.                                                    *)
LEMMA PerRunStep ==
  ASSUME InputOK, [Next]_vars, PerRunGood
  PROVE  PerRunGood'
  <1>1. UNCHANGED input
    BY DEF Next, Start, Wait, PingPlotter, RttPlotter, ReadRun, DrawCombination, FinishRtt,
           TypedPlots, TcpdumpPlotter, Dies, vars
  <1> DEFINE Good(plot) == AxisKept(plot) /\ \A S \in Range(plot.values) : BoxKept(S)
  <1>2. ASSUME perRun' \in Seq(ToSet(perRun')), Measures(hourly'),
               \A i \in DOMAIN perRun' : Good(perRun'[i])
        PROVE  PerRunGood'
    <2>1. /\ \A plot : AxisKept(plot)' = AxisKept(plot)
          /\ \A S : BoxKept(S)' = BoxKept(S)
      BY <1>1, AxesSame
    <2>2. \A plot : Range(plot.values)' = Range(plot.values)
      BY DEF Range
    <2>3. \A i \in DOMAIN perRun' :
            AxisKept(perRun[i])' /\ \A S \in Range(perRun[i].values)' : BoxKept(S)'
      BY <1>2, <2>1, <2>2
    <2>4. Measures(hourly)' /\ ToSet(perRun)' = ToSet(perRun')
      BY <1>2 DEF Measures, ToSet
    <2>5. QED
      BY <1>2, <2>3, <2>4 DEF PerRunGood
  <1>3. Measures(hourly) /\ \A i \in DOMAIN perRun : Good(perRun[i])
    BY DEF PerRunGood
  <1>4. perRun \in Seq(ToSet(perRun))
    BY DEF PerRunGood
  <1>5. Measures({})
    BY FS_EmptySet DEF Measures
  <1> HIDE DEF Good
  <1>6. CASE perRun' = perRun /\ hourly' \in {hourly, {}}
    BY <1>2, <1>3, <1>4, <1>5, <1>6
  <1>7. CASE ReadRun /\ ~Dies
    <2> DEFINE f == FileOf(combo, RequestedRuns[at])
               there == f \in DOMAIN files /\ Rows(f) # <<>>
               page == hourly \cup (IF there THEN Samples(f) ELSE {})
    <2>1. /\ PageEnds => ~BadPage(page)
          /\ hourly' = IF PageEnds THEN {} ELSE page
          /\ perRun' = IF PageEnds THEN Append(perRun, BoxPage(page)) ELSE perRun
      BY <1>7 DEF ReadRun
    <2>2. Measures(page)
      <3>1. CASE there
        <4>1. {f} \in SUBSET DOMAIN files
          BY <3>1
        <4>2. Measures(UNION {Samples(g) : g \in {f}})
          BY <4>1, SamplesMeasure
        <4>3. UNION {Samples(g) : g \in {f}} = Samples(f)
          OBVIOUS
        <4>4. Measures(Samples(f))
          BY <4>2, <4>3
        <4>5. page = hourly \cup Samples(f)
          BY <3>1
        <4>6. IsFiniteSet(page)
          BY <1>3, <4>4, <4>5, FS_Union DEF Measures
        <4>7. QED
          BY <1>3, <4>4, <4>5, <4>6 DEF Measures
      <3>2. CASE ~there
        BY <1>3, <3>2
      <3>3. QED
        BY <3>1, <3>2
    <2> HIDE DEF page
    <2>3. CASE PageEnds
      <3>1. Good(BoxPage(page))
        BY <2>1, <2>2, <2>3, BoxPageKeeps DEF Good
      <3> DEFINE e == BoxPage(page)
      <3> HIDE DEF e
      <3>2. perRun' = Append(perRun, e) /\ hourly' = {} /\ Good(e)
        BY <2>1, <2>3, <3>1 DEF e
      <3>3. /\ DOMAIN perRun = 1 .. Len(perRun) /\ DOMAIN perRun' = 1 .. Len(perRun) + 1 /\ Len(perRun) \in Nat
            /\ \A i \in 1 .. Len(perRun) : perRun'[i] = perRun[i]
            /\ perRun'[Len(perRun) + 1] = e /\ perRun' \in Seq(ToSet(perRun'))
        BY <1>4, <3>2, PlotAdded
      <3>4. \A i \in 1 .. Len(perRun) + 1 : i \in 1 .. Len(perRun) \/ i = Len(perRun) + 1
        BY <3>3
      <3>5. \A i \in DOMAIN perRun' : Good(perRun'[i])
        BY <1>3, <3>2, <3>3, <3>4
      <3>6. QED
        BY <1>2, <1>5, <3>2, <3>3, <3>5
    <2>4. CASE ~PageEnds
      BY <1>2, <1>3, <1>4, <2>1, <2>2, <2>4
    <2>5. QED
      BY <2>3, <2>4
  <1>8. CASE ~ReadRun \/ Dies
    <2>1. perRun' = perRun /\ hourly' \in {hourly, {}}
      BY <1>8 DEF Next, Start, Wait, PingPlotter, RttPlotter, DrawCombination, FinishRtt,
                  TypedPlots, TcpdumpPlotter, Dies, vars, rttVars
    <2>2. QED
      BY <1>6, <2>1
  <1>9. QED
    BY <1>7, <1>8

(***************************************************************************)
(* The pages of the tcpdump reports.                                       *)
(***************************************************************************)

(* Settings that do not end the program say how long a step is.            *)
LEMMA DurationOfAStep ==
  ASSUME InputOK, ~NoDuration, ~DividesByZero
  PROVE  StepDuration \in Nat
  <1>1. /\ settings.runsStepDuration \in Nat /\ settings.runsInterval \in Nat /\ Combos \in Nat
    BY InputTypes DEF SettingsTyped
  <1>2. CASE settings.runsStepDuration # 0
    BY <1>1, <1>2 DEF StepDuration
  <1>3. CASE settings.runsStepDuration = 0
    <2>1. Combos # 0
      BY <1>3 DEF DividesByZero
    <2>2. \A x \in Nat, y \in Nat : y # 0 => (x * 60) \div y \in Nat
      OBVIOUS
    <2>3. (settings.runsInterval * 60) \div Combos \in Nat
      BY <1>1, <2>1, <2>2
    <2>4. QED
      BY <1>3, <2>3 DEF StepDuration
  <1>4. QED
    BY <1>2, <1>3

(* The goroutines run only when the settings say how long a step is.       *)
DurationKnown == process \in {"wait", "done"} => StepDuration \in Nat

TcpDrawn == \A run \in DOMAIN tcp :
  /\ StepDuration \in Nat /\ SortedReport(Sorting(run))
  /\ AllDrawn(Sorting(run), tcp[run])

(* What the pages are computed from does not change.                       *)
LEMMA PagesSame ==
  ASSUME UNCHANGED input
  PROVE  /\ StepDuration' = StepDuration
         /\ \A run : Sorting(run)' = Sorting(run)
         /\ \A R : SortedReport(R)' = SortedReport(R)
         /\ \A R, pages : AllDrawn(R, pages)' = AllDrawn(R, pages)
  <1>1. settings' = settings /\ reports' = reports
    BY DEF input
  <1>2. Combos' = Combos /\ StepDuration' = StepDuration
    BY <1>1 DEF Combos, StepDuration
  <1>3. \A run : Sorting(run)' = Sorting(run)
    BY <1>1 DEF Sorting
  <1>4. \A R : SortedReport(R)' = SortedReport(R)
    BY DEF SortedReport, ByStreams
  <1>5. \A n : LowIndex(n)' = LowIndex(n) /\ HighIndex(n)' = HighIndex(n)
    BY <1>1 DEF LowIndex, HighIndex, Trimmed, Percentiles
  <1>6. \A S : Limits(S)' = Limits(S)
    BY <1>5 DEF Limits, Nth
  <1>7. \A R, rows : Long(R, rows)' = Long(R, rows)
    BY <1>2 DEF Long
  <1>8. \A R, page, stray : PageGood(R, page, stray)' = PageGood(R, page, stray)
    <2>1. \A v : Lasts(v)' = Lasts(v)
      BY <1>2 DEF Lasts
    <2>2. \A n : OutOfRange(n)' = OutOfRange(n)
      BY <1>5 DEF OutOfRange
    <2>3. \A l : Axis(l)' = Axis(l)
      BY <1>1 DEF Axis
    <2>4. \A S : Axis(Limits(ToSet(S)))' = Axis(Limits(ToSet(S)))
      BY <1>1, <1>6 DEF Axis
    <2>5. \A R, values, marks, previous, i, origin, stray :
            PageSoFar(R, values, marks, previous, i, origin, stray)'
              = PageSoFar(R, values, marks, previous, i, origin, stray)
      BY DEF PageSoFar, LineUpTo, RowsIn, RowsMarked
    <2>6. QED
      BY <2>1, <2>2, <2>4, <2>5 DEF PageGood
  <1>9. \A k : Title(k)' = Title(k)
    BY <1>1 DEF Title
  <1>10. \A R, pages, stray : PagesGood(R, pages, stray)' = PagesGood(R, pages, stray)
    BY <1>8, <1>9 DEF PagesGood
  <1>11. \A R, pages : AllDrawn(R, pages)' = AllDrawn(R, pages)
    BY <1>2, <1>7, <1>10 DEF AllDrawn, StrayLast, PlainAcks, Acks, HasPage
  <1>12. QED
    BY <1>2, <1>3, <1>4, <1>11

(* They say so from the start on.                                          *)
LEMMA DurationStep ==
  ASSUME InputOK, [Next]_vars, DurationKnown
  PROVE  DurationKnown'
  <1>1. UNCHANGED input
    BY DEF Next, Start, Wait, PingPlotter, RttPlotter, ReadRun, DrawCombination, FinishRtt,
           TypedPlots, TcpdumpPlotter, Dies, vars
  <1>2. StepDuration' = StepDuration
    BY <1>1, PagesSame
  <1>3. CASE Start
    BY <1>2, <1>3, DurationOfAStep DEF Start, Dies, DurationKnown
  <1>4. CASE ~Start
    <2>1. process' \in {"wait", "done"} => process \in {"wait", "done"}
      BY <1>4 DEF Next, Wait, PingPlotter, RttPlotter, ReadRun, DrawCombination, FinishRtt,
                  TypedPlots, TcpdumpPlotter, Dies, vars
    <2>2. QED
      BY <1>2, <2>1 DEF DurationKnown
  <1>5. QED
    BY <1>3, <1>4

(* The pages of a run are drawn by one step, and stay.                     *)
LEMMA TcpStep ==
  ASSUME InputOK, [Next]_vars, DurationKnown, TcpDrawn
  PROVE  TcpDrawn'
  <1>1. UNCHANGED input
    BY DEF Next, Start, Wait, PingPlotter, RttPlotter, ReadRun, DrawCombination, FinishRtt,
           TypedPlots, TcpdumpPlotter, Dies, vars
  <1> DEFINE Of(run, pages) == /\ StepDuration \in Nat /\ SortedReport(Sorting(run))
                               /\ AllDrawn(Sorting(run), pages)
  <1>2. (\A run \in DOMAIN tcp' : Of(run, tcp'[run])) => TcpDrawn'
    BY <1>1, PagesSame DEF TcpDrawn
  <1>3. \A run \in DOMAIN tcp : Of(run, tcp[run])
    BY DEF TcpDrawn
  <1>4. CASE tcp' = tcp
    BY <1>2, <1>3, <1>4
  <1>5. ASSUME NEW run \in ToSet(RequestedRuns), TcpdumpPlotter(run), ~Dies
        PROVE  TcpDrawn'
    <2>1. /\ process = "wait" /\ run \in DOMAIN reports /\ ~Plotted(reports[run]).panic
          /\ tcp' = With(tcp, run, Plotted(reports[run]).pages)
      BY <1>5 DEF TcpdumpPlotter, Runs
    <2>2. reports[run] \in Seq(ReportRow) /\ StepDuration \in Nat
      BY <2>1, InputTypes DEF ReportsTyped, DurationKnown
    <2>3. Of(run, Plotted(reports[run]).pages)
      BY <2>1, <2>2, PlottedDraws DEF Sorting
    <2> DEFINE result == Plotted(reports[run]).pages
    <2> HIDE DEF Of, result
    <2>4. tcp' = With(tcp, run, result)
      BY <2>1 DEF result
    <2>5. /\ DOMAIN tcp' = {run} \cup DOMAIN tcp
          /\ \A r \in {run} \cup DOMAIN tcp : tcp'[r] = IF r = run THEN result ELSE tcp[r]
      <3>1. /\ DOMAIN With(tcp, run, result) = {run} \cup DOMAIN tcp
            /\ \A r \in {run} \cup DOMAIN tcp :
                 With(tcp, run, result)[r] = IF r = run THEN result ELSE tcp[r]
        BY DEF With
      <3>2. QED
        BY <2>4, <3>1
    <2>6. Of(run, result)
      BY <2>3 DEF result
    <2>7. \A r \in DOMAIN tcp' : Of(r, tcp'[r])
      <3>1. TAKE r \in DOMAIN tcp'
      <3>2. CASE r = run
        BY <2>5, <2>6, <3>2
      <3>3. CASE r # run
        BY <1>3, <2>5, <3>3
      <3>4. QED
        BY <3>2, <3>3
    <2>8. QED
      BY <1>2, <2>7
  <1>6. CASE ~(\E run \in ToSet(RequestedRuns) : TcpdumpPlotter(run)) \/ Dies
    <2>1. tcp' = tcp
      BY <1>6 DEF Next, Start, Wait, PingPlotter, RttPlotter, ReadRun, DrawCombination, FinishRtt,
                  TypedPlots, Dies, vars
    <2>2. QED
      BY <1>4, <2>1
  <1>7. QED
    BY <1>5, <1>6

(* The axis of a page of a report keeps the middle of its RTTs.            *)
LEMMA DrawnTcpLimits ==
  ASSUME InputOK, TcpDrawn
  PROVE  TcpLimits
  <1> SUFFICES ASSUME NEW run \in DOMAIN tcp, NEW page \in ToSet(tcp[run]) PROVE PageLimits(page)
    BY DEF TcpLimits
  <1> DEFINE R == Sorting(run)
             pages == tcp[run]
  <1>1. StepDuration \in Int /\ SortedReport(R) /\ AllDrawn(R, pages)
    BY DEF TcpDrawn
  <1> HIDE DEF R
  <1>2. PICK p \in 1 .. Len(pages) : page = pages[p]
    BY <1>1, LenProperties DEF AllDrawn, PagesGood, ToSet
  <1>3. PageGood(R, page, StrayOn(R, pages, p))
    BY <1>1, <1>2 DEF AllDrawn, PagesGood, StrayOn
  <1>4. /\ Measures(ToSet(page.points)) /\ Cardinality(ToSet(page.points)) = Len(page.points)
        /\ ~OutOfRange(Len(page.points)) /\ page.axis = Axis(Limits(ToSet(page.points)))
    BY <1>1, <1>3, PageShows
  <1>5. QED
    BY <1>4, SettingsNumbers, OwnAxis DEF PageLimits

(* What the three properties of the pages say of a run whose pages are     *)
(* drawn.                                                                  *)
LEMMA DrawnTcpShow ==
  ASSUME InputOK, TcpDrawn
  PROVE  PagesAreTheLongStreams /\ MarksShareTheAxis /\ TitlesSkipShortStreams
  <1>1. \A run \in DOMAIN tcp :
          StepDuration \in Int /\ SortedReport(Sorting(run)) /\ AllDrawn(Sorting(run), tcp[run])
    BY DEF TcpDrawn
  <1>2. \A run \in DOMAIN tcp : PagesShow(Sorting(run), tcp[run])
    BY <1>1, DrawnPagesShow
  <1>3. \A run \in DOMAIN tcp : TitlesSkip(Sorting(run), tcp[run])
    BY <1>1, InputTypes, DrawnTitlesSkip DEF SettingsTyped
  <1>4. \A run \in DOMAIN tcp : \A page \in ToSet(tcp[run]) : MarksInPlace(Sorting(run), page)
    <2> SUFFICES ASSUME NEW run \in DOMAIN tcp, NEW page \in ToSet(tcp[run])
                 PROVE  MarksInPlace(Sorting(run), page)
      OBVIOUS
    <2> DEFINE R == Sorting(run)
               pages == tcp[run]
    <2>1. SortedReport(R) /\ AllDrawn(R, pages)
      BY <1>1
    <2> HIDE DEF R
    <2>2. PICK p \in 1 .. Len(pages) : page = pages[p]
      BY <2>1, LenProperties DEF AllDrawn, PagesGood, ToSet
    <2>3. PageGood(R, page, StrayOn(R, pages, p))
      BY <2>1, <2>2 DEF AllDrawn, PagesGood, StrayOn
    <2>4. MarksInPlace(R, page)
      BY <2>1, <2>3, DrawnMarksInPlace
    <2>5. QED
      BY <2>4 DEF R
  <1>5. PagesAreTheLongStreams
    BY <1>2 DEF PagesAreTheLongStreams, PagesShow, StrayOn
  <1>6. MarksShareTheAxis
    BY <1>4 DEF MarksShareTheAxis, MarksInPlace
  <1>7. TitlesSkipShortStreams
    BY <1>3 DEF TitlesSkipShortStreams, TitlesSkip
  <1>8. QED
    BY <1>5, <1>6, <1>7

(***************************************************************************)
(* The theorems.                                                           *)
(***************************************************************************)

(* The invariant in parts.                                                 *)
LEMMA InvariantParts ==
  IInv <=> InputOK /\ JobsTyped /\ ReturnedMeansDrawn /\ RttPart /\ TypedShow
  BY TypeParts, ShowParts DEF IInv, RttPart, ReturnedMeansDrawn

(* The invariant holds at first.                                           *)
LEMMA InitIInv ==
  ASSUME Init
  PROVE  IInv
  <1>1. InputOK
    BY CampaignsAssumption DEF Init, InputOK
  <1>2. /\ process = "start" /\ started = {} /\ wg = 0
        /\ typed = <<>> /\ tcp = <<>> /\ pinged = <<>>
        /\ combo = 1 /\ at = 1 /\ first = 0 /\ lastOfRun = 0
        /\ points = <<>> /\ lines = {} /\ drawn = <<>>
    BY DEF Init
  <1>3. DOMAIN typed = {} /\ DOMAIN tcp = {} /\ DOMAIN points = {} /\ DOMAIN drawn = {} /\ Len(pinged) = 0
    BY <1>2
  <1>4. JobsTyped
    BY <1>2, <1>3 DEF JobsTyped
  <1>5. ReturnedMeansDrawn
    BY <1>1, <1>2, <1>3, InputTypes DEF ReturnedMeansDrawn
  <1>6. RttTyped
    BY <1>1, <1>2, <1>3, InputTypes DEF RttTyped
  <1>7. PlotsTyped
    BY <1>2, <1>3, EmptySeq DEF PlotsTyped
  <1>8. PointsSoFar
    <2>1. ToSet(points) = {}
      BY <1>3 DEF ToSet
    <2>2. \A k : k \notin 1 .. at - 1
      BY <1>2
    <2>3. QED
      BY <1>3, <2>1, <2>2 DEF PointsSoFar
  <1>9. DrawnShow /\ TypedShow
    BY <1>3 DEF DrawnShow, TypedShow
  <1>10. AxisSoFar /\ OneTimeAxis
    BY <1>2, <1>3 DEF AxisSoFar, OneTimeAxis
  <1>11. RttPart
    BY <1>5, <1>6, <1>7, <1>8, <1>9, <1>10 DEF RttPart, ReturnedMeansDrawn
  <1>12. QED
    BY <1>1, <1>4, <1>5, <1>9, <1>11, InvariantParts

(* Every step keeps the invariant.                                         *)
LEMMA StepIInv ==
  ASSUME IInv, [Next]_vars
  PROVE  IInv'
  <1>1. InputOK /\ JobsTyped /\ ReturnedMeansDrawn /\ RttPart /\ TypedShow /\ RttTyped
    BY InvariantParts DEF RttPart
  <1>2. UNCHANGED input
    BY DEF Next, Start, Wait, PingPlotter, RttPlotter, ReadRun, DrawCombination, FinishRtt,
           TypedPlots, TcpdumpPlotter, Dies, vars
  <1>3. InputOK'
    BY <1>1, <1>2, InputSame
  <1>4. JobsTyped' /\ ReturnedMeansDrawn'
    BY <1>1, JobsStep
  <1>5. RttPart'
    BY <1>1, RttStep
  <1>6. TypedShow'
    BY <1>1, TypedShowStep
  <1>7. InputOK' /\ JobsTyped' /\ ReturnedMeansDrawn' /\ RttPart' /\ TypedShow' => IInv'
    BY InvariantParts, PTL
  <1>8. QED
    BY <1>3, <1>4, <1>5, <1>6, <1>7

(* The inductive invariant holds: what each goroutine has left, and what   *)
(* RttPlotter has gathered.                                                *)
THEOREM Invariant == Spec => []IInv
  <1>1. Init => IInv
    BY InitIInv
  <1>2. IInv /\ [Next]_vars => IInv'
    BY StepIInv
  <1>3. QED
    BY <1>1, <1>2, PTL DEF Spec

(* Every variable has its type; in particular the WaitGroup's counter is   *)
(* the number of goroutines that run, whatever returns when.               *)
THEOREM TypeCorrect == Spec => []TypeOK
  <1>1. IInv => TypeOK
    BY DEF IInv
  <1>2. QED
    BY <1>1, Invariant, PTL

(* main returns only when every plot has been drawn, for any settings.     *)
THEOREM NothingCutShort == Spec => []DoneMeansDrawn
  <1>1. IInv => DoneMeansDrawn
    BY DrawnWhenDone
  <1>2. QED
    BY <1>1, Invariant, PTL

(* Every plot shows all RTTs of its combination, in the runs to plot, and  *)
(* no other's but for a destination whose name ends another's.             *)
THEOREM PlotsAgree == Spec => []PlotsShowTheirFiles
  <1>1. IInv => PlotsShowTheirFiles
    BY DEF IInv
  <1>2. QED
    BY <1>1, Invariant, PTL

(* The runs of a combination lie end to end on its time axis.              *)
THEOREM RunsEndToEnd == Spec => []OneTimeAxis
  <1>1. IInv => OneTimeAxis
    BY DEF IInv
  <1>2. QED
    BY <1>1, Invariant, PTL

(* What the plots drawn show, relative to the invariant.                   *)
PlotsInv == TypedLimits /\ TypedBoxes /\ PerRunGood /\ DrawnLimits /\ PingLimits /\ DurationKnown /\ TcpDrawn

(* Nothing is drawn at first.                                              *)
LEMMA InitPlots ==
  ASSUME Init
  PROVE  PlotsInv
  <1>1. process = "start" /\ DOMAIN typed = {} /\ DOMAIN drawn = {} /\ DOMAIN pinged = {} /\ DOMAIN tcp = {}
    BY DEF Init
  <1>2. ToSet(pinged) = {}
    BY <1>1 DEF ToSet
  <1>3. PerRunGood
    <2>1. hourly = {} /\ perRun = <<>>
      BY DEF Init
    <2>2. QED
      BY <2>1, FS_EmptySet DEF PerRunGood, Measures
  <1>4. QED
    BY <1>1, <1>2, <1>3 DEF PlotsInv, TypedLimits, TypedBoxes, DrawnLimits, PingLimits, DurationKnown, TcpDrawn

(* Every step keeps what the plots drawn show.                             *)
LEMMA PlotsStep ==
  ASSUME IInv, PlotsInv, [Next]_vars
  PROVE  PlotsInv'
  <1>1. InputOK /\ PlotsTyped
    BY DEF IInv
  <1>2. TypedLimits' /\ TypedBoxes'
    BY <1>1, TypedAxesStep DEF PlotsInv
  <1>3. DrawnLimits'
    BY <1>1, DrawnAxesStep DEF PlotsInv
  <1>4. PingLimits'
    BY <1>1, PingAxesStep DEF PlotsInv
  <1>5. DurationKnown'
    BY <1>1, DurationStep DEF PlotsInv
  <1>6. TcpDrawn'
    BY <1>1, TcpStep DEF PlotsInv
  <1>7. PerRunGood'
    BY <1>1, PerRunStep DEF PlotsInv
  <1>8. QED
    BY <1>2, <1>3, <1>4, <1>5, <1>6, <1>7 DEF PlotsInv

(* The invariant of the plots drawn: every axis and box that has been      *)
(* drawn is right for its values, and every page of a report has been      *)
(* drawn as AllDrawn says.                                                 *)
THEOREM PlotsInvariant == Spec => []PlotsInv
  <1>1. Init => PlotsInv
    BY InitPlots
  <1>2. IInv /\ PlotsInv /\ [Next]_vars => PlotsInv'
    BY PlotsStep
  <1>3. QED
    BY <1>1, <1>2, Invariant, PTL DEF Spec

(* No axis leaves out more of its RTTs than the settings ask for, nor is   *)
(* it upside down while they leave more than half.                         *)
THEOREM AxesKeepTheMiddle == Spec => []LimitsKeepTheMiddle
  <1>1. IInv /\ PlotsInv => LimitsKeepTheMiddle
    BY DrawnTcpLimits, LimitParts DEF IInv, PlotsInv
  <1>2. QED
    BY <1>1, Invariant, PlotsInvariant, PTL

(* Every RTT is between the whiskers of its box or one outlier, whatever   *)
(* the values and the whiskers.                                            *)
THEOREM NoRttIsLost == Spec => []BoxesKeepEveryRtt
  <1>1. PlotsInv => BoxesKeepEveryRtt
    BY BoxPartsAre DEF PlotsInv
  <1>2. QED
    BY <1>1, PlotsInvariant, PTL

(* For any report: its pages are the streams that last a step, in order,   *)
(* with all their acknowledgements.                                        *)
THEOREM PagesAreStreams == Spec => []PagesAreTheLongStreams
  <1>1. IInv /\ PlotsInv => PagesAreTheLongStreams
    BY DrawnTcpShow DEF IInv, PlotsInv
  <1>2. QED
    BY <1>1, Invariant, PlotsInvariant, PTL

(* For any report: points and retransmissions share the page's axis.       *)
THEOREM MarksOnTheAxis == Spec => []MarksShareTheAxis
  <1>1. IInv /\ PlotsInv => MarksShareTheAxis
    BY DrawnTcpShow DEF IInv, PlotsInv
  <1>2. QED
    BY <1>1, Invariant, PlotsInvariant, PTL

(* For any report of steps whose clients kept their connections: a page is *)
(* titled with the step of its stream.                                     *)
THEOREM TitlesAreTheSteps == Spec => []TitlesSkipShortStreams
  <1>1. IInv /\ PlotsInv => TitlesSkipShortStreams
    BY DrawnTcpShow DEF IInv, PlotsInv
  <1>2. QED
    BY <1>1, Invariant, PlotsInvariant, PTL
=============================================================================
