------------------------------ MODULE Plotter ------------------------------
(***************************************************************************)
(* The plotter: main starts a goroutine per kind of plot and waits for     *)
(* them all.  The box plots and distributions (typedBoxPlots, typedCDFs)   *)
(* gather the files of each cell; RttPlotter reads the runs of each        *)
(* combination one after the other and puts them on one time axis; and a   *)
(* TcpdumpPlotter per run reads its report.  Any goroutine that fails      *)
(* takes the process, and the other plots, with it.                        *)
(***************************************************************************)
EXTENDS PlotBox, TcpdumpPlot

CONSTANTS
  PerPage,   \* 12 in the code: runs on a page of box plots
  Campaigns  \* the settings and the files to look at

\* A file is named after its run and combination; its rows have a time and an
\* RTT, and so have the answers to a ping.
FilesTyped(raw) ==
  /\ IsFiniteSet(DOMAIN raw)
  /\ \A f \in DOMAIN raw :
       /\ f = [run |-> f.run, dest |-> f.dest, inter |-> f.inter, size |-> f.size]
       /\ raw[f].rows \in Seq([at : Nat, rtt : Int])

(* A report that is not there, or that csv.ReadAll gives nothing of (it    *)
(* has no header, or a row of too few fields), is not in `raw`.            *)
ReportsTyped(raw) == \A run \in DOMAIN raw : raw[run] \in Seq(ReportRow)

(* What description the settings give a destination, and how many          *)
(* combinations parameters.txt has (-1: it is not there), among others.    *)
SettingsTyped(s) ==
  /\ s.runs \in Nat /\ s.runsToPlot \in Seq(Nat)
  /\ \A list \in {s.endpoints, s.intervals, s.msgSizes} : list \in Seq(ToSet(list))
  /\ s.description = [d \in ToSet(s.endpoints) |-> s.description[d]]
  /\ s.parameters \in {-1} \cup Nat
  /\ s.pings \in Seq(Seq([at : Nat, rtt : Int]))
  /\ {s.runsStepDuration, s.runsInterval} \subseteq Nat
  /\ {s.percentilesToRemove, s.whiskerMin, s.whiskerMax} \subseteq Nat
  /\ {s.rttMin, s.rttMax} \subseteq Int

(* No run is to be plotted twice, and no setting of time or percentiles is *)
(* below 0, where \div is not Go's division; the code checks neither.      *)
ASSUME CampaignsAssumption ==
  \A c \in Campaigns :
    /\ c = [files |-> c.files, reports |-> c.reports, settings |-> c.settings]
    /\ FilesTyped(c.files) /\ ReportsTyped(c.reports)
    /\ SettingsTyped(c.settings) /\ IsInjective(c.settings.runsToPlot)

ASSUME PerPageAssumption == PerPage \in Nat \ {0}

Types == {"sizes", "intervals", "endpoints"}
TypedJobs == {"box", "cdf"} \X Types
TcpJobs == IF settings.tcpdump THEN {"tcp"} \X ToSet(RequestedRuns) ELSE {}
PingJobs == IF settings.pings = <<>> THEN {} ELSE {<<"ping", "all">>}
Jobs == TypedJobs \cup {<<"rtt", "all">>} \cup PingJobs \cup TcpJobs

VARIABLES
  process,    \* main: "start", "wait", "done", or the process is "dead"
  started,    \* the goroutines that have not returned
  wg,         \* the counter of the WaitGroup
  typed,      \* the values and the axis of each cell of the typed plots drawn
  tcp,        \* the pages of each report that is drawn
  pinged,     \* the pages of the pings, once drawn
  combo,      \* RttPlotter: the current combination
  at,         \* the index of the current run
  first,      \* absoluteFirst
  lastOfRun,  \* where the last run ended, on the time axis of the files
  points,     \* values: position and sample
  lines,      \* runInterruptions
  hourly,     \* hourlyMap: the samples of the current page
  perRun,     \* the pages of box plots per run that are drawn
  drawn       \* for each finished combination, what its plot shows

rttVars == <<combo, at, first, lastOfRun, points, lines, hourly, perRun, drawn>>
input == <<files, reports, settings>>
vars == <<input, process, started, wg, typed, tcp, pinged, rttVars>>

TypeOK ==
  /\ process \in {"start", "wait", "done", "dead"}
  /\ started \subseteq Jobs
  /\ wg = IF process = "start" THEN 0 ELSE Cardinality(started)
  /\ DOMAIN typed \subseteq TypedJobs
  /\ DOMAIN tcp \subseteq DOMAIN reports
  /\ Len(pinged) \in {0, Len(settings.pings)}
  /\ combo \in Nat /\ at \in 1 .. Len(RequestedRuns) + 1
  /\ first \in Nat /\ lastOfRun \in Int
  /\ \A i \in DOMAIN points : points[i].x \in Int
  /\ Len(drawn) = combo - 1

----------------------------------------------------------------------------
Init ==
  /\ \E c \in Campaigns : files = c.files /\ reports = c.reports /\ settings = c.settings
  /\ process = "start" /\ started = {} /\ wg = 0
  /\ typed = <<>> /\ tcp = <<>> /\ pinged = <<>>
  /\ combo = 1 /\ at = 1 /\ first = 0 /\ lastOfRun = 0
  /\ points = <<>> /\ lines = {} /\ hourly = {} /\ perRun = <<>> /\ drawn = <<>>

\* Mutant: the goroutine for the pings is not added.
AddedWithoutPing == 7 + Cardinality(TcpJobs)

\* Mutant: one goroutine is forgotten.
AddedOneShort == 6 + Cardinality(PingJobs \cup TcpJobs)

Added == 7 + Cardinality(PingJobs \cup TcpJobs)

\* log.Fatal and panic.
Dies == process' = "dead" /\ UNCHANGED <<input, started, wg, typed, tcp, pinged, rttVars>>

(* main reads the settings and starts the goroutines.  That it can make    *)
(* its folder and copy the settings is taken for granted.                  *)
Start ==
  /\ process = "start"
  /\ IF NoDuration \/ DividesByZero THEN Dies
     ELSE /\ started' = Jobs
          /\ wg' = Added
          /\ process' = "wait"
          /\ UNCHANGED <<input, typed, tcp, pinged, rttVars>>

Wait ==
  /\ process = "wait" /\ wg = 0
  /\ process' = "done"
  /\ UNCHANGED <<input, started, wg, typed, tcp, pinged, rttVars>>

\* A plot that a goroutine adds to those drawn.
With(plots, key, plot) == [k \in {key} \cup DOMAIN plots |-> IF k = key THEN plot ELSE plots[k]]

Return(job) == started' = started \ {job} /\ wg' = wg - 1

Runs(job) == process = "wait" /\ job \in started

\* The values of each key of a cell.
Shown(type, cell) == [k \in PresentKeys(type, cell) |-> ValuesOf(type, cell, k)]

(* A cell without values is fatal, in a box plot by its own check and in a *)
(* distribution because there is no least value.                           *)
BadCell(job, cell) ==
  \/ PresentKeys(job[2], cell) = {}
  \/ \E S \in Range(Shown(job[2], cell)) :
       OutOfRange(Cardinality(S)) \/ (job[1] = "box" /\ NoWhisker(Cardinality(S)))

(* The distribution of one value has a point at 0/0, which the gonum       *)
(* library may refuse.                                                     *)
OneValue(job, cell) ==
  job[1] = "cdf" /\ \E S \in Range(Shown(job[2], cell)) : Cardinality(S) = 1

TrimmedSpan(type, cell) == Span({Limits(S) : S \in Range(Shown(type, cell))})

(* Equalized, all cells have one axis, where the settings may have the     *)
(* last word.  Else a distribution's axis is trimmed, and a box plot's     *)
(* takes in everything.                                                    *)
TypedAxis(job, cell) ==
  LET type == job[2]
      all == {s.rtt : s \in UNION Range(Shown(type, cell))}
  IN IF ~settings.equalizationDisabled
     THEN Axis(Span({TrimmedSpan(type, c) : c \in Cells(type)}))
     ELSE IF job[1] = "cdf" THEN TrimmedSpan(type, cell)
     ELSE [low |-> Min(all), high |-> Max(all)]

TypedPlots(job) ==
  /\ Runs(job)
  /\ \/ (\E cell \in Cells(job[2]) : BadCell(job, cell) \/ OneValue(job, cell)) /\ Dies
     \/ /\ \A cell \in Cells(job[2]) : ~BadCell(job, cell)
        /\ typed' = With(typed, job,
                        [cell \in Cells(job[2]) |->
                          [values |-> Shown(job[2], cell), axis |-> TypedAxis(job, cell)]])
        /\ Return(job)
        /\ UNCHANGED <<input, process, tcp, pinged, rttVars>>

(* One goroutine per run.  It dies without a report that can be read and   *)
(* without parameters.txt, the combinations of the titles.                 *)
TcpdumpPlotter(run) ==
  /\ Runs(<<"tcp", run>>)
  /\ IF run \notin DOMAIN reports \/ settings.parameters = -1 \/ Plotted(reports[run]).panic THEN Dies
     ELSE /\ tcp' = With(tcp, run, Plotted(reports[run]).pages)
          /\ Return(<<"tcp", run>>)
          /\ UNCHANGED <<input, process, typed, pinged, rttVars>>

\* The answers of one destination, from its first.
PingPage(answers) ==
  LET line == [i \in DOMAIN answers |->
                 [x |-> answers[i].at - answers[1].at, row |-> i, rtt |-> answers[i].rtt]]
  IN [points |-> line, axis |-> Axis(Limits(ToSet(line)))]

(* Without an answer to a ping (or its file) there is no least value.      *)
PingPlotter ==
  /\ Runs(<<"ping", "all">>)
  /\ IF \E answers \in ToSet(settings.pings) : OutOfRange(Len(answers)) THEN Dies
     ELSE /\ pinged' = [i \in DOMAIN settings.pings |-> PingPage(settings.pings[i])]
          /\ Return(<<"ping", "all">>)
          /\ UNCHANGED <<input, process, typed, tcp, rttVars>>

----------------------------------------------------------------------------
\* RttPlotter: the file of a combination in a run.
FileOf(c, run) ==
  LET S == Len(settings.msgSizes)
      I == Len(settings.intervals)
  IN [run |-> run,
      dest |-> settings.endpoints[((c - 1) \div (I * S)) + 1],
      inter |-> settings.intervals[(((c - 1) \div S) % I) + 1],
      size |-> settings.msgSizes[((c - 1) % S) + 1]]

OnRtt == Runs(<<"rtt", "all">>) /\ combo <= Combos

\* Mutant: the end is not moved as the rows were.
EndOfRunUnmoved(f, gap) == Rows(f)[Len(Rows(f))].at

EndOfRun(f, gap) == Rows(f)[Len(Rows(f))].at - gap

(* The rows of one run, moved so that the run begins where the last one    *)
(* ended; run 1 sets the origin.  lastOfRun and the line between the runs  *)
(* are set at the last record of the file, if it has an RTT.               *)
AddRun(f, run) ==
  LET rows == Rows(f)
      base == IF run = 1 THEN rows[1].at ELSE lastOfRun
      gap == rows[1].at - base
      X(i) == rows[i].at - first' - gap
      n == Len(rows)
  IN /\ first' = IF run = 1 THEN rows[1].at ELSE first
     /\ points' = points \o [i \in 1 .. n |-> [x |-> X(i), sample |-> [file |-> f, row |-> i, rtt |-> rows[i].rtt]]]
     /\ IF files[f].end = "noRtt"
        THEN lastOfRun' = base /\ UNCHANGED lines
        ELSE /\ lastOfRun' = EndOfRun(f, gap)
             /\ lines' = IF at # Len(RequestedRuns) THEN lines \cup {X(n)} ELSE lines

PageEnds == at % PerPage = 0 \/ at = Len(RequestedRuns)

\* The values of each run of a page of box plots.
PerRun(S) == [r \in {s.file.run : s \in S} |-> {s \in S : s.file.run = r}]

BadPage(S) ==
  \/ S = {}
  \/ \E V \in Range(PerRun(S)) : OutOfRange(Cardinality(V)) \/ NoWhisker(Cardinality(V))

\* The axis takes in what is left of every run.
BoxPage(S) ==
  [values |-> PerRun(S), axis |-> Axis(Span({Limits(V) : V \in Range(PerRun(S))}))]

ReadRun ==
  /\ OnRtt /\ at <= Len(RequestedRuns)
  /\ LET run == RequestedRuns[at]
         f == FileOf(combo, run)
         there == f \in DOMAIN files /\ Rows(f) # <<>>
         page == hourly \cup (IF there THEN Samples(f) ELSE {})
     IN IF PageEnds /\ BadPage(page) THEN Dies
        ELSE /\ hourly' = IF PageEnds THEN {} ELSE page
             /\ perRun' = IF PageEnds THEN Append(perRun, BoxPage(page)) ELSE perRun
             /\ at' = at + 1
             /\ IF there THEN AddRun(f, run)
                ELSE UNCHANGED <<first, lastOfRun, points, lines>>
             /\ UNCHANGED <<input, process, started, wg, typed, tcp, pinged, combo, drawn>>

PointSamples == {points[i].sample : i \in DOMAIN points}

DrawCombination ==
  /\ OnRtt /\ at > Len(RequestedRuns)
  /\ IF OutOfRange(Cardinality(PointSamples)) THEN Dies
     ELSE /\ drawn' = Append(drawn, [points |-> points, lines |-> lines,
                                     axis |-> Axis(Limits(PointSamples)),
                                     sum |-> MapThenSumSet(LAMBDA s : s.rtt, PointSamples)])
          /\ combo' = combo + 1
          /\ at' = 1 /\ first' = 0 /\ lastOfRun' = 0
          /\ points' = <<>> /\ lines' = {} /\ hourly' = {}
          /\ UNCHANGED <<input, process, started, wg, typed, tcp, pinged, perRun>>

\* The files and the summary are written out.
FinishRtt ==
  /\ Runs(<<"rtt", "all">>) /\ combo > Combos
  /\ Return(<<"rtt", "all">>)
  /\ UNCHANGED <<input, process, typed, tcp, pinged, rttVars>>

RttPlotter == ReadRun \/ DrawCombination \/ FinishRtt

Next ==
  \/ Start \/ Wait \/ PingPlotter \/ RttPlotter
  \/ \E job \in TypedJobs : TypedPlots(job)
  \/ \E run \in ToSet(RequestedRuns) : TcpdumpPlotter(run)

(* As long as a goroutine can run, one does.                               *)
Spec == Init /\ [][Next]_vars /\ WF_vars(Next)

----------------------------------------------------------------------------
Combination(dest, inter, size) == [dest |-> dest, inter |-> inter, size |-> size]

\* What a key of a cell stands for: several combinations if endpoints share
\* a description.
CombinationsOf(type, cell, key) ==
  CASE type = "sizes" -> {Combination(cell[1], cell[2], key)}
    [] type = "intervals" -> {Combination(cell[1], key, cell[2])}
    [] type = "endpoints" ->
         {Combination(d, cell[2], cell[1]) :
            d \in {e \in ToSet(settings.endpoints) : settings.description[e] = key}}

\* Every RTT measured for a combination in the runs to plot.
Measured(comb) ==
  UNION {Samples(f) : f \in
    {g \in DOMAIN files :
       /\ Combination(g.dest, g.inter, g.size) = comb
       /\ \E k \in DOMAIN RequestedRuns : RequestedRuns[k] = g.run}}

\* Every RTT measured for what a key of a cell stands for.
MeasuredFor(type, cell, key) == UNION {Measured(comb) : comb \in CombinationsOf(type, cell, key)}

(* Whichever way a plot finds its files, it shows every RTT measured for   *)
(* its combination and none of another's: the plots agree.  Endpoints of   *)
(* one description share a box where endpoints are compared.  The          *)
(* exception is a destination whose name ends another's ("-" and the       *)
(* name): its box plots and distributions over sizes or intervals take in  *)
(* the other's values.                                                     *)
PlotsShowTheirFiles ==
  /\ \A c \in DOMAIN drawn :
       LET f == FileOf(c, 1)
       IN {p.sample : p \in ToSet(drawn[c].points)}
            = Measured(Combination(f.dest, f.inter, f.size))
  /\ \A job \in DOMAIN typed : \A cell \in DOMAIN typed[job] : \A key \in Keys(job[2]) :
       LET values == typed[job][cell].values
           shown == IF key \in DOMAIN values THEN values[key] ELSE {}
           measured == MeasuredFor(job[2], cell, key)
       IN /\ measured \subseteq shown
          /\ \A s \in shown \ measured :
               job[2] # "endpoints" /\ <<cell[1], s.file.dest>> \in Tails

Torn(f) == files[f].end = "noRtt"

(* On the common time axis a run keeps its own spacing and begins where    *)
(* the one before it ended, with a line between the two, as the comments   *)
(* in RttPlotter have it.  It does not after a run whose last row has no   *)
(* RTT, nor when run 1 is not the first to be plotted.                     *)
OneTimeAxis ==
  \A i \in DOMAIN points :
    LET p == points[i]
        q == points[i - 1]
        Time(s) == Rows(s.file)[s.row].at
    IN IF i = 1 THEN p.x = 0
       ELSE IF p.sample.file = q.sample.file
       THEN p.x - q.x = Time(p.sample) - Time(q.sample)
       ELSE \/ p.x = q.x /\ q.x \in lines
            \/ Torn(q.sample.file)
            \/ p.sample.file.run = 1 /\ q.x \in lines

\* An axis from `axis` cuts off no more of S than the settings ask for.
KeepsMiddle(S, axis) ==
  LET cut == (Cardinality(S) * settings.percentilesToRemove) \div Hundred
  IN /\ settings.rttMin = 0 => Cardinality({s \in S : s.rtt < axis.low}) <= cut
     /\ settings.rttMax = 0 => Cardinality({s \in S : s.rtt > axis.high}) <= cut

(* No axis leaves out more of its RTTs than asked for at either end        *)
(* (percentiles_to_remove), also where one axis serves every cell of the   *)
(* box plots or the distributions, or the runs of a page; and it is the    *)
(* right way round while less than half of them go at each end.            *)
LimitsKeepTheMiddle ==
  LET Free == settings.rttMin = 0 /\ settings.rttMax = 0 /\ 2 * settings.percentilesToRemove < Hundred
      Upright(axis) == Free => axis.low <= axis.high
      Kept(plot) ==
        (\A S \in Range(plot.values) : KeepsMiddle(S, plot.axis)) /\ Upright(plot.axis)
  IN /\ \A c \in DOMAIN drawn :
          /\ KeepsMiddle({p.sample : p \in ToSet(drawn[c].points)}, drawn[c].axis)
          /\ Upright(drawn[c].axis)
     /\ \A job \in DOMAIN typed : \A cell \in DOMAIN typed[job] : Kept(typed[job][cell])
     /\ \A page \in ToSet(perRun) : Kept(page)
     /\ \A page \in ToSet(pinged) \cup UNION {ToSet(pages) : pages \in Range(tcp)} :
          /\ KeepsMiddle(ToSet(page.points), page.axis)
          /\ Upright(page.axis)

\* The lower whisker is in the lower half, the upper in the upper.
Uncrossed ==
  /\ 2 * settings.whiskerMin <= Hundred
  /\ settings.whiskerMax = 0 \/ 2 * settings.whiskerMax >= Hundred

(* A box shows each of its RTTs, as an outlier or between the whiskers, and *)
(* none as an outlier twice unless the whiskers cross; and no more lie      *)
(* beyond a whisker than asked for.                                         *)
KeepsEveryRtt(S) ==
  LET box == Box(S)
      n == Cardinality(S)
  IN /\ \A k \in 0 .. n - 1 :
          k \in box.low \cup box.high \/ Nth(S, k) \in box.adjLow .. box.adjHigh
     /\ Uncrossed => box.low \cap box.high = {}
     /\ settings.whiskerMin # 0 =>
          Hundred * Cardinality({s \in S : s.rtt < box.adjLow}) <= n * settings.whiskerMin
     /\ settings.whiskerMax \in 1 .. Hundred =>
          Hundred * Cardinality({s \in S : s.rtt > box.adjHigh}) <= n * (Hundred - settings.whiskerMax)

(* No RTT is lost from a box plot, of a cell or of a run, whatever whiskers *)
(* the settings ask for (handleWhiskerAndOutliers).                         *)
BoxesKeepEveryRtt ==
  /\ \A job \in DOMAIN typed : \A cell \in DOMAIN typed[job] :
       job[1] = "box" => \A S \in Range(typed[job][cell].values) : KeepsEveryRtt(S)
  /\ \A page \in ToSet(perRun) : \A S \in Range(page.values) : KeepsEveryRtt(S)

(* "A summary of the RTT measurement for each combination" (plotter.go,    *)
(* and the plotter's README): a mean is no less than the least RTT.  It is *)
(* when a reset's marker, whose RTT is -1, is counted.                     *)
SummariesAreOfRtts ==
  \A c \in DOMAIN drawn :
    LET S == {p.sample : p \in ToSet(drawn[c].points)}
    IN \E s \in S : s.rtt >= 0 /\ drawn[c].sum >= Cardinality(S) * s.rtt

----------------------------------------------------------------------------
(* The pages of a run's report, whose rows, as sorted, are R.              *)
Sorting(run) == ByStream(reports[run])

\* The rows of a stream with an RTT, and those that are no retransmission.
Acks(R, stream) == {i \in DOMAIN R : R[i].stream = stream /\ R[i].acks}
PlainAcks(R, stream) == {i \in Acks(R, stream) : R[i].retr = "none"}

Long(R, rows) == \E i, j \in rows : 10 * (R[j].at - R[i].at) >= 9 * StepDuration

RowsOn(page) == {p.row : p \in ToSet(page.points)}

\* The last record, when it is all there is of its stream.
StrayLast(R) ==
  {i \in {Len(R)} : \A j \in DOMAIN R : j # i => R[j].stream # R[i].stream}

(* The pages are the streams that last a step, each once, in their order,  *)
(* with all their acknowledgements and no other stream's: what other       *)
(* programs send, and what is left of a connection that broke, has none.   *)
(* A retransmission's RTT may be missing at a stream's beginning, and the  *)
(* last record of the file, if alone in its stream, is drawn with the      *)
(* stream before it (TcpdumpPlotter), also when a step lasts no second and *)
(* a record would do for a page.                                           *)
PagesAreTheLongStreams ==
  \A run \in DOMAIN tcp :
    LET R == Sorting(run)
        pages == tcp[run]
        streams == {page.stream : page \in ToSet(pages)}
    IN /\ \A p, q \in DOMAIN pages : p < q => pages[p].stream < pages[q].stream
       /\ StepDuration > 0 =>
            \A k \in {row.stream : row \in ToSet(R)} : Long(R, PlainAcks(R, k)) => k \in streams
       /\ \A p \in DOMAIN pages :
            LET stray == IF p = Len(pages) THEN StrayLast(R) ELSE {}
                acks == Acks(R, pages[p].stream) \cup stray
            IN /\ Long(R, acks)
               /\ PlainAcks(R, pages[p].stream) \subseteq RowsOn(pages[p])
               /\ RowsOn(pages[p]) \subseteq acks
               /\ Len(pages[p].points) = Cardinality(RowsOn(pages[p]))

(* A page has one time axis, and on it every retransmission of its stream  *)
(* after its first point.  A mark before that point, of this stream or of  *)
(* one without a page, is drawn from the origin of an earlier page         *)
(* (TcpdumpPlotter's firstTs).                                             *)
MarksShareTheAxis ==
  \A run \in DOMAIN tcp : \A page \in ToSet(tcp[run]) :
    LET R == Sorting(run)
        begin == page.points[1]
        InPlace(item) == item.x - begin.x = R[item.row].at - R[begin.row].at
        marked == {mark.row : mark \in page.marks}
    IN /\ \A point \in ToSet(page.points) : InPlace(point)
       /\ \A mark \in page.marks : mark.row < begin.row \/ InPlace(mark)
       /\ \A i \in DOMAIN R :
            i > begin.row /\ R[i].stream = page.stream /\ R[i].retr # "none" => i \in marked

StepOf(R, stream) == (CHOOSE row \in ToSet(R) : row.stream = stream).step

(* Each step has one stream that lasts, in the order of the steps, and no  *)
(* stream lasts only by the retransmissions among its acknowledgements.    *)
OneStreamPerStep(R) ==
  LET streams == {row.stream : row \in ToSet(R)}
      long == {k \in streams : Long(R, PlainAcks(R, k))}
  IN /\ \A k \in streams : Long(R, Acks(R, k)) => k \in long
     /\ {StepOf(R, k) : k \in long} = 1 .. settings.parameters
     /\ \A k, l \in long : k < l => StepOf(R, k) < StepOf(R, l)

(* As long as each step's client keeps one connection, a page's title is   *)
(* that of its step, whatever shorter streams lie between                  *)
(* (getTcpPlotTitle counts pages, not streams).                            *)
TitlesSkipShortStreams ==
  \A run \in DOMAIN tcp :
    LET R == Sorting(run)
    IN OneStreamPerStep(R) =>
         \A page \in ToSet(tcp[run]) :
           Long(R, PlainAcks(R, page.stream)) => page.title = StepOf(R, page.stream)

(* "the title to assign to the plot depending on the stream"               *)
(* (commonUtils.go): it names the stream's combination.  It does not after *)
(* a step whose connection broke.                                          *)
TitlesNameTheirStreams ==
  \A run \in DOMAIN tcp : \A page \in ToSet(tcp[run]) :
    page.title = StepOf(Sorting(run), page.stream)

----------------------------------------------------------------------------
(* main returns only when every plot has been drawn: the process has no    *)
(* goroutine left that it would cut short.                                 *)
DoneMeansDrawn ==
  process = "done" =>
    /\ started = {}
    /\ Len(drawn) = Combos
    /\ DOMAIN typed = TypedJobs
    /\ settings.tcpdump => DOMAIN tcp = ToSet(RequestedRuns)
    /\ Len(pinged) = Len(settings.pings)

(* The settings say how long a step is, have a step, and leave something of *)
(* the values; every report and parameters.txt are there and can be read;  *)
(* every page of runs of every combination has an RTT, and every           *)
(* combination two; and every ping was answered.                           *)
EnoughData ==
  /\ ~NoDuration /\ Combos > 0
  /\ settings.percentilesToRemove < Hundred
  /\ settings.whiskerMin < Hundred /\ settings.whiskerMax <= Hundred
  /\ settings.tcpdump => ToSet(RequestedRuns) \subseteq DOMAIN reports /\ settings.parameters # -1
  /\ RequestedRuns # <<>>
  /\ \A c \in 1 .. Combos :
       /\ \A page \in 0 .. (Len(RequestedRuns) - 1) \div PerPage :
            \E k \in page * PerPage + 1 .. page * PerPage + PerPage :
              /\ k \in DOMAIN RequestedRuns
              /\ FileOf(c, RequestedRuns[k]) \in DOMAIN files
              /\ Samples(FileOf(c, RequestedRuns[k])) # {}
       /\ LET f == FileOf(c, 1)
          IN Cardinality(Measured(Combination(f.dest, f.inter, f.size))) > 1
  /\ <<>> \notin ToSet(settings.pings)

(* With enough data the plotter comes to its end with every plot: no index *)
(* is out of range, however few the values or the rows of a report, and no *)
(* goroutine stops it.                                                     *)
PlotterFinishes == EnoughData => <>(process = "done")
=============================================================================
