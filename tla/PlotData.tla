------------------------------ MODULE PlotData ------------------------------
(***************************************************************************)
(* What the plotter's helpers take out of the files of measurements        *)
(* (commonUtils.go).  A file's name is its run, destination, interval and  *)
(* message size; a sample is a row of a file, so that the properties can   *)
(* tell where each came from.                                              *)
(***************************************************************************)
EXTENDS Integers, SequencesExt

CONSTANTS
  Tails,     \* <<d, e>>: the name of e ends with a hyphen and the name of d
  Hundred    \* 100 in the code: how many samples there are per percentile

ASSUME HundredAssumption == Hundred \in Nat \ {0, 1}

VARIABLES
  files,      \* raw-data/: the clients' files; never changes
  reports,    \* raw-data/: the rows of the tcpdump reports; never changes
  settings    \* the settings file and parameters.txt; never changes

(* A file's rows with a whole RTT (-1 in a marker row).  "whole", or the   *)
(* client died while it wrote the last row: before the RTT, "noRtt", or    *)
(* before a comma, "short".  csv.ReadAll returns nothing of a file with a  *)
(* row of too few fields, and its error is not looked at.                  *)
Rows(f) == IF files[f].end = "short" THEN <<>> ELSE files[f].rows

Samples(f) == {[file |-> f, row |-> i, rtt |-> Rows(f)[i].rtt] : i \in DOMAIN Rows(f)}

\* requestedSlice: all runs if the settings have no runs_to_plot.
RequestedRuns ==
  IF settings.plotAll THEN [i \in 1 .. settings.runs |-> i] ELSE settings.runsToPlot

\* Endpoints, then intervals, then sizes: the steps of a run.
Combos == Len(settings.endpoints) * Len(settings.intervals) * Len(settings.msgSizes)

(* The settings must say, in seconds or in minutes for a whole run, how    *)
(* long a step is.                                                         *)
NoDuration    == settings.runsStepDuration = 0 /\ settings.runsInterval = 0
DividesByZero == settings.runsStepDuration = 0 /\ Combos = 0

StepDuration ==
  IF settings.runsStepDuration # 0 THEN settings.runsStepDuration
  ELSE (settings.runsInterval * 60) \div Combos

(* strings.Contains(filename, "-" + destination + ".i"): also true of a    *)
(* destination that ends so.                                               *)
NameContains(f, dest) == f.dest = dest \/ <<dest, f.dest>> \in Tails

\* Mutant: the runs to plot are forgotten.
WantedRunAny(f) == TRUE

WantedRun(f) == f.run \in ToSet(RequestedRuns)

(* openDesiredFiles for the three types of plot.  Each fixes two of the    *)
(* three parameters (the cell, in the order of getLoopElems) and compares  *)
(* the values of the third (the keys).                                     *)
Desired(type, cell) ==
  {f \in DOMAIN files :
     /\ WantedRun(f)
     /\ CASE type = "sizes" -> NameContains(f, cell[1]) /\ f.inter = cell[2]
          [] type = "intervals" -> NameContains(f, cell[1]) /\ f.size = cell[2]
          [] type = "endpoints" ->
               f.size = cell[1] /\ f.inter = cell[2] /\ f.dest \in ToSet(settings.endpoints)}

(* Endpoints are compared by their descriptions (nameFromDest): those that *)
(* share one are one.                                                      *)
KeyOf(type, f) ==
  CASE type = "sizes" -> f.size
    [] type = "intervals" -> f.inter
    [] type = "endpoints" -> settings.description[f.dest]

Keys(type) ==
  ToSet(CASE type = "sizes" -> settings.msgSizes
          [] type = "intervals" -> settings.intervals
          [] type = "endpoints" -> [i \in DOMAIN settings.endpoints |-> settings.description[settings.endpoints[i]]])

Cells(type) ==
  CASE type = "sizes" -> ToSet(settings.endpoints) \X ToSet(settings.intervals)
    [] type = "intervals" -> ToSet(settings.endpoints) \X ToSet(settings.msgSizes)
    [] type = "endpoints" -> ToSet(settings.msgSizes) \X ToSet(settings.intervals)

\* valuesMap[key] of a cell, and the keys that it has.
ValuesOf(type, cell, key) ==
  UNION {Samples(f) : f \in {g \in Desired(type, cell) : KeyOf(type, g) = key}}

PresentKeys(type, cell) == {k \in Keys(type) : ValuesOf(type, cell, k) # {}}

(* The k-th of the sorted RTTs, from 0.                                    *)
Nth(S, k) ==
  CHOOSE v \in {s.rtt : s \in S} :
    /\ Cardinality({s \in S : s.rtt < v}) <= k
    /\ Cardinality({s \in S : s.rtt <= v}) > k

\* How many of n RTTs make p percentiles.
Percentiles(n, p) == (n \div Hundred) * p

(* The limits of an axis: the least and the greatest of n RTTs after       *)
(* percentiles_to_remove percentiles at either end.                        *)
Trimmed(n) == Percentiles(n, settings.percentilesToRemove)

\* Mutant: the index counts from 1.
LowIndexNext(n) == Trimmed(n) + 1

LowIndex(n) == Trimmed(n)

\* Mutant: the index counts from 1.
HighIndexPast(n) == n - Trimmed(n)

HighIndex(n) == n - Trimmed(n) - 1

\* An index beyond the values is a panic.
OutOfRange(n) == ~({LowIndex(n), HighIndex(n)} \subseteq 0 .. n - 1)

Limits(S) ==
  LET n == Cardinality(S) IN [low |-> Nth(S, LowIndex(n)), high |-> Nth(S, HighIndex(n))]

\* rtt_min and rtt_max, where they are not 0, take the limits' place.
Axis(limits) ==
  [low  |-> IF settings.rttMin # 0 THEN settings.rttMin ELSE limits.low,
   high |-> IF settings.rttMax # 0 THEN settings.rttMax ELSE limits.high]

\* The limits that hold all of several plots' limits.
Span(L) == [low |-> Min({l.low : l \in L}), high |-> Max({l.high : l \in L})]
=============================================================================
