------------------------------ MODULE PlotBox ------------------------------
(***************************************************************************)
(* A box of a box plot: NewBoxPlot of the gonum library, and what          *)
(* handleWhiskerAndOutliers (commonUtils.go) makes of its whiskers and     *)
(* outliers when the settings ask for percentiles.                         *)
(*                                                                         *)
(* The n sorted RTTs are a function V of 0 .. n - 1; an outlier is an      *)
(* index.                                                                  *)
(***************************************************************************)
EXTENDS PlotData

Sorted(S) == [k \in 0 .. Cardinality(S) - 1 |-> Nth(S, k)]

\* Twice the median of V[from], ..., V[to - 1].
TwiceMedian(V, from, to) ==
  LET mid == from + (to - from) \div 2
  IN IF (to - from) % 2 = 1 THEN 2 * V[mid] ELSE V[mid - 1] + V[mid]

(* gonum: an outlier is more than one and a half times the box beyond it;  *)
(* a quartile is the median of a half.                                     *)
Outside(V, n) ==
  LET q1 == TwiceMedian(V, 0, n \div 2)
      q3 == TwiceMedian(V, n \div 2, n)
  IN IF n = 1 THEN {}
     ELSE {k \in 0 .. n - 1 : \/ 4 * V[k] < 2 * q1 - 3 * (q3 - q1)
                              \/ 4 * V[k] > 2 * q3 + 3 * (q3 - q1)}

\* The outliers that begin with the least RTT and leave none out.
FirstRun(outside) == {k \in outside : 0 .. k \subseteq outside}

\* Mutant: the last of the percentiles is left out.
BelowOneShort(n) == 0 .. Percentiles(n, settings.whiskerMin) - 2

\* What whisker_min and whisker_max cut off.
Below(n) == 0 .. Percentiles(n, settings.whiskerMin) - 1
Above(n) == n - Percentiles(n, Hundred - settings.whiskerMax) .. n - 1

(* A whisker that the settings leave out (0) keeps gonum's end and         *)
(* outliers.                                                               *)
Box(S) ==
  LET n == Cardinality(S)
      V == Sorted(S)
      outside == Outside(V, n)
      within == {V[k] : k \in (0 .. n - 1) \ outside}
      least == settings.whiskerMin
      greatest == settings.whiskerMax
  IN [adjLow  |-> IF least # 0 THEN V[Percentiles(n, least)] ELSE Min(within),
      low     |-> IF least # 0 THEN Below(n) ELSE FirstRun(outside),
      adjHigh |-> IF greatest # 0 THEN V[n - Percentiles(n, Hundred - greatest) - 1] ELSE Max(within),
      high    |-> IF greatest # 0 THEN Above(n) ELSE outside \ FirstRun(outside)]

\* A whisker at an index beyond the values is a panic.
NoWhisker(n) ==
  \/ Percentiles(n, settings.whiskerMin) >= n
  \/ settings.whiskerMax # 0 /\ Percentiles(n, Hundred - settings.whiskerMax) \notin 0 .. n - 1
=============================================================================
