---------------------------- MODULE TcpdumpPlot ----------------------------
(***************************************************************************)
(* The plots of a run's tcpdump report (TcpdumpPlotter).  Its rows are the *)
(* acknowledgements and the retransmissions of every TCP stream of the     *)
(* machine; a stream that lasts as long as a step becomes a page, titled   *)
(* with the next of the steps' combinations.                               *)
(*                                                                         *)
(* A row is [at, stream, acks, rtt, retr, step]: its time in seconds, its  *)
(* stream, whether it acknowledges something and with what round trip      *)
(* time, "in" or "out" for a retransmission to or from this machine (tshark *)
(* keeps no other row), and the step of the run that the stream belongs to *)
(* (0: to none), which the file does not say.                              *)
(***************************************************************************)
EXTENDS PlotData

ReportRow ==
  {row \in [at : Nat, stream : Nat, acks : BOOLEAN, rtt : Int,
            retr : {"none", "in", "out"}, step : Nat] : row.acks \/ row.retr # "none"}

\* Where sort.SliceStable by stream puts row i of a report.
Place(report, i) ==
  Cardinality({j \in DOMAIN report :
                 \/ report[j].stream < report[i].stream
                 \/ report[j].stream = report[i].stream /\ j <= i})

ByStream(report) ==
  [k \in DOMAIN report |-> report[CHOOSE i \in DOMAIN report : Place(report, i) = k]]

(* What the loop carries from row to row: the points and the marks of the  *)
(* page to come, their origin, the stream, and the pages drawn.            *)
Nothing == [values |-> <<>>, marks |-> {}, firstTs |-> 0, previous |-> 0,
          pages |-> <<>>, panic |-> FALSE]

\* Mutant: a row is either a point or a mark.
RetransmittedElse(row) == row.retr # "none" /\ ~row.acks

Retransmitted(row) == row.retr # "none"

WithRow(s, row, i) ==
  LET x == row.at - s.firstTs
  IN [s EXCEPT
        !.values = IF row.acks THEN Append(@, [x |-> x, row |-> i, rtt |-> row.rtt]) ELSE @,
        !.marks = IF Retransmitted(row) THEN @ \cup {[x |-> x, row |-> i, retr |-> row.retr]} ELSE @]

\* Mutant: every stream is given a page.
LastsAlways(values) == TRUE

\* The points take up a step, but for a tenth.
Lasts(values) ==
  LET X == {p.x : p \in ToSet(values)}
  IN 10 * (Max(X) - Min(X)) >= 9 * StepDuration

(* The combination of a page's title, by its number in parameters.txt,     *)
(* which the campaign wrote; none ("Unavailable") when there are more      *)
(* pages than combinations.                                                *)
Title(streamCounter) ==
  IF streamCounter < settings.parameters THEN streamCounter + 1 ELSE 0

\* Mutant: the points of a stream are kept for the next.
KeptValues(s) == s.values

NextValues(s) == <<>>

(* The end of a stream: its page, if it has lasted.                        *)
PageEnd(s) ==
  IF OutOfRange(Len(s.values)) THEN [s EXCEPT !.panic = TRUE]
  ELSE [s EXCEPT
          !.pages = IF Lasts(s.values)
                    THEN Append(@, [points |-> s.values, marks |-> s.marks,
                                    stream |-> s.previous, title |-> Title(Len(@)),
                                    axis |-> Axis(Limits(ToSet(s.values)))])
                    ELSE @,
          !.values = NextValues(s), !.marks = {}]

\* Where a page has no point yet, its origin is the row's time.
Origin(s, row) == IF s.values = <<>> THEN row.at ELSE s.firstTs

(* One turn of the loop.  Retransmissions before a page's first point are  *)
(* skipped.  The last record is added before the page is drawn, whichever  *)
(* stream it is of.                                                        *)
Turn(rows, s, i) ==
  LET row  == rows[i]
      here == [s EXCEPT !.firstTs = Origin(s, row),
                        !.previous = IF s.values = <<>> THEN row.stream ELSE @]
      last == i = Len(rows)
      page == PageEnd(IF last THEN WithRow(here, row, i) ELSE here)
  IN IF s.panic \/ (s.values = <<>> /\ Retransmitted(row)) THEN s
     ELSE IF last \/ here.previous # row.stream
     THEN WithRow([page EXCEPT !.previous = row.stream], row, i)
     ELSE WithRow(here, row, i)

\* The set of one lets TLC evaluate the state of the loop once per turn.
Plotted(report) ==
  LET rows == ByStream(report)
      after[i \in 0 .. Len(rows)] ==
        IF i = 0 THEN Nothing
        ELSE CHOOSE t \in {Turn(rows, s, i) : s \in {after[i - 1]}} : TRUE
  IN after[Len(rows)]
=============================================================================
