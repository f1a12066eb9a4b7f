----------------------------- MODULE MCPlotter -----------------------------
(***************************************************************************)
(* Campaigns for TLC: two sizes or two destinations, up to four runs, and  *)
(* tcpdump reports of up to four rows, or a few longer ones.               *)
(***************************************************************************)
EXTENDS PlotterInvariant

CONSTANTS d1, d2

\* The destination d2 ends with "-" and d1.
MCTails == {<<d1, d2>>}

\* The rows of a run, begun 100 later than the one before it.
Content(run, rtts, end) ==
  [rows |-> [i \in DOMAIN rtts |-> [at |-> 100 * run + 7 * i, rtt |-> rtts[i]]], end |-> end]

File(run, dest, size) == [run |-> run, dest |-> dest, inter |-> 10, size |-> size]

Usual ==
  [runs |-> 2, plotAll |-> TRUE, runsToPlot |-> <<>>, endpoints |-> <<d1>>,
   description |-> d1 :> "one" @@ d2 :> "two", parameters |-> 1,
   intervals |-> <<10>>, msgSizes |-> <<1>>, pings |-> <<>>, tcpdump |-> FALSE,
   runsStepDuration |-> 2, runsInterval |-> 1, percentilesToRemove |-> 1,
   equalizationDisabled |-> FALSE, rttMin |-> 0, rttMax |-> 0,
   whiskerMin |-> 0, whiskerMax |-> 0]

Only(runs) == [Usual EXCEPT !.plotAll = FALSE, !.runsToPlot = runs]

\* Only the endpoints in the settings have a description.
Campaign(contents, reported, s) ==
  [files |-> contents, reports |-> reported,
   settings |-> [s EXCEPT !.description = [d \in ToSet(s.endpoints) |-> @[d]]]]

----------------------------------------------------------------------------
\* Size 1 in two runs of every shape, and size 2 in one.
Shapes == { <<<<>>, "whole">>, <<<<4>>, "whole">>, <<<<4, 6>>, "short">>, <<<<4, 6>>, "noRtt">>,
            <<<<5, -1, 4, 6>>, "whole">> }

TwoSizes ==
  { Campaign(
      File(1, d1, 1) :> Content(1, a[1], a[2]) @@ File(2, d1, 1) :> Content(2, b[1], b[2])
        @@ File(2, d1, 2) :> Content(2, <<9, 8, 2>>, "whole"), <<>>, s) :
    a \in Shapes, b \in { <<<<4, 6>>, "noRtt">>, <<<<5, -1, 4, 6>>, "whole">> },
    s \in { [Usual EXCEPT !.msgSizes = <<1, 2>>],
            [Only(<<2, 1>>) EXCEPT !.msgSizes = <<1, 2>>, !.percentilesToRemove = 2] } }

\* A ping's answers.
Answers(n) == [i \in 1 .. n |-> [at |-> 10 + 3 * i, rtt |-> (5 * i) % 7]]

\* One size; the destination d2 may be in the settings, perhaps under the
\* description of d1, or only on disk.
TwoDestinations ==
  { Campaign(
      [f \in {File(r, d, 1) : r \in 1 .. 4, d \in {d1, d2}} |-> Content(f.run, <<4, 6, -1, 7>>, "whole")],
      <<>>,
      [Only(runs) EXCEPT !.endpoints = eps, !.percentilesToRemove = x[1], !.pings = x[2], !.description[d2] = x[3]]) :
    eps \in {<<d1>>, <<d2, d1>>}, runs \in {<<>>, <<1, 2, 4>>},
    x \in {<<0, <<Answers(2), Answers(3)>>, "one">>, <<1, <<Answers(1), Answers(0)>>, "two">>, <<4, <<>>, "two">>} }

(* Nine RTTs with outliers, and whiskers, some that make no sense          *)
(* included; axes that the settings fix, or that are each cell's own.      *)
Whiskers ==
  { Campaign(File(1, d1, 1) :> Content(1, rtts, "whole"), <<>>,
      [Only(<<1>>) EXCEPT !.whiskerMin = low, !.whiskerMax = high]) :
    rtts \in {<<50, 20, 21, 22, 23, 24, 25, 1, 51>>},
    low \in {0, 1, 4}, high \in {0, 3, 5} }
  \cup
  { Campaign(File(1, d1, 1) :> Content(1, <<50>>, "whole"), <<>>, [Only(<<1>>) EXCEPT !.whiskerMax = 5]) }
  \cup
  { Campaign(
      [f \in {File(1, d, 1) : d \in {d1, d2}} |-> Content(1, IF f.dest = d1 THEN <<4, 6, 3, 7, 5>> ELSE <<9, 2>>, "whole")],
      <<>>, [Only(<<1>>) EXCEPT !.endpoints = <<d2, d1>>, !.equalizationDisabled = x[1], !.rttMin = x[2], !.rttMax = x[3]]) :
    x \in {<<TRUE, 0, 0>>, <<TRUE, 5, 0>>, <<FALSE, 5, 0>>, <<FALSE, 0, 5>>} }

----------------------------------------------------------------------------
\* A report: a row a second, of stream w[i][1] and kind w[i][2].
Kinds == {"ack", "retransmission", "both"}

ReportOf(w, steps) ==
  [i \in DOMAIN w |->
    [at |-> i, stream |-> w[i][1], acks |-> w[i][2] # "retransmission", rtt |-> 9 - i,
     retr |-> CASE w[i][2] = "ack" -> "none" [] w[i][2] = "both" -> "in" [] OTHER -> "out",
     step |-> steps[w[i][1] + 1]]]

Words(streams, kinds, n) == BoundedSeq(streams \X kinds, n)

\* Three rows of stream 0, in seconds 1 to 4, and one of stream 1.
FourRows ==
  { [i \in 1 .. 4 |-> <<IF i = one THEN 1 ELSE 0, kinds[i]>>] : one \in 1 .. 4, kinds \in [1 .. 4 -> Kinds] }

\* Two steps whose clients keep their connection, with other traffic.
KeptSteps == <<1, 0, 2>>

\* A step of a connection that broke, and one that did not.
BrokenSteps == <<1, 1, 2>>

Word(streams) == [i \in DOMAIN streams |-> <<streams[i], "ack">>]

LongWords ==
  { Word(w) : w \in { <<0, 0, 0, 1, 2, 2, 2>>, <<0, 1, 0, 1, 0, 2, 2, 2, 2>>,
                      <<0, 0, 1, 1, 2, 2, 2, 1>>, <<0, 1, 0, 2, 0, 2, 2>> } }

\* A step that lasts only by the retransmission it begins with.
RetransmittedStart == [Word(<<0, 0, 0, 2, 2, 2>>) EXCEPT ![1] = <<0, "both">>]

Reporting == [Only(<<1>>) EXCEPT !.tcpdump = TRUE]
TwoSteps == [Reporting EXCEPT !.msgSizes = <<1, 2>>, !.parameters = 2]

(* Without the clients' files, so that the other goroutines end soon.  The *)
(* settings may have lost a size since the campaign; in the last, a minute *)
(* for 61 combinations leaves a step no second.                            *)
ReportsAlone ==
  { Campaign(<<>>, 1 :> ReportOf(w, <<0, 1>>), Reporting) : w \in Words({0, 1}, Kinds, 3) \cup FourRows }
  \cup
  { Campaign(<<>>, 1 :> ReportOf(w, KeptSteps), TwoSteps) :
      w \in LongWords \cup Words({0, 1, 2}, {"ack"}, 4) \cup {RetransmittedStart} }
  \cup
  { Campaign(<<>>, 1 :> ReportOf(w, KeptSteps), [TwoSteps EXCEPT !.msgSizes = <<1>>]) : w \in LongWords }
  \cup
  { Campaign(<<>>, 1 :> ReportOf(Word(<<0, 0, 1>>), <<0, 1>>),
             [Reporting EXCEPT !.runsStepDuration = 0, !.msgSizes = [i \in 1 .. 61 |-> i], !.parameters = 61]) }

\* With everything; a report or parameters.txt that is not there; no duration
\* of a step.
WithReports ==
  { Campaign([f \in {File(r, d1, 1) : r \in {1, 2}} |-> Content(f.run, <<4, 6>>, "whole")], reported, s) :
    reported \in { r :> ReportOf(Word(<<0, 1, 0, 1, 0>>), <<1, 0>>) @@ 2 :> <<>> : r \in {1, 2} },
    s \in { [Usual EXCEPT !.tcpdump = TRUE, !.runsStepDuration = x[1], !.runsInterval = x[2],
                          !.endpoints = x[3], !.parameters = x[4]] :
              x \in {<<2, 1, <<d1>>, 1>>, <<2, 1, <<d1>>, -1>>, <<0, 1, <<d1>>, 1>>, <<0, 0, <<d1>>, 1>>, <<0, 1, <<>>, 1>>} } }

MCCampaigns == TwoSizes \cup TwoDestinations \cup Whiskers \cup ReportsAlone \cup WithReports

\* A run whose first step's connection broke in the middle.
BrokenCampaigns ==
  { Campaign(<<>>, 1 :> ReportOf(Word(<<0, 0, 1, 1, 2, 2, 2>>), BrokenSteps),
             TwoSteps) }

\* A reset after the first two messages.
ResetCampaigns ==
  { Campaign(File(1, d1, 1) :> Content(1, <<5, 6, -1, 4>>, "whole"), <<>>, Only(<<1>>)) }
=============================================================================
