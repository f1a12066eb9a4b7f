----------------------------- MODULE MCCampaign -----------------------------
(***************************************************************************)
(* Settings files for TLC.                                                 *)
(***************************************************************************)
EXTENDS CampaignInvariant

File(runs, between, duration, intervals, tcpdump) ==
  [runs |-> runs, runsInterval |-> between, runsStepDuration |-> duration,
   endpoints |-> 1, intervals |-> intervals, msgSizes |-> 1, tcpdump |-> tcpdump]

\* With and without tcpdump, with a duration and without, an interval longer
\* than a step, and unusable files.
UsualFiles ==
  { File(2, 1, 30, <<500>>, TRUE),
    File(1, 1, 0, <<10, 500>>, FALSE),
    File(1, 0, 0, <<500>>, FALSE),
    File(1, 1, 0, <<>>, FALSE),
    File(1, 1, 30, <<0>>, FALSE),
    File(1, 1, 1, <<2000>>, FALSE),
    File(0, 1, 30, <<500>>, FALSE) }
=============================================================================
