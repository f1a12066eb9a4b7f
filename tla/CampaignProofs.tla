--------------------------- MODULE CampaignProofs ---------------------------
(***************************************************************************)
(* Proofs about Campaign, for every value of its constants: any finite     *)
(* number of destinations, any number of runs, and any settings files.     *)
(***************************************************************************)
EXTENDS CampaignInvariant, FiniteSetTheorems, SequenceTheorems, TLAPS

USE DestsAssumption, MaxRunsAssumption, SettingsAssumption

(***************************************************************************)
(* Lemmas about the operators.                                             *)
(***************************************************************************)

(* What a settings file is.                                                *)
LEMMA SettingsTypes ==
  ASSUME settings \in SettingsFiles
  PROVE  /\ settings.runs \in Nat /\ settings.runs <= MaxRuns
         /\ Combinations \in Nat
         /\ \A r \in RunIds : r \in Nat /\ r >= 1
         /\ settings.tcpdump \in BOOLEAN
  <1>1. /\ settings.runs \in 0 .. MaxRuns /\ settings.endpoints \in Nat
        /\ settings.intervals \in Seq(Nat) /\ settings.msgSizes \in Nat
        /\ settings.tcpdump \in BOOLEAN
    OBVIOUS
  <1>2. Len(settings.intervals) \in Nat
    BY <1>1, LenProperties
  <1>3. \A a, b, c \in Nat : a * b * c \in Nat
    OBVIOUS
  <1>4. Combinations \in Nat
    BY <1>1, <1>2, <1>3 DEF Combinations
  <1>5. QED
    BY <1>1, <1>4 DEF RunIds

(* There are finitely many threads.                                        *)
LEMMA FiniteThreads ==
  /\ Cardinality(Dests) \in Nat
  /\ \A S \in SUBSET Dests :
       IsFiniteSet(S) /\ Cardinality(S) \in Nat /\ Cardinality(S) <= Cardinality(Dests)
  /\ \A S \in SUBSET RunIds : IsFiniteSet(S) /\ Cardinality(S) \in Nat
  <1>1. Cardinality(Dests) \in Nat
    BY FS_CardinalityType
  <1>2. ASSUME NEW S \in SUBSET Dests
        PROVE  IsFiniteSet(S) /\ Cardinality(S) \in Nat /\ Cardinality(S) <= Cardinality(Dests)
    BY FS_Subset, FS_CardinalityType
  <1>3. IsFiniteSet(RunIds)
    BY FS_Interval DEF RunIds
  <1>4. ASSUME NEW S \in SUBSET RunIds PROVE IsFiniteSet(S) /\ Cardinality(S) \in Nat
    BY <1>3, FS_Subset, FS_CardinalityType
  <1>5. QED
    BY <1>1, <1>2, <1>4

(* A thread or a helper moves, and no other does.                          *)
LEMMA Moves ==
  ASSUME TypeOK
  PROVE  /\ \A d \in Dests : \A pc : GoPing(d, pc) =>
              \A e \in Dests : ping'[e] = IF e = d THEN pc ELSE ping[e]
         /\ \A d \in Dests : \A pc : GoWatch(d, pc) =>
              \A e \in Dests : watch'[e] = IF e = d THEN pc ELSE watch[e]
         /\ \A r \in RunIds : \A pc : GoDump(r, pc) =>
              \A e \in RunIds : dump'[e] = IF e = r THEN pc ELSE dump[e]
  BY DEF TypeOK, PingTypeOK, DumpTypeOK, GoPing, GoWatch, GoDump

(* The live threads are counted by numbers, and a live thread is counted.  *)
LEMMA LiveCounted ==
  ASSUME WgCounts
  PROVE  /\ IsFiniteSet(PingsLive) /\ Cardinality(PingsLive) \in Nat
         /\ IsFiniteSet(DumpsLive) /\ Cardinality(DumpsLive) \in Nat
         /\ wg \in Nat
         /\ PingsLive # {} \/ DumpsLive # {} => wg > 0
         /\ wg = 0 => PingsLive = {} /\ DumpsLive = {}
  <1>1. PingsLive \in SUBSET Dests /\ DumpsLive \in SUBSET RunIds
    BY DEF PingsLive, DumpsLive
  <1>2. /\ IsFiniteSet(PingsLive) /\ Cardinality(PingsLive) \in Nat
        /\ IsFiniteSet(DumpsLive) /\ Cardinality(DumpsLive) \in Nat
    BY <1>1, FiniteThreads
  <1>3. /\ PingsLive # {} => Cardinality(PingsLive) # 0
        /\ DumpsLive # {} => Cardinality(DumpsLive) # 0
    BY <1>2, FS_EmptySet
  <1>4. QED
    BY <1>2, <1>3 DEF WgCounts

(* The same pings and dumps are live before and after.                     *)
LEMMA SameLive ==
  /\ (\A d \in Dests : ping'[d] \in {"none", "done"} <=> ping[d] \in {"none", "done"})
       => PingsLive' = PingsLive
  /\ (\A r \in RunIds : dump'[r] \in {"none", "done"} <=> dump[r] \in {"none", "done"})
       => DumpsLive' = DumpsLive
  BY DEF PingsLive, DumpsLive

(***************************************************************************)
(* Type correctness.                                                       *)
(***************************************************************************)

(* At first every variable has its type.                                   *)
LEMMA TypeInit == Init => TypeOK
  <1> SUFFICES ASSUME Init PROVE TypeOK
    OBVIOUS
  <1>1. PingTypeOK /\ DumpTypeOK
    <2>1. stopPing \in 0 .. StopPingCap
      BY FiniteThreads DEF Init, PingInit, StopPingCap
    <2>2. waiters \in Seq(Dests)
      BY EmptySeq DEF Init, PingInit
    <2>3. PingTypeOK
      BY <2>1, <2>2 DEF Init, PingInit, PingTypeOK
    <2>4. QED
      BY <2>3 DEF Init, DumpInit, DumpTypeOK
  <1>2. CampaignTypeOK
    BY FiniteThreads, SettingsTypes DEF Init, CampaignTypeOK
  <1>3. QED
    BY <1>1, <1>2 DEF TypeOK

(* main's steps.                                                           *)
LEMMA TypeMain ==
  ASSUME TypeOK, WgCounts, RunsInOrder, Main
  PROVE  TypeOK'
  <1>1. /\ settings.runs \in Nat /\ settings.runs <= MaxRuns /\ Combinations \in Nat
        /\ Cardinality(Dests) \in Nat /\ wg \in Nat
    BY SettingsTypes, FiniteThreads DEF TypeOK, PingTypeOK, CampaignTypeOK
  <1>2. settings' = settings /\ Combinations' = Combinations
    BY DEF Main, ReadSettings, StartPings, Iperf, StartTcpdump, NoOutboundIP, StartStep,
           ClientEnds, StopTcpdump, KillPing, StopPing, StoppedPings, NextRun, Wait, Plot,
           mainVars, Combinations
  <1>3. CASE ReadSettings \/ Iperf \/ NoOutboundIP \/ StartStep \/ StoppedPings \/ Wait \/ Plot
    <2>1. UNCHANGED <<wg, killPing, pingVars, dumpVars, settings, run, step, toSignal>>
      BY <1>3 DEF ReadSettings, Iperf, NoOutboundIP, StartStep, StoppedPings, Wait, Plot, mainVars
    <2>2. status' \in {"up", "fatal", "panic"}
      BY <1>3 DEF ReadSettings, Iperf, NoOutboundIP, StartStep, StoppedPings, Wait, Plot, Dies,
                  TypeOK, PingTypeOK
    <2>3. main' \in {"settings", "pings", "iperf", "tcpdump", "steps", "client", "hung",
                     "stopTcpdump", "killPing", "stopPing", "sleep", "wait", "plot", "done"}
      BY <1>3 DEF ReadSettings, Iperf, NoOutboundIP, StartStep, StoppedPings, Wait, Plot, Goto,
                  TypeOK, CampaignTypeOK, mainVars
    <2>4. QED
      BY <1>2, <2>1, <2>2, <2>3
         DEF TypeOK, PingTypeOK, DumpTypeOK, CampaignTypeOK, pingVars, dumpVars
  <1>4. CASE StartPings
    <2>1. PingTypeOK'
      <3>1. wg' \in Nat
        BY <1>1, <1>4 DEF StartPings
      <3>2. QED
        BY <1>4, <3>1 DEF StartPings, TypeOK, PingTypeOK
    <2>2. CampaignTypeOK' /\ DumpTypeOK'
      BY <1>2, <1>4 DEF StartPings, Goto, TypeOK, DumpTypeOK, CampaignTypeOK, dumpVars
    <2>3. QED
      BY <2>1, <2>2 DEF TypeOK
  <1>5. CASE StartTcpdump
    <2>1. PingTypeOK'
      <3>1. wg' \in Nat
        BY <1>1, <1>5 DEF StartTcpdump, Added
      <3>2. QED
        BY <1>5, <3>1 DEF StartTcpdump, TypeOK, PingTypeOK, pingVars
    <2>2. DumpTypeOK'
      BY <1>5 DEF StartTcpdump, GoDump, TypeOK, DumpTypeOK
    <2>3. CampaignTypeOK'
      BY <1>1, <1>2, <1>5 DEF StartTcpdump, Goto, TypeOK, CampaignTypeOK
    <2>4. QED
      BY <2>1, <2>2, <2>3 DEF TypeOK
  <1>6. CASE ClientEnds
    <2>1. step' \in 1 .. Combinations + 1
      BY <1>1, <1>6 DEF ClientEnds, RunsInOrder, TypeOK, CampaignTypeOK
    <2>2. QED
      BY <1>2, <1>6, <2>1
         DEF ClientEnds, Goto, TypeOK, PingTypeOK, DumpTypeOK, CampaignTypeOK, pingVars, dumpVars
  <1>7. CASE StopTcpdump
    BY <1>1, <1>2, <1>7, SettingsTypes
       DEF StopTcpdump, Goto, TypeOK, PingTypeOK, DumpTypeOK, CampaignTypeOK, pingVars
  <1>8. CASE KillPing
    BY <1>1, <1>2, <1>8
       DEF KillPing, LastRun, Interrupts, Goto, TypeOK, PingTypeOK, DumpTypeOK, CampaignTypeOK,
           pingVars, dumpVars
  <1>9. CASE StopPing
    <2>1. /\ stopPing' \in 0 .. StopPingCap /\ waiters' \in Seq(Dests)
          /\ watch' \in [Dests -> {"none", "ready", "parked", "signal"}]
      <3>1. /\ stopPing \in 0 .. StopPingCap /\ waiters \in Seq(Dests)
            /\ watch \in [Dests -> {"none", "ready", "parked", "signal"}]
        BY DEF TypeOK, PingTypeOK
      <3>2. CASE waiters # <<>> /\ waiters' = Tail(waiters) /\ stopPing' = stopPing
                 /\ GoWatch(Head(waiters), "signal")
        BY <3>1, <3>2, HeadTailProperties DEF GoWatch
      <3>3. CASE stopPing < StopPingCap /\ stopPing' = stopPing + 1 /\ UNCHANGED <<waiters, watch>>
        BY <1>1, <3>1, <3>3 DEF StopPingCap
      <3>4. QED
        BY <1>9, <3>2, <3>3 DEF StopPing, InterruptPing
    <2>2. toSignal' \in 0 .. Cardinality(Dests)
      BY <1>1, <1>9 DEF StopPing, TypeOK, CampaignTypeOK
    <2>3. QED
      BY <1>2, <1>9, <2>1, <2>2
         DEF StopPing, TypeOK, PingTypeOK, DumpTypeOK, CampaignTypeOK, dumpVars
  <1>10. CASE NextRun
    <2>1. run' \in 1 .. MaxRuns + 1
      BY <1>1, <1>10 DEF NextRun, RunsInOrder, TypeOK, CampaignTypeOK
    <2>2. QED
      BY <1>2, <1>10, <2>1
         DEF NextRun, Goto, TypeOK, PingTypeOK, DumpTypeOK, CampaignTypeOK, pingVars, dumpVars
  <1>11. QED
    BY <1>3, <1>4, <1>5, <1>6, <1>7, <1>8, <1>9, <1>10 DEF Main

(* The steps of the ping threads.                                          *)
LEMMA TypePing ==
  ASSUME TypeOK, WgCounts, NEW d \in Dests, PingThread(d) \/ PingFails(d),
         UNCHANGED <<dumpVars, mainVars>>
  PROVE  TypeOK'
  <1>1. CampaignTypeOK' /\ DumpTypeOK'
    BY DEF TypeOK, CampaignTypeOK, DumpTypeOK, dumpVars, mainVars, Combinations
  <1>2. PingTypeOK'
    <2>1. CASE PingCheck(d)
      <3>1. wg' \in Nat
        <4>1. CASE wg' = wg - 1
          <5>1. d \in PingsLive
            BY <2>1 DEF PingCheck, PingsLive
          <5>2. QED
            BY <4>1, <5>1, LiveCounted
        <4>2. QED
          BY <2>1, <4>1 DEF PingCheck, TypeOK, PingTypeOK
      <3>2. QED
        BY <2>1, <3>1 DEF PingCheck, GoPing, GoWatch, TypeOK, PingTypeOK
    <2>2. CASE HelperReceives(d)
      <3>1. stopPing' \in 0 .. StopPingCap /\ waiters' \in Seq(Dests)
        BY <2>2, FiniteThreads DEF HelperReceives, TypeOK, PingTypeOK, StopPingCap
      <3>2. QED
        BY <2>2, <3>1 DEF HelperReceives, GoWatch, TypeOK, PingTypeOK
    <2>3. CASE PingCreate(d) \/ PingStart(d) \/ PingSave(d) \/ HelperSignals(d) \/ PingFails(d)
      BY <2>3 DEF PingCreate, PingStart, PingSave, HelperSignals, PingFails, Dies, GoPing,
                  GoWatch, TypeOK, PingTypeOK, pingVars
    <2>4. QED
      BY <2>1, <2>2, <2>3 DEF PingThread
  <1>3. QED
    BY <1>1, <1>2 DEF TypeOK

(* The steps of the tcpdump threads.                                       *)
LEMMA TypeDump ==
  ASSUME TypeOK, WgCounts, NEW r \in RunIds, TcpDumper(r) \/ DumpEnds(r) \/ DumpFails(r),
         UNCHANGED <<pingVars, mainVars>>
  PROVE  TypeOK'
  <1>1. CampaignTypeOK'
    BY DEF TypeOK, CampaignTypeOK, mainVars, Combinations
  <1>2. wg' \in Nat
    <2>1. CASE wg' = wg - 1 /\ DumpSave(r)
      <3>1. r \in DumpsLive
        BY <2>1 DEF DumpSave, DumpsLive
      <3>2. QED
        BY <2>1, <3>1, LiveCounted
    <2>2. QED
      BY <2>1 DEF TcpDumper, DumpCreate, DumpStart, DumpSave, DumpHelperReceives,
                  DumpHelperSignals, DumpEnds, DumpFails, TypeOK, PingTypeOK
  <1>3. status' \in {"up", "fatal", "panic"} /\ killPing' = killPing
    BY DEF TcpDumper, DumpCreate, DumpStart, DumpSave, DumpHelperReceives,
           DumpHelperSignals, DumpEnds, DumpFails, Dies, TypeOK, PingTypeOK
  <1>4. PingTypeOK'
    BY <1>2, <1>3 DEF TypeOK, PingTypeOK, pingVars
  <1>5. DumpTypeOK'
    <2>1. CASE DumpCreate(r)
      BY <2>1 DEF DumpCreate, GoDump, GoDumpWatch, TypeOK, DumpTypeOK
    <2>2. CASE DumpStart(r) \/ DumpSave(r) \/ DumpEnds(r) \/ DumpFails(r)
      BY <2>2 DEF DumpStart, DumpSave, DumpEnds, DumpFails, GoDump, GoDumpWatch, TypeOK,
                  DumpTypeOK, dumpVars
    <2>3. CASE DumpHelperReceives(r) \/ DumpHelperSignals(r)
      BY <2>3 DEF DumpHelperReceives, DumpHelperSignals, GoDump, GoDumpWatch, TypeOK, DumpTypeOK
    <2>4. QED
      BY <2>1, <2>2, <2>3 DEF TcpDumper
  <1>6. QED
    BY <1>1, <1>4, <1>5 DEF TypeOK

(* Every step keeps the types.                                             *)
LEMMA TypeNext == TypeOK /\ WgCounts /\ RunsInOrder /\ [Next]_vars => TypeOK'
  <1> SUFFICES ASSUME TypeOK, WgCounts, RunsInOrder, [Next]_vars PROVE TypeOK'
    OBVIOUS
  <1>1. CASE UNCHANGED vars
    BY <1>1 DEF vars, pingVars, dumpVars, mainVars, TypeOK, PingTypeOK, DumpTypeOK,
                CampaignTypeOK, Combinations
  <1>2. CASE ClientHangs \/ HealthFatal
    BY <1>2 DEF ClientHangs, HealthFatal, Goto, Dies, pingVars, dumpVars, mainVars, TypeOK,
                PingTypeOK, DumpTypeOK, CampaignTypeOK, Combinations
  <1>3. QED
    BY <1>1, <1>2, TypeMain, TypePing, TypeDump
       DEF Next, PingStep, DumpStep, Outside, PingFatal, TcpDumper, TcpdumpEnds


(***************************************************************************)
(* The WaitGroup.                                                          *)
(***************************************************************************)

(* A ping's thread ends, and is not counted any more.                      *)
LEMMA PingDone ==
  ASSUME TypeOK, WgCounts, NEW d \in Dests, ping[d] = "check", GoPing(d, "done"),
         wg' = wg - 1, dump' = dump
  PROVE  WgCounts'
  <1>1. d \in PingsLive /\ PingsLive' = PingsLive \ {d}
    BY Moves DEF PingsLive
  <1>2. Cardinality(PingsLive') = Cardinality(PingsLive) - 1
    BY <1>1, LiveCounted, FS_RemoveElement
  <1>3. DumpsLive' = DumpsLive
    BY SameLive
  <1>4. QED
    BY <1>2, <1>3, LiveCounted DEF WgCounts

(* So does a tcpdump's.                                                    *)
LEMMA DumpDone ==
  ASSUME TypeOK, WgCounts, NEW r \in RunIds, DumpSave(r), UNCHANGED <<pingVars, mainVars>>
  PROVE  WgCounts'
  <1>1. r \in DumpsLive /\ DumpsLive' = DumpsLive \ {r}
    BY Moves DEF DumpsLive, DumpSave
  <1>2. Cardinality(DumpsLive') = Cardinality(DumpsLive) - 1
    BY <1>1, LiveCounted, FS_RemoveElement
  <1>3. PingsLive' = PingsLive /\ wg' = wg - 1
    BY SameLive DEF DumpSave, pingVars
  <1>4. QED
    BY <1>2, <1>3, LiveCounted DEF WgCounts

(* All pings' threads start, and are counted.                              *)
LEMMA PingsCounted ==
  ASSUME TypeOK, WgCounts, RunsInOrder, StartPings
  PROVE  WgCounts'
  <1>1. PingsLive = {} /\ PingsLive' = Dests
    BY DEF StartPings, RunsInOrder, Before, PingsLive
  <1>2. DumpsLive' = DumpsLive /\ wg' = wg + Cardinality(Dests)
    BY SameLive DEF StartPings, dumpVars
  <1>3. Cardinality(PingsLive) = 0
    BY <1>1, FS_EmptySet
  <1>4. /\ Cardinality(PingsLive') = Cardinality(Dests) /\ Cardinality(Dests) \in Nat
        /\ Cardinality(DumpsLive') = Cardinality(DumpsLive) /\ Cardinality(DumpsLive) \in Nat
        /\ wg = 0 + Cardinality(DumpsLive)
    BY <1>1, <1>2, <1>3, LiveCounted, FiniteThreads DEF WgCounts
  <1>5. wg' = Cardinality(PingsLive') + Cardinality(DumpsLive')
    BY <1>2, <1>4
  <1>6. QED
    BY <1>5 DEF WgCounts

(* A tcpdump's thread starts, and is counted.                              *)
LEMMA DumpCounted ==
  ASSUME TypeOK, WgCounts, RunsInOrder, StartTcpdump
  PROVE  WgCounts'
  <1>1. CASE settings.tcpdump
    <2>1. run \in RunIds
      <3>1. settings.runs \in Nat /\ settings.runs <= MaxRuns /\ run \in 1 .. MaxRuns + 1
        BY SettingsTypes DEF TypeOK, CampaignTypeOK
      <3>2. run <= settings.runs
        BY DEF StartTcpdump, RunsInOrder, InRun, Before, After
      <3>3. QED
        BY <3>1, <3>2 DEF RunIds
    <2>2. dump[run] = "none"
      <3>1. main = "tcpdump" /\ ~(run < run)
        BY <2>1 DEF StartTcpdump, RunIds
      <3>2. ~Dumped(run)
        BY <3>1 DEF Dumped
      <3>3. QED
        BY <2>1, <3>2 DEF RunsInOrder
    <2>3. GoDump(run, "create") /\ wg' = wg + 1 /\ ping' = ping
      BY <1>1 DEF StartTcpdump, Added, pingVars
    <2>4. run \notin DumpsLive /\ DumpsLive' = DumpsLive \cup {run}
      BY <2>1, <2>2, <2>3, Moves DEF DumpsLive
    <2>5. Cardinality(DumpsLive') = Cardinality(DumpsLive) + 1
      BY <2>4, LiveCounted, FS_AddElement
    <2>6. PingsLive' = PingsLive
      BY <2>3, SameLive
    <2>7. QED
      BY <2>3, <2>5, <2>6, LiveCounted DEF WgCounts
  <1>2. CASE ~settings.tcpdump
    BY <1>2, SameLive DEF StartTcpdump, WgCounts, pingVars
  <1>3. QED
    BY <1>1, <1>2

(* The WaitGroup counts the live threads, whatever the step.               *)
LEMMA WgNext ==
  ASSUME TypeOK, WgCounts, RunsInOrder, [Next]_vars
  PROVE  WgCounts'
  <1>1. ASSUME wg' = wg,
               \A d \in Dests : ping'[d] \in {"none", "done"} <=> ping[d] \in {"none", "done"},
               \A r \in RunIds : dump'[r] \in {"none", "done"} <=> dump[r] \in {"none", "done"}
        PROVE  WgCounts'
    BY <1>1, SameLive DEF WgCounts
  <1>2. CASE Main
    <2>1. CASE UNCHANGED <<wg, ping, dump>>
      BY <1>1, <2>1
    <2>2. QED
      BY <1>2, <2>1, PingsCounted, DumpCounted
         DEF Main, ReadSettings, Iperf, NoOutboundIP, StartStep, ClientEnds, StopTcpdump, KillPing,
             StopPing, StoppedPings, NextRun, Wait, Plot, pingVars, dumpVars
  <1>3. ASSUME NEW d \in Dests, PingThread(d), UNCHANGED <<dumpVars, mainVars>> PROVE WgCounts'
    <2>1. dump' = dump
      BY <1>3 DEF dumpVars
    <2>2. CASE PingCheck(d)
      <3>1. CASE killPing
        BY <2>1, <2>2, <3>1, PingDone DEF PingCheck
      <3>2. CASE ~killPing
        <4>1. GoPing(d, "start") /\ wg' = wg /\ ping[d] = "check"
          BY <2>2, <3>2 DEF PingCheck
        <4>2. QED
          BY <1>1, <2>1, <4>1, Moves
      <3>3. QED
        BY <3>1, <3>2
    <2>3. CASE PingCreate(d) \/ PingStart(d) \/ PingSave(d) \/ HelperReceives(d) \/ HelperSignals(d)
      <3>1. /\ wg' = wg
            /\ \/ ping' = ping
               \/ ping[d] = "create" /\ GoPing(d, "check")
               \/ ping[d] = "start" /\ GoPing(d, "running")
               \/ ping[d] = "save" /\ GoPing(d, "check")
               \/ ping[d] = "running" /\ GoPing(d, "save")
        BY <2>3 DEF PingCreate, PingStart, PingSave, HelperReceives, HelperSignals
      <3>2. QED
        BY <1>1, <2>1, <3>1, Moves
    <2>4. QED
      BY <1>3, <2>2, <2>3 DEF PingThread
  <1>4. ASSUME NEW r \in RunIds, TcpDumper(r) \/ DumpEnds(r) \/ DumpFails(r),
               UNCHANGED <<pingVars, mainVars>>
        PROVE  WgCounts'
    <2>1. CASE ~DumpSave(r)
      <3>1. /\ wg' = wg /\ ping' = ping
            /\ \/ dump' = dump
               \/ dump[r] = "create" /\ GoDump(r, "start")
               \/ dump[r] = "start" /\ GoDump(r, "running")
               \/ dump[r] = "running" /\ GoDump(r, "save")
        BY <1>4, <2>1 DEF TcpDumper, DumpCreate, DumpStart, DumpHelperReceives, DumpHelperSignals,
                          DumpEnds, DumpFails, dumpVars, pingVars
      <3>2. QED
        BY <1>1, <3>1, Moves
    <2>2. QED
      BY <1>4, <2>1, DumpDone
  <1>5. CASE (PingFatal /\ UNCHANGED dumpVars) \/ ClientHangs \/ HealthFatal \/ UNCHANGED vars
    <2>1. UNCHANGED <<wg, ping, dump>>
      BY <1>5 DEF PingFatal, PingFails, ClientHangs, HealthFatal, vars, pingVars, dumpVars
    <2>2. QED
      BY <1>1, <2>1
  <1>6. QED
    BY <1>2, <1>3, <1>4, <1>5 DEF Next, PingStep, DumpStep, Outside, TcpDumper, TcpdumpEnds


(***************************************************************************)
(* The helpers and the channel `stopPing`.                                 *)
(***************************************************************************)

(* A helper leaves the queue at its head; the others keep their places.    *)
LEMMA HeadLeaves ==
  ASSUME HelpersMatch, waiters \in Seq(Dests), waiters # <<>>, waiters' = Tail(waiters)
  PROVE  /\ Head(waiters) \in Dests /\ watch[Head(waiters)] = "parked"
         /\ \A d \in Dests : (\E k \in DOMAIN waiters' : waiters'[k] = d)
                               <=> watch[d] = "parked" /\ d # Head(waiters)
         /\ \A j, k \in DOMAIN waiters' : waiters'[j] = waiters'[k] => j = k
  <1> DEFINE n == Len(waiters)
  <1>1. n \in Nat /\ n > 0 /\ DOMAIN waiters = 1 .. n /\ Head(waiters) = waiters[1]
    BY EmptySeq, LenProperties
  <1>2. /\ DOMAIN waiters' = 1 .. n - 1
        /\ \A k \in 1 .. n - 1 : waiters'[k] = waiters[k + 1]
    <2>1. Tail(waiters) \in Seq(Dests) /\ Len(Tail(waiters)) = n - 1
          /\ \A k \in 1 .. Len(Tail(waiters)) : Tail(waiters)[k] = waiters[k + 1]
      BY HeadTailProperties
    <2>2. QED
      BY <2>1, LenProperties
  <1>3. Head(waiters) \in Dests /\ watch[Head(waiters)] = "parked"
    BY <1>1, HeadTailProperties DEF HelpersMatch
  <1>4. ASSUME NEW d \in Dests
        PROVE  (\E k \in DOMAIN waiters' : waiters'[k] = d)
                 <=> watch[d] = "parked" /\ d # Head(waiters)
    <2>1. ASSUME NEW k \in 1 .. n - 1, waiters'[k] = d
          PROVE  watch[d] = "parked" /\ d # Head(waiters)
      <3>1. k + 1 \in DOMAIN waiters /\ 1 \in DOMAIN waiters /\ k + 1 # 1 /\ waiters[k + 1] = d
        BY <1>1, <1>2, <2>1
      <3>2. QED
        BY <1>1, <3>1 DEF HelpersMatch
    <2>2. ASSUME watch[d] = "parked", d # Head(waiters)
          PROVE  \E k \in 1 .. n - 1 : waiters'[k] = d
      <3>1. PICK k \in 1 .. n : waiters[k] = d
        BY <1>1, <2>2 DEF HelpersMatch
      <3>2. k # 1
        BY <1>1, <2>2, <3>1
      <3>3. k - 1 \in 1 .. n - 1 /\ waiters'[k - 1] = waiters[k]
        BY <1>1, <1>2, <3>2
      <3>4. QED
        BY <3>1, <3>3
    <2>3. QED
      BY <1>2, <2>1, <2>2
  <1>5. ASSUME NEW j \in 1 .. n - 1, NEW k \in 1 .. n - 1, waiters'[j] = waiters'[k]
        PROVE  j = k
    <2>1. j + 1 \in DOMAIN waiters /\ k + 1 \in DOMAIN waiters /\ waiters[j + 1] = waiters[k + 1]
      BY <1>1, <1>2, <1>5
    <2>2. j + 1 = k + 1
      BY <2>1 DEF HelpersMatch
    <2>3. QED
      BY <2>2
  <1>6. QED
    BY <1>2, <1>3, <1>4, <1>5

(* A helper parks at the end of the queue.                                 *)
LEMMA HelperParks ==
  ASSUME HelpersMatch, waiters \in Seq(Dests), NEW p \in Dests, watch[p] # "parked",
         waiters' = Append(waiters, p)
  PROVE  /\ \A d \in Dests : (\E k \in DOMAIN waiters' : waiters'[k] = d)
                               <=> watch[d] = "parked" \/ d = p
         /\ \A j, k \in DOMAIN waiters' : waiters'[j] = waiters'[k] => j = k
  <1> DEFINE n == Len(waiters)
  <1>1. n \in Nat /\ DOMAIN waiters = 1 .. n
    BY LenProperties
  <1>2. /\ DOMAIN waiters' = 1 .. n + 1
        /\ \A k \in 1 .. n : waiters'[k] = waiters[k]
        /\ waiters'[n + 1] = p
    <2>1. /\ Append(waiters, p) \in Seq(Dests) /\ Len(Append(waiters, p)) = n + 1
          /\ \A k \in 1 .. n : Append(waiters, p)[k] = waiters[k]
          /\ Append(waiters, p)[n + 1] = p
      BY AppendProperties
    <2>2. QED
      BY <2>1, LenProperties
  <1>3. \A k \in 1 .. n : waiters[k] # p
    BY <1>1 DEF HelpersMatch
  <1>4. \A k \in DOMAIN waiters' : k \in 1 .. n \/ k = n + 1
    BY <1>1, <1>2
  <1>5. \A d \in Dests : watch[d] = "parked" <=> \E k \in 1 .. n : waiters[k] = d
    BY <1>1 DEF HelpersMatch
  <1>6. \A j, k \in 1 .. n : waiters[j] = waiters[k] => j = k
    BY <1>1 DEF HelpersMatch
  <1>7. 1 .. n \subseteq DOMAIN waiters' /\ n + 1 \in DOMAIN waiters'
    BY <1>1, <1>2
  <1>8. ASSUME NEW d \in Dests
        PROVE  (\E k \in DOMAIN waiters' : waiters'[k] = d) <=> watch[d] = "parked" \/ d = p
    BY <1>2, <1>4, <1>5, <1>7
  <1>9. \A j, k \in DOMAIN waiters' : waiters'[j] = waiters'[k] => j = k
    BY <1>2, <1>3, <1>4, <1>6
  <1>10. QED
    BY <1>8, <1>9

\* What the queue says of the helpers, without their pings.
QueueOK ==
  /\ \A d \in Dests : watch[d] = "parked" <=> \E k \in DOMAIN waiters : waiters[k] = d
  /\ \A j, k \in DOMAIN waiters : waiters[j] = waiters[k] => j = k

(* A helper that is not parked comes, goes or takes an interrupt.          *)
LEMMA QueueSame ==
  ASSUME HelpersMatch, waiters' = waiters,
         \A d \in Dests : watch'[d] = "parked" <=> watch[d] = "parked"
  PROVE  QueueOK'
  BY DEF HelpersMatch, QueueOK

(* main sends an interrupt.                                                *)
LEMMA HelpersStop ==
  ASSUME TypeOK, HelpersMatch, StopPing
  PROVE  HelpersMatch'
  <1>1. ping' = ping /\ waiters \in Seq(Dests)
    BY DEF StopPing, TypeOK, PingTypeOK
  <1>2. CASE waiters # <<>> /\ waiters' = Tail(waiters) /\ GoWatch(Head(waiters), "signal")
    <2>1. /\ Head(waiters) \in Dests /\ watch[Head(waiters)] = "parked"
          /\ \A d \in Dests : (\E k \in DOMAIN waiters' : waiters'[k] = d)
                                <=> watch[d] = "parked" /\ d # Head(waiters)
          /\ \A j, k \in DOMAIN waiters' : waiters'[j] = waiters'[k] => j = k
      BY <1>1, <1>2, HeadLeaves
    <2>2. \A e \in Dests : watch'[e] = IF e = Head(waiters) THEN "signal" ELSE watch[e]
      BY <1>2, <2>1, Moves
    <2>3. \A d \in Dests : watch'[d] = "none" <=> watch[d] = "none"
      BY <2>1, <2>2
    <2>4. \A d \in Dests : watch'[d] = "parked" <=> watch[d] = "parked" /\ d # Head(waiters)
      BY <2>2
    <2>5. \A d \in Dests : watch'[d] = "none" <=> ping'[d] \notin {"start", "running"}
      BY <1>1, <2>3 DEF HelpersMatch
    <2>6. QED
      BY <2>1, <2>4, <2>5 DEF HelpersMatch
  <1>3. CASE UNCHANGED <<waiters, watch>>
    BY <1>1, <1>3 DEF HelpersMatch
  <1>4. QED
    BY <1>2, <1>3 DEF StopPing, InterruptPing

(* A ping and its helper move.                                             *)
LEMMA HelpersPing ==
  ASSUME TypeOK, HelpersMatch, NEW d \in Dests, PingThread(d)
  PROVE  HelpersMatch'
  <1>1. waiters \in Seq(Dests)
    BY DEF TypeOK, PingTypeOK
  <1>2. \A e \in Dests : watch[e] = "none" <=> ping[e] \notin {"start", "running"}
    BY DEF HelpersMatch
  <1>3. ASSUME QueueOK',
               \A e \in Dests : watch'[e] = "none" <=> ping'[e] \notin {"start", "running"}
        PROVE  HelpersMatch'
    BY <1>3 DEF HelpersMatch, QueueOK
  <1>4. CASE UNCHANGED <<ping, watch, waiters>>
    BY <1>4 DEF HelpersMatch
  <1>5. CASE /\ waiters' = waiters /\ watch' = watch
             /\ \/ ping[d] \in {"create", "save"} /\ GoPing(d, "check")
                \/ ping[d] = "start" /\ GoPing(d, "running")
                \/ ping[d] = "check" /\ GoPing(d, "done")
    <2>1. \A e \in Dests : ping'[e] \in {"start", "running"} <=> ping[e] \in {"start", "running"}
      BY <1>5, Moves
    <2>2. QED
      BY <1>2, <1>3, <1>5, <2>1, QueueSame
  <1>6. CASE waiters' = waiters /\ ping[d] = "check" /\ GoPing(d, "start") /\ GoWatch(d, "ready")
    <2>1. /\ \A e \in Dests : ping'[e] = IF e = d THEN "start" ELSE ping[e]
          /\ \A e \in Dests : watch'[e] = IF e = d THEN "ready" ELSE watch[e]
      BY <1>6, Moves
    <2>2. \A e \in Dests : watch'[e] = "parked" <=> watch[e] = "parked"
      BY <1>2, <1>6, <2>1
    <2>3. QED
      BY <1>2, <1>3, <1>6, <2>1, <2>2, QueueSame
  <1>7. CASE waiters' = waiters /\ ping' = ping /\ watch[d] = "ready" /\ GoWatch(d, "signal")
    <2>1. \A e \in Dests : watch'[e] = IF e = d THEN "signal" ELSE watch[e]
      BY <1>7, Moves
    <2>2. QED
      BY <1>2, <1>3, <1>7, <2>1, QueueSame
  <1>8. CASE /\ waiters' = Append(waiters, d) /\ ping' = ping
             /\ watch[d] = "ready" /\ GoWatch(d, "parked")
    <2>1. \A e \in Dests : watch'[e] = IF e = d THEN "parked" ELSE watch[e]
      BY <1>8, Moves
    <2>2. /\ \A e \in Dests : (\E k \in DOMAIN waiters' : waiters'[k] = e)
                                <=> watch[e] = "parked" \/ e = d
          /\ \A j, k \in DOMAIN waiters' : waiters'[j] = waiters'[k] => j = k
      BY <1>1, <1>8, HelperParks
    <2>3. QueueOK'
      BY <2>1, <2>2 DEF QueueOK
    <2>4. QED
      BY <1>2, <1>3, <1>8, <2>1, <2>3
  <1>9. CASE /\ waiters' = waiters /\ watch[d] = "signal" /\ ping[d] = "running"
             /\ GoPing(d, "save") /\ GoWatch(d, "none")
    <2>1. /\ \A e \in Dests : ping'[e] = IF e = d THEN "save" ELSE ping[e]
          /\ \A e \in Dests : watch'[e] = IF e = d THEN "none" ELSE watch[e]
      BY <1>9, Moves
    <2>2. QED
      BY <1>2, <1>3, <1>9, <2>1, QueueSame
  <1>10. QED
    BY <1>4, <1>5, <1>6, <1>7, <1>8, <1>9
       DEF PingThread, PingCreate, PingCheck, PingStart, PingSave, HelperReceives, HelperSignals

(* The helpers fit their pings and the queue, whatever the step.           *)
LEMMA HelpersNext ==
  ASSUME TypeOK, HelpersMatch, RunsInOrder, [Next]_vars
  PROVE  HelpersMatch'
  <1>1. CASE UNCHANGED <<ping, watch, waiters>>
    BY <1>1 DEF HelpersMatch
  <1>2. CASE StartPings
    <2>1. \A d \in Dests : ping[d] = "none" /\ ping'[d] = "create"
      BY <1>2 DEF StartPings, RunsInOrder, Before
    <2>2. UNCHANGED <<watch, waiters>>
      BY <1>2 DEF StartPings
    <2>3. QED
      BY <2>1, <2>2 DEF HelpersMatch
  <1>3. CASE Main
    BY <1>1, <1>2, <1>3, HelpersStop
       DEF Main, ReadSettings, Iperf, StartTcpdump, NoOutboundIP, StartStep, ClientEnds,
           StopTcpdump, KillPing, StoppedPings, NextRun, Wait, Plot, pingVars
  <1>4. CASE PingStep
    BY <1>4, HelpersPing DEF PingStep
  <1>5. CASE DumpStep \/ Outside \/ UNCHANGED vars
    BY <1>1, <1>5 DEF DumpStep, TcpDumper, Outside, PingFatal, PingFails, TcpdumpEnds,
                      ClientHangs, HealthFatal, vars, pingVars
  <1>6. QED
    BY <1>3, <1>4, <1>5 DEF Next


(***************************************************************************)
(* main's runs and steps.                                                  *)
(***************************************************************************)

(* What the other lemmas need of the types.                                *)
LEMMA Numbers ==
  ASSUME TypeOK
  PROVE  /\ settings.runs \in Nat /\ settings.runs <= MaxRuns /\ Combinations \in Nat
         /\ run \in Nat /\ run >= 1 /\ run <= MaxRuns + 1 /\ step \in Nat
         /\ toSignal \in Nat /\ stopPing \in Nat
         /\ Cardinality(Dests) \in Nat
         /\ \A r \in RunIds : r \in Nat /\ r >= 1
  BY SettingsTypes, FiniteThreads
     DEF TypeOK, CampaignTypeOK, PingTypeOK, StopPingCap, RunIds

\* Where main may be, in which run and step.
RunsAndSteps ==
  /\ Before => run = 1
  /\ InRun => run <= settings.runs
  /\ main = "sleep" => run < settings.runs
  /\ After => run = settings.runs \/ (settings.runs = 0 /\ run = 1)
  /\ main = "client" => step <= Combinations

(* Every step keeps the order of runs and steps.                           *)
LEMMA RunsAndStepsNext ==
  ASSUME TypeOK, RunsInOrder, [Next]_vars
  PROVE  RunsAndSteps'
  <1>1. /\ settings.runs \in Nat /\ Combinations \in Nat /\ run \in Nat /\ run >= 1
        /\ step \in Nat
    BY Numbers
  <1>2. CASE UNCHANGED mainVars
    BY <1>2 DEF mainVars, RunsInOrder, RunsAndSteps, Before, After, InRun, Combinations
  <1>3. ASSUME main # "done", Main \/ ClientHangs, ~UNCHANGED mainVars PROVE RunsAndSteps'
    <2>1. settings' = settings /\ Combinations' = Combinations
      BY <1>3 DEF Main, ReadSettings, StartPings, Iperf, StartTcpdump, NoOutboundIP, StartStep,
                  ClientEnds, StopTcpdump, KillPing, StopPing, StoppedPings, NextRun, Wait, Plot,
                  ClientHangs, mainVars, Combinations
    <2>2. CASE ReadSettings \/ Iperf \/ NoOutboundIP
      BY <1>1, <2>1, <2>2
         DEF ReadSettings, Iperf, NoOutboundIP, Goto, RunsInOrder, RunsAndSteps, Before, After,
             InRun, mainVars
    <2>3. CASE StartPings
      BY <1>1, <2>1, <2>3
         DEF StartPings, Goto, RunsInOrder, RunsAndSteps, Before, After, InRun
    <2>4. CASE StartTcpdump \/ StartStep \/ ClientEnds \/ ClientHangs
      BY <1>1, <2>1, <2>4
         DEF StartTcpdump, StartStep, ClientEnds, ClientHangs, Goto, RunsInOrder, RunsAndSteps,
             Before, After, InRun
    <2>5. CASE StopTcpdump \/ KillPing \/ StopPing
      BY <1>1, <2>1, <2>5
         DEF StopTcpdump, KillPing, StopPing, Goto, RunsInOrder, RunsAndSteps, Before, After, InRun
    <2>6. CASE StoppedPings \/ NextRun
      BY <1>1, <2>1, <2>6
         DEF StoppedPings, NextRun, Goto, RunsInOrder, RunsAndSteps, Before, After, InRun
    <2>7. CASE Wait \/ Plot
      BY <1>1, <2>1, <2>7
         DEF Wait, Plot, Goto, RunsInOrder, RunsAndSteps, Before, After, InRun
    <2>8. QED
      BY <1>3, <2>2, <2>3, <2>4, <2>5, <2>6, <2>7 DEF Main
  <1>4. QED
    BY <1>2, <1>3
       DEF Next, PingStep, DumpStep, Outside, PingFatal, TcpdumpEnds, HealthFatal, vars

(* main starts the pings when it leaves the settings behind, and only      *)
(* then; no step of theirs undoes that.                                    *)
LEMMA PingsStarted ==
  ASSUME TypeOK, RunsInOrder, [Next]_vars
  PROVE  \A d \in Dests : ping'[d] = "none" <=> Before'
  <1>1. \A d \in Dests : ping[d] = "none" <=> Before
    BY DEF RunsInOrder
  <1>2. CASE ping' = ping /\ (Before' <=> Before)
    BY <1>1, <1>2
  <1>3. CASE StartPings
    BY <1>3 DEF StartPings, Before, Goto
  <1>4. ASSUME NEW d \in Dests, PingThread(d), UNCHANGED mainVars
        PROVE  \A e \in Dests : ping'[e] = "none" <=> Before'
    <2>1. \/ ping' = ping
          \/ ping[d] # "none" /\ \E pc \in {"check", "start", "running", "save", "done"} : GoPing(d, pc)
      BY <1>4 DEF PingThread, PingCreate, PingCheck, PingStart, PingSave, HelperReceives,
                  HelperSignals
    <2>2. Before' <=> Before
      BY <1>4 DEF mainVars, Before
    <2>3. CASE ping' = ping
      BY <1>1, <2>2, <2>3
    <2>4. ASSUME ping[d] # "none", NEW pc \in {"check", "start", "running", "save", "done"},
                 GoPing(d, pc)
          PROVE  \A e \in Dests : ping'[e] = "none" <=> Before'
      <3>1. \A e \in Dests : ping'[e] = IF e = d THEN pc ELSE ping[e]
        BY <2>4, Moves
      <3>2. QED
        BY <1>1, <2>2, <2>4, <3>1
    <2>5. QED
      BY <2>1, <2>3, <2>4
  <1>5. CASE Main /\ ~StartPings
    <2>1. ping' = ping
      BY <1>5 DEF Main, ReadSettings, Iperf, StartTcpdump, NoOutboundIP, StartStep, ClientEnds,
                  StopTcpdump, KillPing, StopPing, StoppedPings, NextRun, Wait, Plot, pingVars
    <2>2. Before' <=> Before
      BY <1>5 DEF Main, ReadSettings, Iperf, StartTcpdump, NoOutboundIP, StartStep, ClientEnds,
                  StopTcpdump, KillPing, StopPing, StoppedPings, NextRun, Wait, Plot, Goto,
                  mainVars, Before
    <2>3. QED
      BY <1>2, <2>1, <2>2
  <1>6. CASE DumpStep \/ Outside \/ UNCHANGED vars
    BY <1>2, <1>6 DEF DumpStep, TcpDumper, Outside, PingFatal, PingFails, TcpdumpEnds,
                      ClientHangs, HealthFatal, Goto, Before, vars, pingVars, mainVars
  <1>7. QED
    BY <1>3, <1>4, <1>5, <1>6 DEF Next, PingStep

\* The threads of tcpdump that exist are those of the runs that passed it.
DumpsStarted ==
  \A r \in RunIds :
    dump[r] # "none" <=> settings.tcpdump /\ r <= settings.runs /\ Dumped(r)

(* Every step keeps which dumps have been started.                         *)
LEMMA DumpsStartedNext ==
  ASSUME TypeOK, RunsInOrder, [Next]_vars
  PROVE  DumpsStarted'
  <1>1. DumpsStarted
    BY DEF RunsInOrder, DumpsStarted
  <1>2. /\ settings.runs \in Nat /\ settings.runs <= MaxRuns /\ run \in Nat /\ run >= 1
        /\ \A r \in RunIds : r \in Nat /\ r >= 1
    BY Numbers
  <1>3. ASSUME settings' = settings, dump' = dump,
               \A r \in RunIds : r <= settings.runs => (Dumped(r)' <=> Dumped(r))
        PROVE  DumpsStarted'
    BY <1>1, <1>3 DEF DumpsStarted
  <1>4. CASE StartTcpdump
    <2>1. /\ main = "tcpdump" /\ main' = "steps" /\ run' = run /\ settings' = settings
          /\ run <= settings.runs
      BY <1>4 DEF StartTcpdump, Goto, RunsInOrder, InRun, Before, After
    <2>2. run \in RunIds
      BY <1>2, <2>1 DEF RunIds
    <2>3. \A r \in RunIds : Dumped(r)' <=> Dumped(r) \/ r = run
      BY <1>2, <2>1 DEF Dumped, Before
    <2>4. CASE settings.tcpdump
      <3>1. \A r \in RunIds : dump'[r] = IF r = run THEN "create" ELSE dump[r]
        BY <1>4, <2>2, <2>4, Moves DEF StartTcpdump
      <3>2. QED
        BY <1>1, <2>1, <2>3, <2>4, <3>1 DEF DumpsStarted
    <2>5. CASE ~settings.tcpdump
      BY <1>1, <1>4, <2>1, <2>5 DEF StartTcpdump, DumpsStarted
    <2>6. QED
      BY <2>4, <2>5
  <1>5. CASE NextRun
    <2>1. main = "sleep" /\ main' = "iperf" /\ run' = run + 1 /\ settings' = settings /\ dump' = dump
      BY <1>5 DEF NextRun, Goto, dumpVars
    <2>2. \A r \in RunIds : Dumped(r)' <=> Dumped(r)
      BY <1>2, <2>1 DEF Dumped, Before
    <2>3. QED
      BY <1>3, <2>1, <2>2
  <1>6. CASE StartPings
    <2>1. /\ main = "pings" /\ run' = run /\ settings' = settings /\ dump' = dump /\ run = 1
          /\ main' = IF settings.runs = 0 THEN "wait" ELSE "iperf"
      BY <1>6 DEF StartPings, Goto, dumpVars, RunsInOrder, Before
    <2>2. \A r \in RunIds : r <= settings.runs => (Dumped(r)' <=> Dumped(r))
      BY <1>2, <2>1 DEF Dumped, Before
    <2>3. QED
      BY <1>3, <2>1, <2>2
  <1>7. CASE (Main /\ ~StartPings /\ ~NextRun /\ ~StartTcpdump) \/ ClientHangs
    <2>1. settings' = settings /\ dump' = dump /\ run' = run
      BY <1>7 DEF Main, ReadSettings, Iperf, NoOutboundIP, StartStep, ClientEnds, StopTcpdump,
                  KillPing, StopPing, StoppedPings, Wait, Plot, ClientHangs, dumpVars, mainVars
    <2>2. main' \in {"settings", "pings", "iperf", "tcpdump"}
            <=> main \in {"settings", "pings", "iperf", "tcpdump"}
      BY <1>7 DEF Main, ReadSettings, Iperf, NoOutboundIP, StartStep, ClientEnds, StopTcpdump,
                  KillPing, StopPing, StoppedPings, Wait, Plot, ClientHangs, Goto, mainVars
    <2>3. \A r \in RunIds : Dumped(r)' <=> Dumped(r)
      BY <2>1, <2>2 DEF Dumped, Before
    <2>4. QED
      BY <1>3, <2>1, <2>3
  <1>8. CASE UNCHANGED mainVars /\ dump' = dump
    BY <1>3, <1>8 DEF mainVars, Dumped, Before
  <1>9. ASSUME NEW r \in RunIds, TcpDumper(r) \/ DumpEnds(r) \/ DumpFails(r), UNCHANGED mainVars
        PROVE  DumpsStarted'
    <2>1. \/ dump' = dump
          \/ dump[r] # "none" /\ \E pc \in {"start", "running", "save", "done"} : GoDump(r, pc)
      BY <1>9 DEF TcpDumper, DumpCreate, DumpStart, DumpSave, DumpHelperReceives,
                  DumpHelperSignals, DumpEnds, DumpFails, dumpVars
    <2>2. ASSUME dump[r] # "none", NEW pc \in {"start", "running", "save", "done"}, GoDump(r, pc)
          PROVE  DumpsStarted'
      <3>1. \A e \in RunIds : dump'[e] = IF e = r THEN pc ELSE dump[e]
        BY <2>2, Moves
      <3>2. \A e \in RunIds : dump'[e] # "none" <=> dump[e] # "none"
        BY <2>2, <3>1
      <3>3. settings' = settings /\ \A e : Dumped(e)' <=> Dumped(e)
        BY <1>9 DEF mainVars, Dumped, Before
      <3>4. QED
        BY <1>1, <3>2, <3>3 DEF DumpsStarted
    <2>3. QED
      BY <1>8, <1>9, <2>1, <2>2
  <1>10. CASE PingStep \/ HealthFatal \/ (PingFatal /\ UNCHANGED <<dumpVars, mainVars>>)
              \/ UNCHANGED vars
    BY <1>8, <1>10 DEF PingStep, HealthFatal, dumpVars, vars
  <1>11. QED
    BY <1>4, <1>5, <1>6, <1>7, <1>9, <1>10
       DEF Next, DumpStep, Outside, TcpdumpEnds

(* Once main has waited, nothing is added to the WaitGroup any more.       *)
LEMMA WaitedFor ==
  ASSUME TypeOK, WgCounts, RunsInOrder, [Next]_vars, main' \in {"plot", "done"}
  PROVE  wg' = 0
  <1>1. CASE Main
    BY <1>1 DEF Main, ReadSettings, StartPings, Iperf, StartTcpdump, NoOutboundIP, StartStep,
                ClientEnds, StopTcpdump, KillPing, StopPing, StoppedPings, NextRun, Wait, Plot, Goto,
                mainVars, RunsInOrder
  <1>2. CASE main' = main /\ wg' = wg
    BY <1>2 DEF RunsInOrder
  <1>3. ASSUME main' = main, wg' = wg - 1, PingsLive # {} \/ DumpsLive # {} PROVE FALSE
    BY <1>3, LiveCounted DEF RunsInOrder
  <1>4. ASSUME NEW d \in Dests, PingThread(d), UNCHANGED mainVars PROVE wg' = 0
    <2>1. wg' = wg \/ (wg' = wg - 1 /\ d \in PingsLive)
      BY <1>4 DEF PingThread, PingCreate, PingCheck, PingStart, PingSave, HelperReceives,
                  HelperSignals, PingsLive
    <2>2. QED
      BY <1>2, <1>3, <1>4, <2>1 DEF mainVars
  <1>5. ASSUME NEW r \in RunIds, TcpDumper(r) \/ DumpEnds(r) \/ DumpFails(r), UNCHANGED mainVars
        PROVE  wg' = 0
    <2>1. wg' = wg \/ (wg' = wg - 1 /\ r \in DumpsLive)
      BY <1>5 DEF TcpDumper, DumpCreate, DumpStart, DumpSave, DumpHelperReceives,
                  DumpHelperSignals, DumpEnds, DumpFails, DumpsLive
    <2>2. QED
      BY <1>2, <1>3, <1>5, <2>1 DEF mainVars
  <1>6. CASE (PingFatal /\ UNCHANGED mainVars) \/ ClientHangs \/ HealthFatal \/ UNCHANGED vars
    BY <1>2, <1>6 DEF PingFatal, PingFails, ClientHangs, HealthFatal, Goto, mainVars, vars
  <1>7. QED
    BY <1>1, <1>4, <1>5, <1>6 DEF Next, PingStep, DumpStep, Outside, TcpdumpEnds

(* Every step keeps RunsInOrder.                                           *)
LEMMA RunsNext ==
  ASSUME TypeOK, WgCounts, RunsInOrder, [Next]_vars
  PROVE  RunsInOrder'
  <1>1. RunsAndSteps' /\ DumpsStarted'
    BY RunsAndStepsNext, DumpsStartedNext
  <1>2. \A d \in Dests : ping'[d] = "none" <=> Before'
    BY PingsStarted
  <1>3. main' \in {"plot", "done"} => wg' = 0
    BY WaitedFor
  <1>4. QED
    BY <1>1, <1>2, <1>3 DEF RunsAndSteps, DumpsStarted, RunsInOrder


(***************************************************************************)
(* The interrupts.                                                         *)
(***************************************************************************)

(* A thread ends only when it is told to.                                  *)
LEMMA EndsNext ==
  ASSUME TypeOK, RunsInOrder, EndsWhenTold, [Next]_vars
  PROVE  EndsWhenTold'
  <1>1. CASE UNCHANGED <<settings, killPing, ping>>
    BY <1>1 DEF EndsWhenTold
  <1>2. CASE StartPings
    BY <1>2 DEF StartPings, EndsWhenTold
  <1>3. CASE KillPing
    <2>1. main = "killPing" /\ settings' = settings /\ ping' = ping
          /\ killPing' = (killPing \/ run = settings.runs)
      BY <1>3 DEF KillPing, LastRun, pingVars
    <2>2. run = settings.runs => settings.runs > 0
      BY Numbers
    <2>3. QED
      BY <2>1, <2>2 DEF EndsWhenTold
  <1>4. ASSUME NEW d \in Dests, PingThread(d), UNCHANGED mainVars PROVE EndsWhenTold'
    <2>1. /\ settings' = settings /\ killPing' = killPing
          /\ \/ ping' = ping
             \/ GoPing(d, "done") /\ killPing
             \/ \E pc \in {"check", "start", "running", "save"} : GoPing(d, pc)
      BY <1>4 DEF PingThread, PingCreate, PingCheck, PingStart, PingSave, HelperReceives,
                  HelperSignals, mainVars
    <2>2. ASSUME NEW pc, pc = "done" => killPing, GoPing(d, pc) PROVE EndsWhenTold'
      BY <2>1, <2>2, Moves DEF EndsWhenTold
    <2>3. QED
      BY <1>1, <2>1, <2>2
  <1>5. CASE Main
    BY <1>1, <1>2, <1>3, <1>5
       DEF Main, ReadSettings, Iperf, StartTcpdump, NoOutboundIP, StartStep, ClientEnds, StopTcpdump,
           StopPing, StoppedPings, NextRun, Wait, Plot, pingVars, mainVars
  <1>6. CASE DumpStep \/ Outside \/ UNCHANGED vars
    BY <1>1, <1>6 DEF DumpStep, TcpDumper, DumpCreate, DumpStart, DumpSave, DumpHelperReceives,
                      DumpHelperSignals, Outside, PingFatal, PingFails, TcpdumpEnds, DumpEnds,
                      DumpFails, ClientHangs, HealthFatal, vars, pingVars, mainVars
  <1>7. QED
    BY <1>4, <1>5, <1>6 DEF Next, PingStep

(* How many pings need an interrupt: a number, no greater when fewer do,   *)
(* and less by one when one of them gets it.                               *)
LEMMA NeedCounted ==
  /\ Cardinality(NeedsInterrupt) \in Nat /\ Cardinality(NeedsInterrupt') \in Nat
  /\ Cardinality(NeedsInterrupt') <= Cardinality(Dests)
  /\ NeedsInterrupt' \subseteq NeedsInterrupt =>
       Cardinality(NeedsInterrupt') <= Cardinality(NeedsInterrupt)
  /\ \A d \in NeedsInterrupt :
       NeedsInterrupt' \subseteq NeedsInterrupt \ {d} =>
         Cardinality(NeedsInterrupt') <= Cardinality(NeedsInterrupt) - 1
  <1>1. NeedsInterrupt \in SUBSET Dests /\ NeedsInterrupt' \in SUBSET Dests
    BY DEF NeedsInterrupt
  <1>2. /\ IsFiniteSet(NeedsInterrupt) /\ Cardinality(NeedsInterrupt) \in Nat
        /\ Cardinality(NeedsInterrupt') \in Nat
        /\ Cardinality(NeedsInterrupt') <= Cardinality(Dests)
    BY <1>1, FiniteThreads
  <1>3. ASSUME NeedsInterrupt' \subseteq NeedsInterrupt
        PROVE  Cardinality(NeedsInterrupt') <= Cardinality(NeedsInterrupt)
    BY <1>2, <1>3, FS_Subset
  <1>4. ASSUME NEW d \in NeedsInterrupt, NeedsInterrupt' \subseteq NeedsInterrupt \ {d}
        PROVE  Cardinality(NeedsInterrupt') <= Cardinality(NeedsInterrupt) - 1
    <2>1. IsFiniteSet(NeedsInterrupt \ {d})
          /\ Cardinality(NeedsInterrupt \ {d}) = Cardinality(NeedsInterrupt) - 1
      BY <1>2, FS_RemoveElement
    <2>2. QED
      BY <1>4, <2>1, FS_Subset
  <1>5. QED
    BY <1>2, <1>3, <1>4

(* main sends an interrupt: it reaches a ping that needs it, or the        *)
(* channel.                                                                *)
LEMMA SufficeStop ==
  ASSUME TypeOK, HelpersMatch, InterruptsSuffice, StopPing
  PROVE  InterruptsSuffice'
  <1>1. /\ ping' = ping /\ killPing' = killPing /\ toSignal' = toSignal - 1 /\ toSignal \in Nat
        /\ stopPing \in Nat /\ waiters \in Seq(Dests)
    BY Numbers DEF StopPing, TypeOK, PingTypeOK
  <1>2. CASE waiters # <<>> /\ stopPing' = stopPing /\ GoWatch(Head(waiters), "signal")
    <2> DEFINE d == Head(waiters)
    <2>1. d \in Dests /\ watch[d] = "parked"
      <3>1. d \in Dests /\ d = waiters[1] /\ 1 \in DOMAIN waiters
        BY <1>1, <1>2, EmptySeq, LenProperties, HeadTailProperties
      <3>2. QED
        BY <3>1 DEF HelpersMatch
    <2>2. d \in NeedsInterrupt
      BY <2>1 DEF HelpersMatch, NeedsInterrupt
    <2>3. \A e \in Dests : watch'[e] = IF e = d THEN "signal" ELSE watch[e]
      BY <1>2, <2>1, Moves
    <2>4. NeedsInterrupt' \subseteq NeedsInterrupt \ {d}
      BY <1>1, <2>3 DEF NeedsInterrupt
    <2>5. /\ Cardinality(NeedsInterrupt') <= Cardinality(NeedsInterrupt) - 1
          /\ Cardinality(NeedsInterrupt') \in Nat /\ Cardinality(NeedsInterrupt) \in Nat
      BY <2>2, <2>4, NeedCounted
    <2>6. QED
      BY <1>1, <1>2, <2>5 DEF InterruptsSuffice
  <1>3. CASE stopPing' = stopPing + 1 /\ watch' = watch
    <2>1. NeedsInterrupt' = NeedsInterrupt
      BY <1>1, <1>3 DEF NeedsInterrupt
    <2>2. QED
      BY <1>1, <1>3, <2>1, NeedCounted DEF InterruptsSuffice
  <1>4. QED
    BY <1>2, <1>3 DEF StopPing, InterruptPing

(* A ping or its helper moves: what needs an interrupt after killPing is   *)
(* set needed it before.                                                   *)
LEMMA SufficePing ==
  ASSUME TypeOK, HelpersMatch, InterruptsSuffice, NEW d \in Dests, PingThread(d),
         UNCHANGED mainVars
  PROVE  InterruptsSuffice'
  <1>1. /\ killPing' = killPing /\ toSignal' = toSignal /\ toSignal \in Nat /\ stopPing \in Nat
    BY Numbers
       DEF PingThread, PingCreate, PingCheck, PingStart, PingSave, HelperReceives, HelperSignals,
           mainVars
  <1>2. CASE ~killPing
    BY <1>1, <1>2 DEF InterruptsSuffice
  <1>3. ASSUME NeedsInterrupt' \subseteq NeedsInterrupt, stopPing' = stopPing
        PROVE  InterruptsSuffice'
    BY <1>1, <1>3, NeedCounted DEF InterruptsSuffice
  <1>4. CASE HelperReceives(d) /\ stopPing > 0
    <2>1. stopPing' = stopPing - 1 /\ GoWatch(d, "signal") /\ watch[d] = "ready" /\ ping' = ping
      BY <1>4 DEF HelperReceives
    <2>2. d \in NeedsInterrupt
      BY <2>1 DEF NeedsInterrupt, HelpersMatch
    <2>3. NeedsInterrupt' \subseteq NeedsInterrupt \ {d}
      BY <2>1, Moves DEF NeedsInterrupt
    <2>4. QED
      BY <1>1, <2>1, <2>2, <2>3, NeedCounted DEF InterruptsSuffice
  <1>5. CASE HelperReceives(d) /\ ~(stopPing > 0)
    <2>1. stopPing' = stopPing /\ GoWatch(d, "parked") /\ watch[d] = "ready" /\ ping' = ping
      BY <1>5 DEF HelperReceives
    <2>2. NeedsInterrupt' \subseteq NeedsInterrupt
      BY <2>1, Moves DEF NeedsInterrupt
    <2>3. QED
      BY <1>3, <2>1, <2>2
  <1>6. CASE killPing /\ (PingCreate(d) \/ PingCheck(d) \/ PingStart(d) \/ PingSave(d))
    <2>1. /\ stopPing' = stopPing /\ watch' = watch
          /\ \/ ping' = ping
             \/ ping[d] = "start" /\ GoPing(d, "running")
             \/ \E pc \in {"check", "done"} : GoPing(d, pc)
      BY <1>6 DEF PingCreate, PingCheck, PingStart, PingSave
    <2>2. NeedsInterrupt' \subseteq NeedsInterrupt
      BY <2>1, Moves DEF NeedsInterrupt
    <2>3. QED
      BY <1>3, <2>1, <2>2
  <1>7. CASE HelperSignals(d)
    <2>1. /\ stopPing' = stopPing
          /\ UNCHANGED <<ping, watch>> \/ (GoPing(d, "save") /\ GoWatch(d, "none"))
      BY <1>7 DEF HelperSignals
    <2>2. NeedsInterrupt' \subseteq NeedsInterrupt
      BY <2>1, Moves DEF NeedsInterrupt
    <2>3. QED
      BY <1>3, <2>1, <2>2
  <1>8. QED
    BY <1>2, <1>4, <1>5, <1>6, <1>7 DEF PingThread

(* There are interrupts enough, whatever the step.                         *)
LEMMA SufficeNext ==
  ASSUME TypeOK, HelpersMatch, InterruptsSuffice, [Next]_vars
  PROVE  InterruptsSuffice'
  <1>1. CASE UNCHANGED <<killPing, stopPing, toSignal, ping, watch>>
    BY <1>1 DEF InterruptsSuffice, NeedsInterrupt
  <1>2. CASE StartPings
    <2>1. NeedsInterrupt' = {}
      BY <1>2 DEF StartPings, NeedsInterrupt
    <2>2. Cardinality(NeedsInterrupt') = 0 /\ UNCHANGED <<stopPing, toSignal>>
      BY <1>2, <2>1, FS_EmptySet DEF StartPings
    <2>3. QED
      BY <2>2, Numbers DEF InterruptsSuffice
  <1>3. CASE KillPing
    <2>1. toSignal' = Cardinality(Dests) /\ stopPing' = stopPing
      BY <1>3 DEF KillPing, Interrupts, pingVars
    <2>2. QED
      BY <2>1, Numbers, NeedCounted DEF InterruptsSuffice
  <1>4. CASE Main
    BY <1>1, <1>2, <1>3, <1>4, SufficeStop
       DEF Main, ReadSettings, Iperf, StartTcpdump, NoOutboundIP, StartStep, ClientEnds, StopTcpdump,
           StoppedPings, NextRun, Wait, Plot, pingVars, mainVars
  <1>5. CASE DumpStep \/ Outside \/ UNCHANGED vars
    BY <1>1, <1>5 DEF DumpStep, TcpDumper, DumpCreate, DumpStart, DumpSave, DumpHelperReceives,
                      DumpHelperSignals, Outside, PingFatal, PingFails, TcpdumpEnds, DumpEnds,
                      DumpFails, ClientHangs, HealthFatal, vars, pingVars, mainVars
  <1>6. QED
    BY <1>4, <1>5, SufficePing DEF Next, PingStep

(* In the first run the interrupts fit into the channel.                   *)
LEMMA FirstNext ==
  ASSUME TypeOK, RunsInOrder, FirstRunFits, [Next]_vars
  PROVE  FirstRunFits'
  <1>1. /\ run \in Nat /\ run >= 1 /\ toSignal \in Nat /\ stopPing \in Nat
        /\ Cardinality(Dests) \in Nat
    BY Numbers
  <1>2. CASE UNCHANGED <<run, main, stopPing, toSignal>>
    BY <1>2 DEF FirstRunFits, After
  <1>3. CASE KillPing
    BY <1>1, <1>3 DEF KillPing, Interrupts, Goto, FirstRunFits, After, pingVars
  <1>4. CASE StopPing
    BY <1>1, <1>4 DEF StopPing, InterruptPing, FirstRunFits, After
  <1>5. CASE NextRun
    BY <1>1, <1>5 DEF NextRun, FirstRunFits
  <1>6. CASE Main /\ ~KillPing /\ ~StopPing /\ ~NextRun
    <2>1. UNCHANGED <<run, stopPing, toSignal>>
      BY <1>6 DEF Main, ReadSettings, StartPings, Iperf, StartTcpdump, NoOutboundIP, StartStep,
                  ClientEnds, StopTcpdump, StoppedPings, Wait, Plot, pingVars, mainVars
    <2>2. (~After' /\ main' \notin {"stopPing", "sleep"}) => (~After /\ main \notin {"stopPing", "sleep"})
      BY <1>6 DEF Main, ReadSettings, StartPings, Iperf, StartTcpdump, NoOutboundIP, StartStep,
                  ClientEnds, StopTcpdump, StoppedPings, Wait, Plot, Goto, mainVars, After
    <2>3. QED
      BY <2>1, <2>2 DEF FirstRunFits
  <1>7. ASSUME NEW d \in Dests, PingThread(d), UNCHANGED mainVars PROVE FirstRunFits'
    <2>1. /\ UNCHANGED <<run, main, toSignal>>
          /\ stopPing' = stopPing \/ (stopPing > 0 /\ stopPing' = stopPing - 1)
      BY <1>7 DEF PingThread, PingCreate, PingCheck, PingStart, PingSave, HelperReceives,
                  HelperSignals, mainVars
    <2>2. QED
      BY <1>1, <2>1 DEF FirstRunFits, After
  <1>8. CASE ClientHangs
    BY <1>1, <1>8 DEF ClientHangs, Goto, FirstRunFits, After, pingVars
  <1>9. CASE DumpStep \/ (Outside /\ ~ClientHangs) \/ UNCHANGED vars
    BY <1>2, <1>9 DEF DumpStep, TcpDumper, Outside, PingFatal, PingFails, TcpdumpEnds, HealthFatal,
                      vars, pingVars, mainVars
  <1>10. QED
    BY <1>3, <1>4, <1>5, <1>6, <1>7, <1>8, <1>9 DEF Next, PingStep

(***************************************************************************)
(* The invariant, and what it gives.                                       *)
(***************************************************************************)

(* It holds before main has read its settings: no thread runs.             *)
LEMMA InvInit == Init => IInv
  <1> SUFFICES ASSUME Init PROVE IInv
    OBVIOUS
  <1>1. TypeOK
    BY TypeInit
  <1>2. /\ main = "settings" /\ run = 1 /\ step = 1 /\ toSignal = 0 /\ wg = 0 /\ ~killPing
        /\ stopPing = 0 /\ waiters = <<>>
        /\ \A d \in Dests : ping[d] = "none" /\ watch[d] = "none"
        /\ \A r \in RunIds : dump[r] = "none"
    BY DEF Init, PingInit, DumpInit
  <1>3. WgCounts
    <2>1. PingsLive = {} /\ DumpsLive = {}
      BY <1>2 DEF PingsLive, DumpsLive
    <2>2. QED
      BY <1>2, <2>1, FS_EmptySet DEF WgCounts
  <1>4. HelpersMatch
    <2>1. DOMAIN waiters = {}
      BY <1>2
    <2>2. QED
      BY <1>2, <2>1 DEF HelpersMatch
  <1>5. RunsInOrder
    BY <1>1, <1>2, Numbers DEF RunsInOrder, Before, After, InRun, Dumped
  <1>6. EndsWhenTold /\ InterruptsSuffice
    BY <1>2 DEF EndsWhenTold, InterruptsSuffice
  <1>7. FirstRunFits
    BY <1>1, <1>2, Numbers DEF FirstRunFits, After
  <1>8. QED
    BY <1>1, <1>3, <1>4, <1>5, <1>6, <1>7 DEF IInv

(* It is inductive.                                                        *)
LEMMA InvNext == IInv /\ [Next]_vars => IInv'
  BY TypeNext, WgNext, HelpersNext, RunsNext, EndsNext, SufficeNext, FirstNext DEF IInv

(* The invariant holds in every run of a campaign.                         *)
THEOREM Invariant == Spec => []IInv
  BY InvInit, InvNext, PTL DEF Spec

(* Every variable keeps its type: in particular the WaitGroup's counter is *)
(* never negative, which would be a panic, and `stopPing` never holds more *)
(* than one interrupt per destination (enhanced-client.go, main).          *)
THEOREM TypeCorrect == Spec => []TypeOK
  <1>1. IInv => TypeOK
    BY DEF IInv
  <1>2. QED
    BY <1>1, Invariant, PTL

(* The plotter starts when no thread writes any more: each ping has ended, *)
(* and so has each run's tcpdump with its report (main's wg.Wait).         *)
THEOREM PlotsAfterTheThreads == Spec => []PlotsCompleteData
  <1>1. IInv => PlotsCompleteData
    <2> SUFFICES ASSUME IInv, main \in {"plot", "done"}
                 PROVE  /\ PingsLive = {} /\ DumpsLive = {}
                        /\ settings.tcpdump => \A r \in 1 .. settings.runs : dump[r] = "done"
                        /\ Dests # {} => settings.runs > 0
      BY DEF PlotsCompleteData
    <2>1. /\ TypeOK /\ wg = 0 /\ ~Before
          /\ run = settings.runs \/ (settings.runs = 0 /\ run = 1)
      BY DEF IInv, RunsInOrder, Before, After
    <2>2. PingsLive = {} /\ DumpsLive = {}
      BY <2>1, LiveCounted DEF IInv
    <2>3. ASSUME settings.tcpdump, NEW r \in 1 .. settings.runs PROVE dump[r] = "done"
      <3>1. r \in RunIds /\ r <= settings.runs /\ Dumped(r)
        BY <2>1, <2>3, Numbers DEF RunIds, Dumped
      <3>2. dump[r] # "none" /\ r \notin DumpsLive
        BY <2>2, <2>3, <3>1 DEF IInv, RunsInOrder
      <3>3. QED
        BY <3>1, <3>2 DEF DumpsLive
    <2>4. ASSUME Dests # {} PROVE settings.runs > 0
      <3>1. PICK d \in Dests : TRUE
        BY <2>4
      <3>2. ping[d] = "done"
        BY <2>1, <2>2 DEF IInv, RunsInOrder, PingsLive
      <3>3. QED
        BY <3>2 DEF IInv, EndsWhenTold
    <2>5. QED
      BY <2>2, <2>3, <2>4
  <1>2. QED
    BY <1>1, Invariant, PTL

(* Once killPing is set there are interrupts enough, on their way or still *)
(* to be sent, for every ping that runs (pingThread).                      *)
THEOREM EveryPingInterrupted == Spec => []InterruptsSuffice
  <1>1. IInv => InterruptsSuffice
    BY DEF IInv
  <1>2. QED
    BY <1>1, Invariant, PTL

(* A campaign of one run never gets main stuck at the channel of           *)
(* interrupts (the capacity main gives stopPing).                          *)
THEOREM OneRunNeverSticks == Spec => []StuckNeedsEarlierRun
  <1>1. IInv => StuckNeedsEarlierRun
    <2> SUFFICES ASSUME IInv, Stuck, ~(run > 1) PROVE FALSE
      BY DEF StuckNeedsEarlierRun
    <2>1. run = 1 /\ toSignal \in Nat /\ Cardinality(Dests) \in Nat
      BY Numbers DEF IInv
    <2>2. stopPing = Cardinality(Dests) /\ toSignal > 0
      BY DEF Stuck, StopPingCap
    <2>3. stopPing + toSignal <= Cardinality(Dests)
      BY <2>1 DEF IInv, FirstRunFits
    <2>4. QED
      BY <2>1, <2>2, <2>3
  <1>2. QED
    BY <1>1, Invariant, PTL
=============================================================================
