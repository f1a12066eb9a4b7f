# A TLA+ model of latency-tester

latency-tester measures round-trip times in two ways: over WebSockets
(`latency-tester-websocket`: an echo server, a measuring client, an *enhanced
client* that runs campaigns of measurements, and a plotter) and over MQTT
(`latency-tester-mqtt`: a client and a server on the two sides of a broker).
The modules here model its concurrent parts and its plotter, TLC checks them on small
instances, and TLAPS proves the main safety properties of all of them for every
value of the constants.

## Inventory

| Component | State | Operations | Modules |
|---|---|---|---|
| WebSocket client (`enhanced-client/client`) | current connection, `msgId`, channel `reset` (capacity 2), `ssReading`, a pending SIGINT, the CSV file | connect, send, reset after a failed write, pace, close, read a reply, wait for a new connection, sample the socket | `WsClient` |
| WebSocket server (`server`) | one handler goroutine per connection | read the size, echo, answer the close frame, return on an error | `WsServer` |
| connections (gorilla, TCP) | two streams each, broken or not | dial, write, read, break | `WsNet` (external) |
| MQTT client (`cmd/client`, `pkg/logic/client.go`) | `currentMessageID`, `received`, channel `shutdown` (capacity 1), handlers under way, the CSV file | subscribe, publish, pace, signal, one goroutine per response, disconnect | `MqttClient` |
| MQTT server (`cmd/server`, `pkg/logic/server.go`) | serving or not | subscribe, answer a request, shut down | `MqttServer` |
| broker and paho library | messages on their way, each party's session | publish, deliver, lose, redeliver, lose a connection, reconnect | `MqttBroker` (external, with the options of `common.go`) |
| Enhanced client (`enhanced-client.go`) | run and step, channel `stopPing`, `killPing`, a WaitGroup, ping and tcpdump threads with a helper each | settings, runs, steps, interrupts, wait, plot | `Campaign`, `PingThread`, `TcpDumper` |
| Plotter (`enhanced-client/plotter`) | the values read from the files, the time axis, a WaitGroup | a goroutine per kind of plot and per tcpdump report: find the files, gather, split into pages, trim, draw | `PlotData`, `PlotBox`, `TcpdumpPlot`, `Plotter` |
| protobuf code, images, manifests | none | | not modelled |

How they interact. The client and the server exchange frames: a control message
with the response size, then measurement messages, then the close handshake.
Inside the client three goroutines share the channel `reset`, `ssReading` and
`msgId`: the sender hands each new connection to the reader, and to the stats
goroutine, through the channel. In the MQTT client the publishing loop, the
signal handler and the goroutines of the responses share the channel `shutdown`,
and the goroutines share the unguarded counter `received`. The enhanced client
starts the client as a child process, one step at a time; its ping threads all
receive from one channel `stopPing`; `wg.Wait()` stands between them and the
plotter.

What is hard, and what has to hold, per component:

* WebSocket client: a break at any moment, also during a reset or the close
  handshake. The file must not lose an iteration silently
  (`GapsAreMarked`), must not mix connections (`MarkersDelimitConnections`), and
  must be complete when completion is reported (`CompletedIsComplete`); the
  goroutines must not wait for each other for good (`HealthyCloseCompletes`,
  `EndsOrOrphaned`); and a client without an end to its
  loop must not end by itself (`RunsUntilInterrupted`).
* WebSocket server: the size is never mistaken for a measurement
  (`SizeReadFirst`), and a handler ends when its client goes (`ServerReleases`).
* MQTT: arbitrary order of the handlers, races on `received` and on a channel of
  capacity 1, loss and duplication according to the QoS, sessions without
  subscriptions after a reconnection, rows whose write fails unnoticed. No request
  may vanish but where something is known to drop it (`NothingVanishes`).
* Enhanced client: one channel with several receivers, a flag set while threads
  restart, deaths of the whole process out of any thread.
* Plotter: nine goroutines that take the process with them when one fails; plots
  that find the same files in two ways and have to agree (`PlotsShowTheirFiles`);
  files missing, empty, or cut off by a client that died; indices at the ends of
  small samples; reports that cannot be read; a report of all the machine's TCP streams from which those of the
  steps have to be told apart (`PagesAreTheLongStreams`, `TitlesSkipShortStreams`);
  whiskers that must not hide a value (`BoxesKeepEveryRtt`).

`PROJECT.json` lists these hazards at their lines.

## Modules

**The WebSocket measurement.** `WsSystem` composes `WsClient`, `WsServer` and
`WsNet`. The client's program counters are `spc` (main and `requestSender`),
`rpc` (`readDispatcher`) and `stpc` (`getSocketStats`); one action is one
statement or one blocking operation: `Send` is `WriteMessage` in the loop,
`Reconnect`, `Push`, `PushForStats` and `Resend` are the loop
`for err != nil`, `PaceElapsed` and `PaceInterrupt` the two cases of the
`select`, `Complete` main's two waits. A message is its id and the iteration
whose timestamp it carries (`stamp`); payloads, clock readings and the contents
of the TCP statistics are left out. A row of the file keeps the id and the stamp;
id 0 is the row with an RTT of -1. Streams are not consumed: a cursor tells how
far each side has read, so that the invariants can speak of what was read.

A write on a broken connection is swallowed or fails, in any order: TCP reports
the break when it likes. A break cuts both streams anywhere behind the readers'
cursors. A dial succeeds or is fatal (`Fatal`); an output file that cannot be
created is fatal too, after the first dial (`CreateFails`).

`RttCsv` is the abstract specification of the file: rows in order of the
iterations, one per iteration, or a marker over a gap. `WsSystem!CsvSpec` is its
instance under the refinement mapping `CsvRows`, `ClosedFile`.

`WsInvariant` holds the inductive invariant `IInv`, and `ChannelHasAllMissed`
for the client without `-tcpStats`.

**The MQTT measurement.** `MqttSystem` composes `MqttClient`, `MqttServer` and
`MqttBroker`. A handler of a response is an element of the sequence `handlers`
with a program counter: it writes its row, loads `received`, stores it, compares
and sends. Load and store are separate steps because nothing guards the counter;
the comparison takes the value just stored or loads it again, since the language
allows both. The server's handlers share nothing, so taking a request and
publishing the response is one step. `writes` counts the rows handed to the file,
`failed` those that the file did not take: the code discards that error, so a
failed row is counted like any other, and the properties speak of rows handed over. Message ids identify requests; id `Reps`
stands for the request of an earlier client that is still under way when this
one starts. `dropped` and `duplicates` are history variables, a
number for each message: copies that nobody will handle (lost, without a
subscriber, gone with a connection or with the client's end) and copies that the
broker made. With them `NothingVanishes` is an exact balance at every QoS. A setup is a record of `Setups`: the flags `-reps` and `-qos` and the
bounds of what the environment does; `MCMqtt` lists those that TLC looks at.

`MqttFile` is the abstract specification of the file: a row answers a request
published before it or one of an earlier client, a request has one row where
messages come once, nothing follows the end, and without a signal the end comes
with at least as many rows as requests, never when there are none.
`MqttSystem!FileSpec` is its instance under the mapping `File`: the count of the
published requests is read off main's place and `currentMessageID`. `MqttInvariant`
holds the inductive invariant.

**The campaign.** `Campaign` is main of `enhanced-client.go`; `PingThread` and
`TcpDumper` are its threads, each with the helper goroutine that passes an
interrupt on to the child process. A parked helper is served in order of
arrival, as Go's channels do. `status` records how the process died: `log.Fatal`
in any thread, or a panic (a helper that signals a ping not yet started, a
division by zero). A ping or a tcpdump is `complete` when its thread has returned:
that its report could not be written is only logged. The client as a child process
may end at any time, for main logs its failure and goes on; it need not end for want
of repetitions (`Endless`), and it never does when its own goroutines wait (`hung`,
the behaviour that `ws_late_break` exhibits). The sleep between two runs takes any
time. `MCCampaign` defines settings files for TLC, `CampaignInvariant` holds the
inductive invariant.

**The plots.** `Plotter` is main of the plotter with its goroutines; `PlotData`
has the helpers, `PlotBox` the boxes, `TcpdumpPlot` the pages of a tcpdump
report. The six goroutines of `typedBoxPlots` and `typedCDFs` share nothing but
the life of the process, so each is one action (`TypedPlots`), over all its
cells; so are `PingPlotter` and each `TcpdumpPlotter`. `RttPlotter` reads a run
per step (`ReadRun`), because what it keeps between two runs, `lastOfRun`,
decides where the next one is drawn; it also draws the pages of box plots per run (`perRun`). A sample is a row of a file, so plots are
compared by where their values come from. A file ends `whole`, or in a row that
the client had only begun when it died (the sender's `log.Fatal` while the reader
writes): without its RTT, or with too few fields, and then `csv.ReadAll` yields
nothing. Names are compared as records; the relation `Tails` says which
destination's name ends another's, which is what `strings.Contains` lets through.
Where endpoints are compared a key is a description, as in the code, and endpoints
that share one share a box. A marker's -1 is a number like any other, there as in the
code.

`Box` is `handleWhiskerAndOutliers` on top of the library's box (`Outside`,
external): outliers are indices into the sorted values, as in the code.
`ByStream` is the stable sort of a report, by the place each row gets. `Plotted` is
the loop of `TcpdumpPlotter` over the sorted rows, a recursive function of the number
of rows; `Turn` is one turn of it, with what the loop carries over (`firstTs`, `previousStream`, the
points and the marks). A report that is missing, or that `csv.ReadAll`
yields nothing of, is not among `reports`, and ends the process; so does a missing
`parameters.txt`, which otherwise gives the number of combinations that the titles
count with, be it this campaign's or not. The step that a stream of a report belongs to is not in
the file: it is a field of the model's rows that only the properties read.
Whether the library refuses the distribution of a single value, whose ordinate is
0/0, is a choice in the model (`OneValue`). `PlotterInvariant` holds the inductive
invariant.

## Runs

| Run | What it shows | Instance |
|---|---|---|
| `ws_reset` | The file: no silent gap, no mixing, complete on completion, `RttCsv` implemented; the reader misses no connection when two resets fill `reset`; the ways to end; the server lets go of its clients | 2 iterations, 2 breaks, no stats; 49,306 states, under a minute |
| `ws_stats` | `IInv`, and the client ends or is orphaned, so that the sender never stays blocked, with a second receiver on `reset` and a loop that ends where `msgId` wraps to 0 | 2 iterations, modulus 3, 2 breaks, stats; 414,484 states, some 2.5 minutes |
| `mqtt` | Every request and each copy of it is in exactly one place, or dropped; a self-ended client has written all rows; the counter stays behind the rows; the client is blocked only by a second signal or an extra response (a duplicate, or an earlier client's), and a signal ends it unless it is blocked; `MqttFile` implemented; `IInv` | 7 setups: QoS 0 to 2, up to 3 requests and none, a stale request, a redelivery, a connection loss, a failed row, up to 2 signals; 171,000 states, some 1.5 minutes |
| `campaign` | Interrupts suffice for the pings that run; the plotter starts when every thread has returned; the campaign ends, dies, is stuck on leftover interrupts or at a client that waits for good, or stays with a client that has no repetitions; `IInv` | no, 1 and 2 runs, 2 pings, tcpdump or not, 7 settings files |
| `plots` | All plots of a combination show the same measurements; one run begins where the last one ended; axes and whiskers leave the middle, and boxes every value, per combination and per run; the pages of a report are the streams of its steps, with their marks and titles; the plotter ends with every plot if there is enough data; `IInv` | 2 sizes or 2 destinations, with descriptions of their own or one, up to 4 runs, files of every kind, reports and `parameters.txt` there or not, pings, whiskers that cross or exceed 100, a step of no second, reports of every word of up to 3 rows in 2 streams or 4 acknowledgements in 3, and longer ones; a percentile of 1 in 4, pages of 2; 28,025 states, some 2.5 minutes |

Seven runs end in a counterexample, each against a statement of the code or its
documentation (`PROJECT.json`, "findings"):

* `ws_late_break`: a break after the last write leaves the reader waiting for a
  connection nobody makes, and main for the reader.
* `ws_stats_steal`: with `-tcpStats` the stats goroutine can take both copies of
  a new connection, and the client hangs although that connection works.
* `ws_port1000`: the reader takes any error with "1000" in its text for the end.
* `ws_endless`: with `-reps=0`, which is to run until an interrupt, `msgId` comes
  back to 0 after 2^32 iterations, where the loop ends by itself.
* `mqtt_duplicate`: a duplicate is counted as the response that is missing.
* `tcp_titles`: a step whose connection broke has no page, and the pages of all
  later steps bear the titles of earlier ones.
* `summary_markers`: a reset's -1 enters the mean that the summary gives.

**Bounds.** `MaxBreaks` bounds the connections that break: two let a connection
break before and after a reset, and two resets fill a channel of two (one
reset with `-tcpStats`, where each connection is pushed twice). Two
iterations give a first, a lost and a last message. `IdModulus` stands for 2^32;
with 3 `msgId` comes to 0 by wrapping within a short run, and the loop, in the model
as in the code, stops there; with 8 it never wraps. Every passing run
of the WebSocket has `AddrHas1000` FALSE: with a network error's text that holds 1000
the reader may leave early, the file is then not complete, and the sender may be
left waiting at the full channel. Two requests are
the fewest for which one response can be the last, the last but one, or counted
for another. The fields
`stale`, `duplicates`, `losses`, `failures` and `signals` of a setup bound what the
environment does; each is at the least value for which its case happens, except
two signals, the least that fill `shutdown` twice. Two pings and
two runs are the fewest for which an interrupt can reach the wrong ping or be
left over. The proofs need none of these bounds.
In the plotter `Hundred` and `PerPage` stand for 100 and 12: with 4 and 2, samples
of one to eight values have one or two values per percentile or none, and three
runs fill more than a page, so that a page of box plots per run is closed by its
length and by the end. A step of two seconds and reports with a row a second
let a stream of three rows last a step and one of two not; three streams are the
fewest for two steps with another program's stream, or a broken connection, in
between. The reports of `ReportsAlone` come without clients' files, so that the
other goroutines do not multiply their states; `WithReports` has everything
together.

`CHECK_DEADLOCK FALSE` is in every configuration because every program here may
stop: it ends, and (as the liveness properties say exactly) it may wait for good.

**Fairness.** Weak fairness of each goroutine, for Go's scheduler is preemptive;
strong fairness of `PaceInterrupt`, for a `select` chooses uniformly among its
ready cases and a pending interrupt is taken in the end; weak fairness of the
server's handlers and of the delivery of MQTT messages under way. In the plotter, where
nothing waits but main, weak fairness of the next step. No fairness of
breaks, losses, signals, failures of commands, or of a user's Ctrl-C; and in a
campaign none of a client without repetitions (`~Endless /\ Main`). The
counterexamples to liveness properties all end in a state where every fair
action is disabled.

## Proofs

Each component has an inductive invariant, `IInv`, that a run checks and TLAPS
proves; the safety properties follow from it.

**The WebSocket measurement**, for every `Reps`, `IdModulus >= 2`, `SockOpt`,
`AddrHas1000` and `MaxBreaks`:

* `WsProofs`: `TypeCorrect`, then `Invariant`, that `IInv` holds in every
  reachable state, and from it `GapsAreMarkedCorrect`, `MarkersDelimitCorrect`,
  `SizeReadFirstCorrect`, and `CompletedCorrect` (assuming that no network
  error's text holds "1000", without which `ws_port1000` refutes it).
* `WsPromiseProofs`: `ImplementsCsv`, every behaviour of the system is one of
  `RttCsv` under the mapping; `ChannelCorrect` and `VisitsCorrect` (assuming no
  `-tcpStats`, without which `ws_stats_steal` shows what happens).

Why the invariant is as it is. The rows come from the replies, the replies from
the requests, and the requests from the sender's loop, so `IInv` says of each
link what the next one needs. `Stream` and `Order`: a client stream is the size,
then messages of consecutive iterations, the first one a marker unless the
connection is the first, and later connections carry later iterations.
`Progress`: how the sender's place bounds what is in the streams. `Echoes`: the
i-th reply answers the (i+1)-th frame. `Channel`: connections come out of
`reset` in order and none is older than the reader's. `LastRow`: the last row is
the last reply the reader read. With these, a reply read now is either the
successor of the last row's iteration on the same connection, or a marker of a
later iteration on a later one: `RowFollows`, from which the properties of the
file and the refinement both follow. `EndIsComplete` needs `CloseAt`: a close
frame is the last thing in its stream and follows the last iteration.

**MQTT**, for every set of `Setups`: any number of repetitions, redeliveries,
losses, signals and handlers.

* `MqttProofs`: `Invariant`, `TypeCorrect`, and from the invariant
  `CounterBehindFile`, `OnePlace`, `BlockedTakesTwo` and `FileComplete`; and
  `ImplementsFile`, every behaviour of the system is one of `MqttFile` under the
  mapping.
* `Counting`: lemmas about sums over the finite set of lines and about the
  handlers counted in a sequence that grows and shrinks, which both rest on.

`received <= RowCount` is not inductive: a handler that has loaded the counter
may store what it loaded long after. `CountsLeaveRoom` says that the counter, and
every value of it that is still to be stored or compared, leaves a row for each
handler that has written its row and not counted it; so a stale store can only
set the counter back. `ShutdownIsEarned` is the other half: until the file has as
many rows as requests, no handler is about to send and every value of `shutdown`
is a signal; hence a client that ends without a signal has the rows. One that is
blocked has a request still to publish, so with no more responses than requests the
rows are fewer than `-reps`, and both the value it took and the one in the channel
were signals: `BlockedTakesTwo`, which excepts an extra response because that one
does let `received` reach `-reps` early. `RequestsInPlace` is the balance of the places
of a request, proved for every QoS and every fault. From at most one place per request (`qos # 1`) and as many rows as
requests it follows by counting that each request has exactly one.

**The campaign**, for every finite set of destinations, every `MaxRuns` and every
set of settings files:

* `CampaignProofs`: `Invariant`, `TypeCorrect`, `PlotsAfterTheThreads`,
  `EveryPingInterrupted` and `OneRunNeverSticks`.

The WaitGroup counts the live pings and tcpdumps together (`WgCounts`); a thread
that ends is live before it, so the counter never falls below 0, and main passes
`wg.Wait` only without a live thread. That the tcpdump threads have then all run,
`RunsInOrder` says: a run's thread exists from the moment main has passed its
start. `InterruptsSuffice` needs `HelpersMatch`, by which the helpers parked on
`stopPing` are those of pings that run, each once: an interrupt that is taken from
the channel tells one more helper, and one that is handed to a parked helper
likewise. `FirstRunFits` bounds the interrupts of the first run by the channel's
capacity.

**The plotter**, for every `Hundred >= 2`, `PerPage >= 1`, `Tails`, and every set
of campaigns whose settings and files are well-formed (`CampaignsAssumption`): any
finite number of files, of any length, and reports of any length. Two things it
assumes of the settings the code does not check. No run is plotted twice: given a
run twice the code starts two `TcpdumpPlotter` goroutines on one report and reads
the run's files twice, whereas the model's goroutines are a set and `OneTimeAxis`
tells points apart by their file and row. And no number of seconds, minutes or
percentiles is negative: Go's division rounds towards 0 where `\div` rounds down.
Such settings are outside the model, in the runs too.

* `PlotterProofs`: `Invariant`, `TypeCorrect`, `NothingCutShort`, `PlotsAgree` and
  `RunsEndToEnd`; then `PlotsInvariant`, and from it `AxesKeepTheMiddle`,
  `NoRttIsLost`, `PagesAreStreams`, `MarksOnTheAxis` and `TitlesAreTheSteps`.
* `PlotLemmas`: what `Nth`, `Limits` and `Box` give for any finite set of samples.
* `TcpdumpLemmas`: what `ByStream` and `Plotted` give for any report.

`ReturnedMeansDrawn` says of each goroutine that it is still running or has left
its plot. The WaitGroup is set to a number computed apart from the goroutines that
are started; `AllAdded` shows that they are equally many, whatever the settings.
`PointsSoFar` says which samples `RttPlotter` has gathered after each run: those of
the files that its name pattern names, which are the files that `Measured` finds by
searching all of them. For the other plots `WantedFiles` compares
`openDesiredFiles` with the same set. `AxisSoFar` says where the last point lies,
which is where the next run begins. Since no run is read twice, two points of one
file are of the same reading.

What is excepted is said where the property is: a run after a file cut off in its
last row, run 1 if it is not plotted first (`OneTimeAxis`); a destination whose name
ends another's (`PlotsShowTheirFiles`); an outlier twice where whiskers cross
(`BoxesKeepEveryRtt`); a retransmission at a stream's beginning, a last record alone
in its stream, a step of no second (`PagesAreTheLongStreams`); marks before a page's
first point (`MarksShareTheAxis`). In each the code does otherwise, and no document
or comment speaks of the case.

What a plot shows is proved in a second step, `PlotsInv`, relative to `IInv`: each
kind of plot is right from the moment it is drawn. It rests on lemmas about data.

* Order statistics. `Nth(S, k)` is a CHOOSE; `NthIs` shows that the k-th value
  exists, `NthSorted` that it grows with k, `NthShares` that at most k samples lie
  below it and at most n - k - 1 above. `LimitsCut`, `WiderCuts` and `SpanTakesIn`
  carry that to an axis, and to one that serves several cells.
* Whiskers. `MedianBetween` and `OutsideShape` say that the library's outliers are a
  beginning and an end of the sorted values, `BoxParts` and `BoxKeeps` that the
  whiskers and the outliers then leave out no value, `BoxApart` that they share none.
* Sorting. The sorted report is defined by each row's place (`Place`), the number of
  rows that come no later; `PlacesApart` shows by counting that no two rows share a
  place, hence that `ByStream` has every row once, streams in order.
* The loop. `Plotted` is a recursive function over the rows; `Upwards`, induction as
  a lemma about a set of numbers, lets a loop invariant be proved for it. `Loop` says
  what the loop has after each row: finished pages that are right (`PagesGood`), every
  stream behind it that lasts has one (`HasPage`), and the page under way has all
  points and marks of its stream so far on the axis of its first row (`PageSoFar`).
  The last row needs an invariant of its own, `AllDrawn`: it closes its page in the same
  turn, and may be drawn with a stream that is not its own (`StrayLast`).

Three properties were false as first written and are now stated as they hold; the
bounds had hidden it, the proofs did not, and TLC has counterexamples since
`MCPlotter` has the campaigns for them. A stream that lasts has a page only if a step
takes time at all: with a step of no second (61 combinations in a minute) every lone
record lasts a step, and the last one has no page (`PagesAreTheLongStreams`). A title
is that of its step only if no stream lasts merely by a retransmission at its
beginning, for such a stream may have a page or not (`OneStreamPerStep`). And a
`whisker_max` above 100 asks for less than nothing beyond the whisker, which a small
sample does not refuse (`BoxesKeepEveryRtt`).

**Only model-checked.** The liveness properties (`PlotterFinishes`, `CampaignEnds`,
`EndsUnlessDroppedOrMiscounted`, `SignalEnds`, and those of the WebSocket
measurement): fairness and ENABLED are out of the prover's reach. Every other property of a passing run is
stated by a theorem. The counterexamples of the seven violating runs are TLC's.

## Not modelled

The drawing of the plots, their labels, and the standard deviation of the
summary; the generated protobuf code; images and manifests; traceroute, the
contents of the TCP statistics and of the iperf output, TLS, payload sizes, log
lines. Folders and copies of the settings that cannot be written end the
enhanced client (`ReadSettings`) but are taken for granted in the plotter, as are the
plots' own files. Descriptors of connections that are never closed: no property is
about the leak on the client's side (requestHandling.go:42). A port that is still in use
when `-srcPort` dials again is one of the causes of a fatal dial (`Fatal`),
not told apart from the others. The data races on `ssReading` and `msgId` beyond
their interleaving. A second MQTT client with the same client id is, to the first,
a lost connection and foreign messages, and not modelled beyond that. `err` shared by `tcpDumper` and its
helper: a build that loads it again after the helper's assignment could take a
failed tshark for a good one.

## Plan

1. Done: all components modelled and checked, and every safety property of the passing
   runs proved for every value of the constants.
2. Open: settings that plot a run twice, with goroutines and readings as a bag; and
   a `TcpdumpPlotter` of one step per row, an abstract specification of its pages
   beside it, so that the loop invariant becomes a refinement.
3. Open: the causes of a fatal dial told apart, so that a port still in use after a
   reset is a case of its own.
