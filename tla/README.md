# vpub-exporter: TLA+ models and proofs

`vpub-exporter` (package paths below are relative to `src/`) is a Prometheus
exporter that runs beside Hyperliquid's validator-publisher and watches it from
outside: it tails its logs, asks systemd and `/proc` about its processes, probes
its RPC endpoints, reads its state file, asks Slack whether reports arrive,
compares binaries with what their server offers, and turns all of it into
counters and gauges that alert rules are written on. It never changes anything.
What can go wrong is that a series says something that did not happen, or does
not say something that did; the modules here are about that.

## Inventory

| Component | State | Operations | Talks to |
|---|---|---|---|
| Polling tailer `internal/logtail` | open file, offset, path, inode; bufio buffer of a drain; channel of 64 | poll, reopen, drain, send, stop | directory (read only), collectors through channels, `ctx` |
| Newest-file choice `internal/logfs` | none | `LatestMtime`: a listing, then one call per file | directory |
| Vote logs `collectors/vote_logs.go` | two channel variables, counters, two gauges | receive, classify | two tailers |
| Outcome, visor, download logs | counters, gauge vector | receive, classify | one tailer each |
| Ticker loop `collectors/base.go` | timer | tick, count the error | every polling collector |
| Service `collectors/service.go` | mirror of NRestarts, three series | four reads per tick | systemd over D-Bus, `/proc` |
| Bridge RPC `collectors/bridge_rpc.go` | semaphore, WaitGroup, first error, per-endpoint series | probe all endpoints | `internal/rpc` (HTTP) |
| Bridge state `collectors/bridge_state.go` | three series | stat, open, decode | the publisher's state file |
| Slack health, outcome Slack | `slack_api_ok`; last good count | one call per tick | `internal/slackapi`, Slack |
| Binary `collectors/binary.go` | last remote mtime, gauges | stat all targets; HEAD | disk, download server |
| Log mtime `collectors/logmtime.go` | gauge vector | four directory scans | `internal/logfs` |
| Configuration `internal/config` | none after start | parse and validate | environment |
| main `cmd/vpub-exporter` | the context, the D-Bus connection, the HTTP server | start goroutines, serve, shut down | all |

All collectors are goroutines of one process; they share the context main
cancels on a signal, and otherwise nothing but the Prometheus client. The hard
parts: the tailer, where a polling reader races with a writer that appends in
pieces, rotates, replaces, truncates and deletes; every collector whose tick
makes several reads of a world that moves between them; alert rules that
subtract values which different goroutines read at different times; and the
shutdown, which waits for HTTP requests and for nothing else.

What makes each component correct: a tailer reports each matching line of the
file it follows once, in order, never a fragment, and it stops; a log collector
counts each reported line once and its gauges tell the time in the log; a
polling collector's tick ends, reports what it could read, claims nothing it
could not, and counts one error when something failed; the rules fire within
their budget and stop after it; the process ends when asked to, says it stopped
cleanly only if it did, and starts no goroutine that has nothing to ask for.
Every hazard found on the way is listed in `PROJECT.json` at its line, with the
properties that cover it.

## Modules

| Module | What it is |
|---|---|
| `LogDir` | the log directory and its publisher (external, modelled from what the tailer reads): files by name and inode, contents as cells, the names with the newest mtime |
| `LogTail` | `loop` and `drain` of `logtail_poll.go` on `LogDir` |
| `LogFeed` | what a subscriber may rely on: the abstract specification `LogTail` implements |
| `LogTailProofs` | theorems about `LogTail`, and that it implements `LogFeed` |
| `LogCollectors` | the four log collectors on `LogFeed` |
| `Binary` | the binary collector with the download collector of `LogCollectors`, a clock, and the two tier-2 rules that subtract gauges |
| `CollectorProofs` | theorems about `LogCollectors` and `Binary` |
| `RunTicker` | the loop of `base.go`; the polling collectors extend or instantiate it |
| `LogMtime`, `LogMtimeProofs` | the log mtime collector and the scan of `logfs_os.go`, call by call |
| `BridgeRPC`, `BridgeRPCProofs`; `Service`, `ServiceProofs`; `BridgeState`, `BridgeStateProofs` | one polling collector each, and theorems about it |
| `Slack` | both Slack collectors and the client they share |
| `Config` | `Load`, `Validate` and the `Has*` predicates as operators |
| `Exporter`, `ExporterProofs` | `run()` of main from configuration to exit, extending `Slack` and `Config`; theorems about `Slack`, `Config` and `Exporter` |
| `BoundedSets` | lemmas on finite sets: smallest and largest elements, induction stated of a set, sums; `LogMtimeProofs`, `BridgeStateProofs`, `ExporterProofs` and `CollectorProofs` extend it |
| `MC*` | instances for TLC |

`LogDir` is extended by `LogTail`; `LogTail` refines `LogFeed` (`INSTANCE
LogFeed WITH`, property `ImplementsFeed`). `LogCollectors` extends `LogFeed` and
fixes what its files hold: whole lines of the publisher's kinds. That its steps
are steps of `LogFeed` (`CollectorsUseTheFeed`) and that it has a step for
everything a feed may do with such files (`CollectorsCoverTheFeed`) are
theorems. `Binary` extends `LogCollectors`. `RunTicker` is extended by the
collectors with one ticker and instantiated twice by `Binary` and `Slack`, which
have two. `Exporter` composes main with the Slack collectors in full.

### How the tailer is modelled

A file is a sequence of cells, one per write of the publisher: a whole line, or
the head of a line (its timestamp) and its tail (message and newline). That is
as fine as the code can tell: the offset is always just past a newline, a read
returns any number of cells, and a line without the leading timestamp is skipped.
`Hits` says which patterns a line matches. The program counter follows the
source: `check` (line 96), `latest` (103), `examine` (106-120), `open`
(121-132), `drain` (159), `read` (166), `emit` (182-191), `wait` (141). Every
system call is a step, so the directory can change between any two. `Faults`
chooses which calls may fail. `fd` is the inode of the open file: a file deleted
or replaced stays readable. Left out: `fstat` on the freshly opened file failing
(it cannot on a regular file), and the fallback of `inodeOf` for other systems
than Linux and Darwin. The choice of the newest file is one step here; that the
scan, which is none, is as good as one is what `LogMtime` shows.

`clean`, `sent` and `ever` are history variables: no action's guard reads them.
An *epoch* is the life of one read position, from one start of a file to the
next.

### How the log collectors are modelled

A line is the record of what its classification can tell: the patterns it
matches (one or two), the captured number, pair or component, each of which may
be missing, and the parsed timestamp. `Take` is one iteration of the receive
loop with the whole classification; `select` is a choice between the actions
that are enabled. A match is taken from the channel and classified in one step:
only this goroutine writes those series.

The tailer's side is `Publish` (lines come to the followed file), `Send`, `End`
and `StartFile`: the feed goes to the beginning of a file, which is the same one
again, a newer one, or an older one that was written late, so its lines are any;
what was not sent of the file before is lost. `before` is the history this
needs: what the last line of the earlier files that set a gauge says. A line
whose timestamp does not parse (`NoStamp`) gives its match the wall clock of
`drain`, another one at each reading (`TimesOf`). `Clock` holds the times at
which lines are read.

### How the polling collectors are modelled

In `Service` and `BridgeState` each read of a tick is a step, with the unit, its
processes or the state file moving between them. A scan of `/proc` is one step:
a process that starts or ends during it is counted or not, as it would be before
or after. It leaves out any children whose `stat` cannot be read or parsed, and
says nothing (`procs_proc.go:48-55`). The mtime of the state file is reported in
seconds (`Unix`, `PerSecond`), and `versions` remembers what the file has held
since the tick began. `mainPid # NoPid` stands for "active"; the short states of
systemd in which one is true without the other are left out. In `BridgeRPC`
every deferred call of a probe's goroutine is a step. `Statuses` are the
outcomes of `HTTPProbe.Probe`; a cancelled probe is `timeout`, as in the code.

In `LogMtime` a scan is `List`, one `Info` for each name in the order ReadDir
sorts them, and `Report`. Times are units of the file system's clock, several of
which make a second (`Unix`), so two different mtimes may be one value of the
gauge. `moments` remembers what the newest mtime has been since the listing, and
`leaders` which of the newest files of the listing have kept their names.

In `Slack` a call is what Slack looks at (`AuthTest`, `History24h`) and what the
tick makes of the answer, which may come after the token or the channel has
changed or not at all. HTTP statuses, unreadable bodies and timeouts are one
failure. `tokens`, `counts` and `window` are the history an answer is compared
with.

`Binary` has a clock in units of half a minute. It goes on only when no tick is
due or under way and no log line has waited longer than `Poll`: the tickers'
intervals and the delay of the tailer are what the rules' budget is made of, so
the model holds the code to them and not to a faster machine. `Watch` is part of
every step: it evaluates the rules' expressions continuously, as Prometheus does
at every scrape, and remembers since when what a rule is about is so (`truth`)
or not so (`calm`). The visor, the server and whoever installs are external.
`ResolvedInTime` is stated after a local tick (`LocalDone`): only then do the
gauges tell of files as old as an interval at most.

### How configuration and main are modelled

An environment is a record of what is left of the variables when their text is
cut at the separators and trimmed. `Config` translates the order in which
defaults, the legacy variable and the lists are resolved, what is dropped and
what is refused. In `Exporter` the program counter follows `run()`: `load`
(45-69), `wire` (72-147), `listen` (160-175), `select` (177), `drain` (184-190),
then the deferred calls in their order, `close` (74) and `cancel` (70). The
server's goroutine, a signal, a scrape and the collectors take steps between
any two of them. A signal kills the process during `load`, whose last call is
`NotifyContext`; later ones cancel the context, under the wiring too, which goes
on with it. Shutdown waits for connections, so its timeout may end the wait with
no request in flight. `/healthz` has no state; requests in flight are a number.

## Runs

Run `tlc -config <cfg> <module>` here. Deadlock checking is off everywhere: a
stopped exporter, or one whose bounds are used up, has no step left.

| Run | Bounds | Shows |
|---|---|---|
| `tail_once` | one file of 3 cells, 2 patterns, channel of 1, truncation, all faults | `TypeOK`, `ExactlyOnce`, `IInv` |
| `tail_rotate` | 2 names, 3 inodes of 2 cells, 2 patterns; rotation, replacement, deletion, equal mtimes, all faults | `NeverTwice` |
| `tail_live` | 2 files of 2 cells, 2 patterns; late writes, equal mtimes, deletion | `NewestReported`, `Stops`, `ImplementsFeed` |
| `collectors_safe` | 5 feeds, lines of one collector at a time, 2 lines of up to 5 kinds in a file (two with two patterns, one without a timestamp), one start of another file, channel of 1 | `TypeOK`, `CountsEachMatchOnce`, `GaugesTellLogTime` |
| `collectors_live` | the vote collector: 2 lines in each feed's file, the bridge's started again without end, the oracle's once, channel of 1 | `EverythingCounted`, `AllStop` |
| `rpc` | 4 endpoints (one without URL), 2 slots, 2 ticks, 3 of the 4 statuses | `IInv`, `Bounded`, `CheckedOncePerTick`, `ErrorPerFailedTick`, `TicksEnd`, `Returns` |
| `service` | 5 processes, 3 restarts, 2 resets, 3 ticks, failing reads, skipped children | `IInv`, `NeverOvercounts`, `SteadyTickIsExact`, `ErrorsMatchFailures` |
| `state` | 2 explorers, blocks 0..2, 4 writes, 2 to a second, 2 ticks | `IInv`, `NeverGoesBack`, `TickIsFresh` |
| `logmtime` | 2 directories of 2 names, one unreadable, clock up to 3, 2 units a second, 2 ticks | `ScanIsAMoment`, `IInv`, `TickCoversAll` |
| `binary` | 3 targets, one downloaded, one that may fail; clock 2 to 10 in units of 30 s, 4 ticks of each ticker, 1 fault (a failed call, or a file of the log started), 2 events | `BinaryTypeOK`, `ReportedInTime`, `ResolvedInTime`, `AlertMeansMissed` |
| `exporter` | some 70 environments, a page of 1 and up to 2 messages, 1 change of token or channel, 2 ticks, 1 scrape | `ExporterTypeOK`, `SlackInv`, `CleanExitIsClean`, `FailuresAreReal`, `NoneTicksForNothing`, `StopsInTime` |

Why the bounds are enough to be interesting: 3 cells hold a line in parts and a
fragment glued to the next line, with a continuation; two names and three inodes
hold a rotation, a replacement and a deletion; two cells in each of two files
are what a re-read and a switch back need; a channel of 1 blocks the sender at
once, as 64 would later; two lines in a file are a success and one that follows
it, and a file started after it is the same one, which brings the older line
back, one without any such line, or an older one; the constraint of
`collectors_safe` leaves out only lines of two collectors at once, which share
nothing, and the stop, which `collectors_live` has; there the bridge's channel
is never empty for good, so a receive that favoured it would starve the
oracle's; fewer slots than endpoints make probes wait; three ticks hold a reset
between two reads and a read after it; two names are a rename over an existing
file; eight units of the clock are the interval of both tickers (2), the `for`
(2) and the threshold (2) one after the other, with a failure of one tick
between; a page of 1 and 2 messages make `has_more`. The environments are a full
one and those that differ from it in one or two places: blank, missing, unknown,
repeated and legacy values. The status `fail` is left out of `rpc`: the code
treats it as `auth_error` but for its label. TLC's runs reach between ten
thousand and some millions of states.

`collectors_example` fails on purpose: the comment in `vote_logs.go` says that a
scan line's votes are added once, and with the patterns of the example
environment file they are added twice, as the line matches two of them. The
finding in `PROJECT.json` quotes both.

Each property of a passing run has a mutant (operators whose comment begins
"Mutant of"): a plausible bug of that code, under which the run fails.

### Fairness

`LogTail`: weak fairness of the tailer as a whole (Go schedules a goroutine that
can run; the ticker fires), and of the collector only until the context is
cancelled, since a collector may return with its channel full. Nothing is
assumed of the publisher. No choice inside the tailer is assumed fair, so
`tail_live` leaves out faults that could repeat for ever, but for `stat`, which
only delays the discovery of a new inode. `LogCollectors`: weak fairness of each
tailer (`Send`, `End`), of each collector, and of the receive from each of its
channels: Go's `select` chooses at random among ready cases, so one that stays
ready is taken some time. Nothing is assumed of publishers or of files started;
`EverythingCounted` is of feeds that do not start files for ever.
`BridgeRPC`: weak fairness of the loop and of every probe, which ends by its
5-second timeout at the latest; strong fairness of the case `ctx.Done()` of
RunTicker's select, as Go's select chooses at random among ready cases.
`Exporter`: weak fairness of main alone, which includes the timer of Shutdown's
context; nothing is assumed of clients, Slack, D-Bus or the collectors, so
`StopsInTime` shows that none of them can keep the process alive. `Binary` needs
none: its promises have deadlines, and the clock stops at what is due. The other
safety runs assume none.

## Proofs

`tlapm <module>` for each `*Proofs` module. The assumptions are those the
modules state as `ASSUME`: non-empty sets of names, inodes, patterns, targets, at
least one slot; no bound is assumed to be of any size.

*Tailer* (`TypeCorrect`, `InvariantHolds`, `ReportsExactlyOnce`). `ExactlyOnce`
says that while the open file is not truncated, what was sent in this epoch, with
what is owed for the line in hand, is exactly what the consumed cells give rise
to, in order. It is not inductive: the next line comes out of bufio's buffer, and
nothing in it relates the buffer to the file. `IInv` adds

- `BufferFollows`: the buffer is what follows the offset in the file, and the
  offset is 0 or just past a newline;
- `OwedInHand`: what is owed belongs to one line, and anything owed outside
  `emit` belongs to a cancelled drain, which is the last one;
- `InDrain`: a drain has an open file.

The core is two lemmas on `Due`: appending to the file does not change what the
consumed cells gave rise to (`DueAppend`), and consuming one more line adds
exactly that line's matches (`DueStep`). On them rest one lemma per kind of step:
idle steps, a fresh epoch, a read, taking a line, a send, the publisher.

*The tailer as a feed* (`TailerIsAFeed`). If nobody truncates a file, every
behaviour of `LogTail` is one of `LogFeed` under the mapping written there: what a
feed owes is what the open file gives rise to, what it has given is what was sent
in this epoch. A send is `Deliver`: by `ExactlyOnce`, what is not sent yet is what
is owed for the line in hand and what comes after the read position, and `drain`
sends the lowest pattern first; for that the proof needs that the line in hand is
the one before the read position (`LineInHand`). Opening a file, and reading it
from its start, are `Restart`; the publisher's append is `Grow`, as what is
appended is due behind everything else (`DueAppend`); the rest are `Close`,
`Receive`, `Cancel` or stuttering. The theorem covers the steps, not fairness: `EverythingCounted` and
`AllStop` assume of a feed that it sends what it can and closes, which `Stops`
and `NewestReported` show of the tailer as far as it can be seen there.

*Newest file* (`ScanInvariant`, `ScansAreMoments`). A scan asks for the files at
different times, and yet what it returns was the newest mtime at one moment. The
reason is `ScanInHand`: a file older than the newest of the listing still has the
mtime it had then; any other one was written since, and at that moment was the
newest (the clock does not go back); and until a leader of the listing has been
asked for, it is still to be asked for. So the maximum of what was seen is not
below the listing's newest, hence the newest of some moment, unless every leader
was renamed or removed. `LargestOf` and its corollaries give the maximum of a
directory, which TLAPS cannot get from `CHOOSE` by itself.

*Service* (`ServiceInvariant`, `RestartsNotOvercounted`, `SteadyTicksAreExact`,
`ErrorsCounted`). What the counter holds plus the rise it has not seen yet is at
most the restarts that happened; with `MirrorBehind` (before any reset the mirror
is not ahead) and the types it is inductive. That a steady tick is exact needs
what each earlier read has left (`ReadsHold`), with a count that is below the
truth by the children the scan has skipped, and that the errors match needs
that the flag and the first error's kind agree: both are `TickInHand`.

*Bridge RPC* (`RPCInvariant`, `ProbesBounded`, `EachCheckedOnce`,
`OneErrorPerFailedTick`). The slots taken are the probes between acquiring and
releasing one, and each step moves one probe; an endpoint the loop has not come
to has none (`NotStarted`). In the middle of a tick the counter of an endpoint is
behind the ticks by the check still to come (`CountsInHand`), its gauge is that
of the last answer (`GaugeInHand`), and the first error is set exactly when a
failed probe has passed the mutex (`ErrorInHand`): at `wg.Wait`, when no probe is
left, these are the properties of the run.

*Bridge state* (`StateInvariant`, `BlockNeverGoesBack`, `TicksAreFresh`). A
document has what the publisher had scanned when it was saved, so a later one
has cursors that are not lower, as long as no explorer is dropped
(`CursorsGrow`). The maximum of the cursors is then not below that of any
document reported before: whichever explorer gave it is still there and has not
gone back. `LargestOf` says that there is a maximum. For `TicksAreFresh` the
versions the file has had since the tick began are remembered: what stat saw is
one of them (`StatOf`), what was opened is one that is not older, and rewriting
the open file in place makes it the newest (`TimesInOrder`). Whatever explorers
were dropped, the block and the cursors reported are then those of one version.

*Log mtime ticks* (`TicksCoverAll`). Between two components, those before the one
at hand are scanned or failed, and the first error is set exactly when one failed
(`Covered`).

*No line twice* (`SendsNeverTwice`). This rests on a whole life of the tailer, so
its invariant relates what was ever sent to the names: as long as only the
newest file is written and none is truncated, names are ordered as their inodes
(`ByName`), the tailer only moves on in that order (`Onward`), and all it has
sent is of the open file's epoch or of an inode that no open can return any more
(`Behind`). Those two hypotheses are what the code needs; "Known limits" says
what happens without them.

*Log collectors* (`CollectorTypes`, `CollectorsUseTheFeed`,
`CollectorsCoverTheFeed`, `GaugesRight`, `CountsRight`). `FeedInv` adds to the
types that each position of a file holds one line and that what was sent comes
before what was not. The composition with the tailer has two halves.
`CollectorsUseTheFeed` says that no step of this specification is foreign to a
feed. `CollectorsCoverTheFeed` says that none of a feed's is missing: a step of
`LogFeed` that is not a receive, and leaves in the file whole lines of its
publisher, is a step here, for instances whose bounds on lines and restarts are
not used up; for growth that needs that a file of whole lines grows by whole
lines (`GrowsByLines`). With `TailerIsAFeed` the collectors meet what the tailer
does as long as no file is truncated. `GaugesRight` and `CountsRight` have no
hypothesis. For a gauge, the invariant says what it *will be* when the matches in
the channel have been taken (`Becomes`), and that this is the time of the last
line sent that sets it, in this file or in those before (`GaugeInv`, with
`before`), so that it survives a switch that loses the rest of a file. For a
counter, both sides of the property are sums over sets, which takes induction
over the lines: it is done in `BoundedSets`, stated of the subsets of a finite
set instead of a predicate. A line that matches two patterns of its feed is
counted once for each match, which is what `CountsEachMatchOnce` says and the
run `collectors_example` objects to; a bridge line that tells of a success and
of a provider's failure is classified as the failure alone, by the precedence in
`classifyBridge`.

*Binary* (`BinaryTypes`, `ReportsInTime`, `ResolvesInTime`, `AlertsConfirmed`).
The rules' promises are deadlines, so the invariant (`BinaryInv`) says by when
something will have happened:

- `ClockInv`, `WorldInv`, `WatchInv`: a tick that is due holds the clock; a gauge
  is never ahead of the file or the server it tells of; `since`, `truth` and
  `calm` are of what is so now;
- `FileInv`, `SentInv`, `OrderInv`: the log is in the order of its timestamps,
  the gauges follow it in that order, and no line waits longer than `Poll`,
  unless a file of the log is started again. They are stated over `told`, what
  the visor has written, of which the followed file may hold any part;
- `StatBy`, with which `AlertInv` and `CalmInv` say that a rule that began to hold,
  or a component that became normal, is met by a stat within an interval;
- `VisorInv`: of a release that is announced a HEAD tells within
  `(1 + headErrors) * Every`; `ChildInv`: a download that does not end is in the
  log since it began, and its start has reached the gauge within `Poll`.

`ReportsInTime` has no hypothesis. The other two assume `Every <= For`: the
interval is 60 s by default and the `for` of both rules is 1m, and with a longer
interval an alert may fire between two ticks with nobody having looked.
`AlertsConfirmed` assumes of the downloaded binaries that they can be read, as
a tick that cannot stat a file confirms nothing.

*Configuration* (`StartedForAReason`). `Load` resolves lists with folds, about
which a prover knows nothing. A fold from the left is characterised by position
(`IsFold`), shown to exist by induction on the length, stated of a set of
numbers, and identified with the operator of the community modules; then
`TargetsResolved` and `PatternsThere` say what `Load` makes of every environment.

*Slack* (`SlackInvariant`) and *exporter* (`ExporterTypes`,
`ExporterSlackInvariant`, `CleanExit`, `FailuresReal`). `AnswerInHand` says that an
answer not yet looked at was true at a moment of this tick; with it the count and
`slack_api_ok` are those of a moment of the last tick. Main and the server change
none of Slack's variables but the context, so the lemmas about Slack's steps
serve twice: what holds of the collectors alone holds inside the process.

## Only model-checked

Every safety invariant and action property of the passing runs is a theorem; the
hypotheses named above are all there are. What only TLC checks is

- liveness (`NewestReported`, `Stops`, `EverythingCounted`, `AllStop`, `TicksEnd`,
  `Returns`, `StopsInTime`): TLAPS does not reach fairness;
- that the fairness of the tailer gives that of the feed: `ImplementsFeed`,
  `CollectorsUseTheFeed` and `CollectorsCoverTheFeed` are about steps.

## Known limits of the code

What the models show the code not to do, and why no property asks for it:

- Lines written to a file after the last poll before a newer one appears are
  never read: `loop` switches without draining the old file
  (`logtail_poll.go:106-132`), while the comment above `Subscribe` (line 60)
  speaks of every line. `NewestReported` is of the newest file only.
- A write to an older file, also one that only makes its mtime that of the newest,
  makes the tailer go back and read from the start: lines are reported again and
  counted again. `logfs_os.go:10-12` says that any rotation scheme is handled;
  `SendsNeverTwice` has for that reason the hypothesis that only the newest file
  is written. The counters count those lines again, and the gauges of log time
  go back to what the older file says.
- A newer file without a line that sets a gauge leaves the value of the file
  before it, and one that was written and not read before the switch never
  reaches the gauge: `GaugesTellLogTime` is of the lines that were sent.
- A line with the prefix whose timestamp does not parse sets a gauge to the time
  it was read at (`logtail_poll.go:164`, 178-181), a new one whenever its file is
  read again: what R-025 was about remains for such lines.
- A file truncated and refilled past the offset between two polls is read on
  from the offset: sizes cannot tell.
- When systemd resets NRestarts, the restarts between the last poll and the
  reset, and those after it that the next poll finds, are lost: the mirror is
  rebased without counting (`service.go:105-108`). `NeverOvercounts` is one-sided
  for that reason.
- `last_scanned_block` is the maximum over the explorers. The comment at
  `bridge_state.go:105-108` says that only a stall of every explorer freezes it;
  a stall of the furthest one does, until the others have passed it. An explorer
  that leaves the file keeps its last value in the per-explorer series.
- A child whose `/proc/<pid>/stat` cannot be read or parsed is not counted, and
  no error is (`procs_proc.go:48-55`): `SteadyTickIsExact` then only says that
  the count is not too high.
- A channel with more than a page of messages in 24 hours never reports a count
  again (`slackapi_http.go:120`); the last good one stays.
- `slack_health.go` leaves the gauge at 0 without a token "so the alert fires",
  but main starts the collector only with one.
- A pattern that does not compile is dropped without a word, and an endpoint
  name given twice is probed twice. `--shutdown-timeout` is not validated
  (`config.go:191`): with 0, Shutdown gives up at once.
- The head of the tier-2 rules (line 16) says a download not finished for 60 s. The rule
  compares two gauges of different ages, and what holds is `AlertMeansMissed`: if
  it fires, a download was seen unfinished for about that long.
- The visor rule can fire for a moment about nothing: a release announced and
  installed right after a local tick is compared with the older file until the
  next one, and with `for` equal to the interval (1m and 60 s) that is as long
  as the rule waits. `ResolvedInTime` is stated after the tick.

## Not modelled

Metric names, labels and help texts, and the Prometheus client (no state of the
exporter's own); regular expressions, timestamps and their parsing (constants of
the models: `Hits`, `Stamped`, `at`); the flag package; the histograms of
durations and latencies (nothing reads them back); `Cache` in `base.go` (used by
nothing); `/healthz`; HTTP details below "answered, refused, timed out"; the
alert rules that compare one series with a constant, which Prometheus evaluates
and whose inputs the other properties are about; dashboards.

## Plan

What is left, in this order: the tailer and a log collector in one module
without the feed between them, with truncation (the feed excludes it); a
collector's life across a restart of the exporter, where counters begin at 0 and
every file is read again from its start.
