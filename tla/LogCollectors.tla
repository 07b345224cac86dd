---------------------------- MODULE LogCollectors ----------------------------
(***************************************************************************)
(* The log collectors of internal/collectors: vote_logs (two channels),    *)
(* outcome_logs, visor_log and download_logs.  Each is a goroutine that    *)
(* receives the matches of its feeds and turns them into counters and      *)
(* gauges.  They run on LogFeed, which the tailer implements: visor_log    *)
(* and download_logs follow the same directory with a tailer each.         *)
(*                                                                         *)
(* A line is what its classification can tell: the patterns it matches,    *)
(* the captured number, pair or component, and its timestamp, if it has    *)
(* one: without one its match bears the time at which it was read.         *)
(***************************************************************************)
EXTENDS LogFeed, FiniteSets, FiniteSetsExt, Functions

CONSTANTS
    Lines,      \* records [tags, votes, pair, comp, at]
    Publishes,  \* feed -> the lines its publisher writes
    MaxLines,   \* bound: lines per file
    MaxTotal,   \* bound: lines in all followed files
    MaxRestarts,\* bound: times a feed starts a file after its first
    Endless,    \* the feeds without that bound
    StartTime,  \* when the exporter started
    Clock,      \* the times at which lines are read
    Children    \* the components that may become label values

Patterns ==
    [bridge |-> <<"ok", "fail", "provider">>,
     oracle |-> <<"ok", "fail">>,
     outcome |-> <<"warn", "crit">>,
     visor |-> <<"restart", "crit">>,
     download |-> <<"download">>]

\* firstCapture1Int: a pattern without a capture group matches no number.
NoCapture == -1
\* ParseLineTimestamp finds no time where the line prefix matches.
NoStamp == -2

ASSUME LogCollectorsAssumption ==
    /\ Feeds \subseteq DOMAIN Patterns
    /\ \A f \in Feeds : Publishes[f] \subseteq Lines
    /\ \A l \in Lines : l.votes \in Nat \cup {NoCapture} /\ l.at \in Nat \cup {NoStamp}
    /\ \A f \in Feeds : \A l \in Publishes[f], k \in DOMAIN Patterns[f] :
          [line |-> l, pat |-> k] \in Matches
    /\ MaxLines \in Nat /\ MaxTotal \in Nat /\ MaxRestarts \in Nat \ {0} /\ StartTime \in Nat
    /\ Clock \in SUBSET Nat \ {{}} /\ Endless \in SUBSET Feeds

Collector == [bridge |-> "vote_logs", oracle |-> "vote_logs",
              outcome |-> "outcome_logs", visor |-> "visor_log",
              download |-> "download_logs"]
Collectors == {Collector[f] : f \in Feeds}

\* The series, each under the label that tells its lines apart.
Series ==
    ({"vote_ok", "vote_fail"} \X (Feeds \cap {"bridge", "oracle"}))
    \cup ({"provider_fail"} \X (Feeds \cap {"bridge"}))
    \cup ({"warn", "crit"} \X (Feeds \cap {"outcome"}))
    \cup ({"visor_crit"} \X (Feeds \cap {"visor"}))
    \cup (IF "visor" \in Feeds THEN {"child_restart"} \X Children ELSE {})
Gauges ==
    ({"last_ok"} \X (Feeds \cap {"bridge", "oracle"}))
    \cup (IF "download" \in Feeds THEN {"download_started"} \X Children ELSE {})

VARIABLES
    open,       \* feed -> the collector's channel variable is not nil
    done,       \* collector -> Start has returned
    count,      \* series -> value
    gauge,      \* gauge -> value
    restarts,   \* history: feed -> times it started a file after its first
    before      \* history: gauge -> the time in the log of the last line to
                \* set it, of those sent before the followed file was started

collectorVars == <<open, done, count, gauge>>
history == <<restarts, before>>
vars == <<feedVars, collectorVars, history>>

\* NoValue: a gauge vector has no series before the first Set.
NoValue == -1

Unset == [g \in Gauges |-> IF g[1] = "last_ok" THEN StartTime ELSE NoValue]

Init ==
    /\ FeedInit
    /\ open = [f \in Feeds |-> TRUE]
    /\ done = [c \in Collectors |-> FALSE]
    /\ count = [s \in Series |-> 0]
    /\ gauge = Unset
    /\ restarts = [f \in Feeds |-> 0]
    /\ before = Unset

-----------------------------------------------------------------------------
(* What the series mean (contracts/metrics.md).                            *)

FeedOf(s) == IF s[1] = "child_restart" THEN "visor"
             ELSE IF s[1] = "download_started" THEN "download" ELSE s[2]

\* The provider pattern's name and status were both captured.
Provided(l) == "provider" \in l.tags /\ l.pair

\* The ok pattern of the bridge captured a number.
Tallied(l) == ~Provided(l) /\ "ok" \in l.tags /\ l.votes # NoCapture

\* What a line of the log is worth to a series.
Worth(s, l) ==
    LET One(b) == IF b THEN 1 ELSE 0
    IN  CASE s = <<"vote_ok", "bridge">> -> IF Tallied(l) THEN l.votes ELSE 0
          [] s = <<"vote_fail", "bridge">> ->
                 One("fail" \in l.tags /\ ~Provided(l) /\ ~Tallied(l))
          [] s[1] = "provider_fail" -> One(Provided(l))
          [] s = <<"vote_ok", "oracle">> -> One("ok" \in l.tags)
          [] s = <<"vote_fail", "oracle">> -> One("fail" \in l.tags /\ "ok" \notin l.tags)
          [] s[1] = "crit" -> One("crit" \in l.tags)
          [] s[1] = "warn" -> One("warn" \in l.tags /\ "crit" \notin l.tags)
          [] s[1] = "visor_crit" -> One("crit" \in l.tags /\ "restart" \notin l.tags)
          [] s[1] = "child_restart" -> One("restart" \in l.tags /\ l.comp = s[2])

\* A line that sets a gauge.
Sets(g, l) ==
    IF g[1] = "last_ok" THEN Worth(<<"vote_ok", FeedOf(g)>>, l) > 0 ELSE l.comp = g[2]

\* The positions in a file of the lines that set a gauge.
Setting(g, file) == {d[1] : d \in {e \in file : Sets(g, e[2].line)}}

LineAt(file, p) == (CHOOSE d \in file : d[1] = p)[2].line

\* The time of the last line of a file to set a gauge, or else what it was.
Says(g, file) ==
    IF Setting(g, file) = {} THEN before[g] ELSE LineAt(file, Max(Setting(g, file))).at

-----------------------------------------------------------------------------
(* The publisher's lines and the tailer's read position.                   *)

Positions(f) == {d[1] : d \in due[f]}

\* One match per pattern of the feed that matches the line.
Hits(f, l) == {k \in DOMAIN Patterns[f] : Patterns[f][k] \in l.tags}
LineIn(f, p, l) == {<<p, [line |-> l, pat |-> k]>> : k \in Hits(f, l)}
FileOf(f, lines) == UNION {LineIn(f, p, lines[p]) : p \in DOMAIN lines}

Fits(f, file) ==
    MapThenSumSet(LAMBDA g : Cardinality(Positions(g)), Feeds \ {f})
        + Cardinality({d[1] : d \in file}) <= MaxTotal

\* Lines come after those the file has; one that matches nothing takes a
\* position too.
Publish(f, lines) ==
    /\ \A p \in DOMAIN lines, n \in Positions(f) : n < p
    /\ Fits(f, due[f] \cup FileOf(f, lines))
    /\ due' = [due EXCEPT ![f] = @ \cup FileOf(f, lines)]
    /\ UNCHANGED <<given, out, closed, cancelled, collectorVars, history>>

\* A file is started: the followed one again, a newer one (the lines that
\* were not read are lost), or an older one that was written late.
StartFile(f, lines) ==
    /\ restarts[f] < MaxRestarts \/ f \in Endless
    /\ ~closed[f]
    /\ Fits(f, FileOf(f, lines))
    /\ due' = [due EXCEPT ![f] = FileOf(f, lines)]
    /\ given' = [given EXCEPT ![f] = {}]
    /\ restarts' = [restarts EXCEPT ![f] = IF @ < MaxRestarts THEN @ + 1 ELSE @]
    /\ before' = [g \in Gauges |->
                     IF FeedOf(g) = f THEN Says(g, given[f]) ELSE before[g]]
    /\ UNCHANGED <<out, closed, cancelled, collectorVars>>

\* What a publisher may write, in one file.
Texts(f) == UNION {[P -> Publishes[f]] : P \in SUBSET (1 .. MaxLines)}

-----------------------------------------------------------------------------
(* Classification: what one match, received with a time, does to the       *)
(* series.                                                                 *)

Add(s, n) == count' = [count EXCEPT ![s] = @ + n]
Set(g, v) == gauge' = [gauge EXCEPT ![g] = v]

\* Mutant of ClassifyBridge: one vote per scanned line (before R-024).
ClassifyBridgeByOne(l, t) ==
    IF Tallied(l)
    THEN Add(<<"vote_ok", "bridge">>, 1) /\ Set(<<"last_ok", "bridge">>, t)
    ELSE /\ IF Provided(l) THEN Add(<<"provider_fail", "bridge">>, 1)
            ELSE IF "fail" \in l.tags THEN Add(<<"vote_fail", "bridge">>, 1)
            ELSE UNCHANGED count
         /\ UNCHANGED gauge

\* Mutant of ClassifyBridge: the number is added unchecked, captured or not.
ClassifyBridgeUnchecked(l, t) ==
    Add(<<"vote_ok", "bridge">>, l.votes) /\ UNCHANGED gauge

ClassifyBridge(l, t) ==
    \/ /\ "provider" \in l.tags /\ l.pair
       /\ Add(<<"provider_fail", "bridge">>, 1)
       /\ UNCHANGED gauge
    \/ /\ ~("provider" \in l.tags /\ l.pair)
       /\ "ok" \in l.tags /\ l.votes # NoCapture
       /\ IF l.votes > 0
          THEN /\ Add(<<"vote_ok", "bridge">>, l.votes)
               /\ Set(<<"last_ok", "bridge">>, t)
          ELSE UNCHANGED <<count, gauge>>
    \/ /\ ~("provider" \in l.tags /\ l.pair)
       /\ ~("ok" \in l.tags /\ l.votes # NoCapture)
       /\ IF "fail" \in l.tags
          THEN Add(<<"vote_fail", "bridge">>, 1)
          ELSE UNCHANGED count
       /\ UNCHANGED gauge

ClassifyOracle(l, t) ==
    \/ /\ "ok" \in l.tags
       /\ Add(<<"vote_ok", "oracle">>, 1)
       /\ Set(<<"last_ok", "oracle">>, t)
    \/ /\ "ok" \notin l.tags
       /\ IF "fail" \in l.tags
          THEN Add(<<"vote_fail", "oracle">>, 1)
          ELSE UNCHANGED count
       /\ UNCHANGED gauge

ClassifyOutcome(l) ==
    /\ IF "crit" \in l.tags THEN Add(<<"crit", "outcome">>, 1)
       ELSE IF "warn" \in l.tags THEN Add(<<"warn", "outcome">>, 1)
       ELSE UNCHANGED count
    /\ UNCHANGED gauge

ClassifyVisor(l) ==
    /\ \/ /\ "restart" \in l.tags /\ l.comp \in Children
          /\ Add(<<"child_restart", l.comp>>, 1)
       \/ /\ "restart" \in l.tags /\ l.comp \notin Children
          /\ UNCHANGED count
       \/ /\ "restart" \notin l.tags
          /\ IF "crit" \in l.tags THEN Add(<<"visor_crit", "visor">>, 1) ELSE UNCHANGED count
    /\ UNCHANGED gauge

\* Mutant of ClassifyDownload: the time it is read at (before R-025).
ClassifyDownloadNow(l, t) ==
    /\ IF l.comp \in Children
       THEN \E now \in Clock : Set(<<"download_started", l.comp>>, now)
       ELSE UNCHANGED gauge
    /\ UNCHANGED count

ClassifyDownload(l, t) ==
    /\ IF l.comp \in Children
       THEN Set(<<"download_started", l.comp>>, t)
       ELSE UNCHANGED gauge
    /\ UNCHANGED count

Classify(f, l, t) ==
    CASE f = "bridge" -> ClassifyBridge(l, t)
      [] f = "oracle" -> ClassifyOracle(l, t)
      [] f = "outcome" -> ClassifyOutcome(l)
      [] f = "visor" -> ClassifyVisor(l)
      [] f = "download" -> ClassifyDownload(l, t)

-----------------------------------------------------------------------------
(* The receive loops.                                                      *)

\* The time of a match: its line's, or the clock when its line was read.
TimesOf(at) == IF at = NoStamp THEN Clock ELSE {at}

\* Mutant of Take: the bridge's channel first, not both in one select.
TakeInTurn(f) ==
    /\ ~done[Collector[f]] /\ open[f]
    /\ f = "oracle" => out["bridge"] = <<>>
    /\ Receive(f)
    /\ \E t \in TimesOf(Head(out[f]).line.at) : Classify(f, Head(out[f]).line, t)
    /\ UNCHANGED <<open, done, history>>

Take(f) ==
    /\ ~done[Collector[f]] /\ open[f]
    /\ Receive(f)
    /\ \E t \in TimesOf(Head(out[f]).line.at) : Classify(f, Head(out[f]).line, t)
    /\ UNCHANGED <<open, done, history>>

\* A closed channel is drained before it reads as closed; vote_logs then
\* stops selecting it and returns when the other one is closed too.
SeeClosed(f) ==
    /\ ~done[Collector[f]] /\ open[f]
    /\ closed[f] /\ out[f] = <<>>
    /\ open' = [open EXCEPT ![f] = FALSE]
    /\ done' = [done EXCEPT ![Collector[f]] =
          \A g \in Feeds : Collector[g] = Collector[f] => ~open'[g]]
    /\ UNCHANGED <<feedVars, count, gauge, history>>

\* select takes any ready case: ctx.Done may win over a waiting match.
SeeDone(c) ==
    /\ ~done[c]
    /\ cancelled
    /\ done' = [done EXCEPT ![c] = TRUE]
    /\ UNCHANGED <<feedVars, open, count, gauge, history>>

Send(f) == Deliver(f) /\ UNCHANGED <<collectorVars, history>>
End(f) == Close(f) /\ UNCHANGED <<collectorVars, history>>

Step(c) ==
    \/ SeeDone(c)
    \/ \E f \in Feeds : Collector[f] = c /\ (Take(f) \/ SeeClosed(f))

Stop == Cancel /\ UNCHANGED <<collectorVars, history>>

Next ==
    \/ Stop
    \/ \E c \in Collectors : Step(c)
    \/ \E f \in Feeds :
          \/ Send(f) \/ End(f)
          \/ \E lines \in Texts(f) : Publish(f, lines) \/ StartFile(f, lines)

Spec == Init /\ [][Next]_vars

\* Every goroutine runs; select takes a case that stays ready some time.
Fairness ==
    /\ \A f \in Feeds : WF_vars(Send(f)) /\ WF_vars(End(f)) /\ WF_vars(Take(f))
    /\ \A c \in Collectors : WF_vars(Step(c))

FairSpec == Spec /\ Fairness
-----------------------------------------------------------------------------
(* That the series mean what they should.                                  *)

TypeOK ==
    /\ due \in [Feeds -> SUBSET ((1 .. MaxLines) \X Matches)]
    /\ given \in [Feeds -> SUBSET ((1 .. MaxLines) \X Matches)]
    /\ out \in [Feeds -> Seq(Matches)]
    /\ closed \in [Feeds -> BOOLEAN] /\ open \in [Feeds -> BOOLEAN]
    /\ cancelled \in BOOLEAN /\ done \in [Collectors -> BOOLEAN]
    /\ count \in [Series -> Nat]
    /\ gauge \in [Gauges -> Int]
    /\ restarts \in [Feeds -> 0 .. MaxRestarts]
    /\ before \in [Gauges -> Int]

(***************************************************************************)
(* Until a feed starts another file, or its own again, a counter and the   *)
(* matches still in the channel add up to what the reported matches are    *)
(* worth: each is counted once, under one series, with its number, also    *)
(* when its line fits several patterns or lacks a capture.                 *)
(***************************************************************************)
CountsEachMatchOnce ==
    \A s \in Series :
        LET f == FeedOf(s)
            waiting == [k \in DOMAIN out[f] |-> Worth(s, out[f][k].line)]
            reported == [d \in given[f] |-> Worth(s, d[2].line)]
        IN  restarts[f] = 0 => count[s] + SumFunction(waiting) = SumFunction(reported)

(***************************************************************************)
(* R-024: classifyBridge's comment says "We Add(N) per scan tick", so the  *)
(* votes counted are at most those of the scanned lines that were reported *)
(* (with each line read once).                                             *)
(***************************************************************************)
VotesAddedOnce ==
    ("bridge" \in Feeds /\ restarts["bridge"] = 0) =>
        count[<<"vote_ok", "bridge">>]
            <= SumFunction([p \in {d[1] : d \in given["bridge"]} |->
                               Worth(<<"vote_ok", "bridge">>, LineAt(given["bridge"], p))])

Settled(f) == given[f] = due[f] /\ out[f] = <<>>

(***************************************************************************)
(* R-025: when a feed has nothing left to say, last_vote_success_unix and  *)
(* download_started_unix are the time in the log of the last line that     *)
(* sets them, not the time it was read at; with none in the followed file, *)
(* of the last such line sent of the files before it.  A file read again,  *)
(* or an older one, sets them back.  Only a line without a timestamp sets  *)
(* them to the time it was read at.                                        *)
(***************************************************************************)
GaugesTellLogTime ==
    \A g \in Gauges :
        LET f == FeedOf(g)
        IN  Settled(f) => gauge[g] \in TimesOf(Says(g, due[f]))

(***************************************************************************)
(* Unless the exporter is stopped or the feed starts files for ever, every *)
(* line of the file it follows last reaches its series, also when the      *)
(* other channel of the same collector is never empty for good.            *)
(***************************************************************************)
EverythingCounted ==
    \A f \in Feeds :
        \/ <>[](cancelled \/ Settled(f))
        \/ []<><<\E lines \in Texts(f) : StartFile(f, lines)>>_vars

(***************************************************************************)
(* After the context is cancelled every tailer closes its channel, however *)
(* full it is, and every collector returns.                                *)
(***************************************************************************)
AllStop ==
    cancelled ~> ((\A f \in Feeds : closed[f]) /\ (\A c \in Collectors : done[c]))
=============================================================================
