---------------------------- MODULE CollectorProofs ----------------------------
(***************************************************************************)
(* What holds of the log collectors for every log, capacity and number of  *)
(* feeds, lines and files: their types, that they fit the feed the tailer  *)
(* implements, what their gauges and counters say.  And what the two       *)
(* alerts of the binary collector promise, for every interval, delay and   *)
(* "for", and every instant at which files, releases and downloads change. *)
(***************************************************************************)
EXTENDS Binary, TLAPS, BoundedSets, SequenceTheorems

-----------------------------------------------------------------------------
(* What one match does to the series.                                      *)

\* The shape of the series and of the gauges.
LEMMA SeriesAre ==
    ASSUME NEW s \in Series
    PROVE  \/ s = <<"vote_ok", "bridge">> /\ "bridge" \in Feeds
           \/ s = <<"vote_ok", "oracle">> /\ "oracle" \in Feeds
           \/ s = <<"vote_fail", "bridge">> /\ "bridge" \in Feeds
           \/ s = <<"vote_fail", "oracle">> /\ "oracle" \in Feeds
           \/ s = <<"provider_fail", "bridge">> /\ "bridge" \in Feeds
           \/ s = <<"warn", "outcome">> /\ "outcome" \in Feeds
           \/ s = <<"crit", "outcome">> /\ "outcome" \in Feeds
           \/ s = <<"visor_crit", "visor">> /\ "visor" \in Feeds
           \/ \E c \in Children : s = <<"child_restart", c>> /\ "visor" \in Feeds
BY DEF Series

\* The gauges there are.
LEMMA GaugesAre ==
    ASSUME NEW g \in Gauges
    PROVE  \/ g = <<"last_ok", "bridge">> /\ "bridge" \in Feeds
           \/ g = <<"last_ok", "oracle">> /\ "oracle" \in Feeds
           \/ \E c \in Children : g = <<"download_started", c>> /\ "download" \in Feeds
BY DEF Gauges

\* Every series and every gauge has its feed.
LEMMA Fed ==
    /\ \A s \in Series : FeedOf(s) \in Feeds
    /\ \A g \in Gauges : FeedOf(g) \in Feeds
<1>1. ASSUME NEW s \in Series PROVE FeedOf(s) \in Feeds
  BY SeriesAre DEF FeedOf
<1>2. ASSUME NEW g \in Gauges PROVE FeedOf(g) \in Feeds
  BY GaugesAre DEF FeedOf
<1> QED
  BY <1>1, <1>2

\* The feeds there may be.
LEMMA FeedIs ==
    ASSUME NEW f \in Feeds
    PROVE  f \in {"bridge", "oracle", "outcome", "visor", "download"}
BY LogCollectorsAssumption DEF LogCollectorsAssumption, Patterns

\* A line has a number or none, and is read at a time.
LEMMA TimesAre ==
    ASSUME NEW f \in Feeds, NEW l \in Publishes[f]
    PROVE  /\ l.votes \in Nat \cup {NoCapture} /\ l.at \in Int
           /\ TimesOf(l.at) \in SUBSET Int
BY LogCollectorsAssumption DEF LogCollectorsAssumption, TimesOf, NoStamp

\* It moves the series to values of their types.
LEMMA ClassifyTyped ==
    ASSUME count \in [Series -> Nat], gauge \in [Gauges -> Int],
           NEW f \in Feeds, NEW l \in Publishes[f],
           NEW t \in TimesOf(l.at), Classify(f, l, t)
    PROVE  count' \in [Series -> Nat] /\ gauge' \in [Gauges -> Int]
<1>1. l.votes \in Nat \cup {NoCapture} /\ t \in Int
  BY TimesAre
<1> USE <1>1 DEF Add, Set, NoCapture
<1>2. CASE f = "bridge"
  <2>1. ClassifyBridge(l, t)
    BY <1>2 DEF Classify
  <2> QED
    BY <2>1 DEF ClassifyBridge
<1>3. CASE f = "oracle"
  <2>1. ClassifyOracle(l, t)
    BY <1>3 DEF Classify
  <2> QED
    BY <2>1 DEF ClassifyOracle
<1>4. CASE f = "outcome"
  <2>1. ClassifyOutcome(l)
    BY <1>4 DEF Classify
  <2> QED
    BY <2>1 DEF ClassifyOutcome
<1>5. CASE f = "visor"
  <2>1. ClassifyVisor(l)
    BY <1>5 DEF Classify
  <2> QED
    BY <2>1 DEF ClassifyVisor
<1>6. CASE f = "download"
  <2>1. ClassifyDownload(l, t)
    BY <1>6 DEF Classify
  <2> QED
    BY <2>1 DEF ClassifyDownload
<1> QED
  BY <1>2, <1>3, <1>4, <1>5, <1>6, FeedIs

\* It sets the gauges its line is about to the match's time, and no other.
LEMMA ClassifySets ==
    ASSUME gauge \in [Gauges -> Int],
           NEW f \in Feeds, NEW l \in Publishes[f],
           NEW t \in TimesOf(l.at), Classify(f, l, t),
           NEW g \in Gauges
    PROVE  gauge'[g] = IF FeedOf(g) = f /\ Sets(g, l) THEN t ELSE gauge[g]
<1>1. l.votes \in Nat \cup {NoCapture} /\ t \in Int
  BY TimesAre
<1> USE <1>1 DEF Add, Set, NoCapture, FeedOf
<1>2. CASE f = "bridge"
  <2>1. ClassifyBridge(l, t)
    BY <1>2 DEF Classify
  <2> QED
    BY <1>2, <2>1, GaugesAre DEF ClassifyBridge, Sets, Worth, Tallied, Provided
<1>3. CASE f = "oracle"
  <2>1. ClassifyOracle(l, t)
    BY <1>3 DEF Classify
  <2> QED
    BY <1>3, <2>1, GaugesAre DEF ClassifyOracle, Sets, Worth
<1>4. CASE f = "outcome"
  <2>1. ClassifyOutcome(l)
    BY <1>4 DEF Classify
  <2> QED
    BY <1>4, <2>1, GaugesAre DEF ClassifyOutcome
<1>5. CASE f = "visor"
  <2>1. ClassifyVisor(l)
    BY <1>5 DEF Classify
  <2> QED
    BY <1>5, <2>1, GaugesAre DEF ClassifyVisor
<1>6. CASE f = "download"
  <2>1. ClassifyDownload(l, t)
    BY <1>6 DEF Classify
  <2> QED
    BY <1>6, <2>1, GaugesAre DEF ClassifyDownload, Sets
<1> QED
  BY <1>2, <1>3, <1>4, <1>5, <1>6, FeedIs

\* What a line is worth is a number.
LEMMA WorthIsNat ==
    ASSUME NEW s \in Series, NEW l, l.votes \in Nat \cup {NoCapture}
    PROVE  Worth(s, l) \in Nat
BY SeriesAre DEF Worth, Tallied, NoCapture

\* It adds to each series of its feed what its line is worth to it.
LEMMA ClassifyWorth ==
    ASSUME count \in [Series -> Nat],
           NEW f \in Feeds, NEW l \in Publishes[f], NEW t, Classify(f, l, t),
           NEW s \in Series
    PROVE  count'[s] = count[s] + IF FeedOf(s) = f THEN Worth(s, l) ELSE 0
<1>1. l.votes \in Nat \cup {NoCapture}
  BY TimesAre
<1> USE <1>1 DEF Add, NoCapture, FeedOf
<1>2. CASE f = "bridge"
  <2>1. ClassifyBridge(l, t)
    BY <1>2 DEF Classify
  <2> QED
    BY <1>2, <2>1, SeriesAre DEF ClassifyBridge, Worth, Tallied, Provided
<1>3. CASE f = "oracle"
  <2>1. ClassifyOracle(l, t)
    BY <1>3 DEF Classify
  <2> QED
    BY <1>3, <2>1, SeriesAre DEF ClassifyOracle, Worth
<1>4. CASE f = "outcome"
  <2>1. ClassifyOutcome(l)
    BY <1>4 DEF Classify
  <2> QED
    BY <1>4, <2>1, SeriesAre DEF ClassifyOutcome, Worth
<1>5. CASE f = "visor"
  <2>1. ClassifyVisor(l)
    BY <1>5 DEF Classify
  <2> QED
    BY <1>5, <2>1, SeriesAre DEF ClassifyVisor, Worth
<1>6. CASE f = "download"
  <2>1. ClassifyDownload(l, t)
    BY <1>6 DEF Classify
  <2> QED
    BY <1>6, <2>1, SeriesAre DEF ClassifyDownload
<1> QED
  BY <1>2, <1>3, <1>4, <1>5, <1>6, FeedIs

-----------------------------------------------------------------------------
(* The files, and what is sent of them.                                    *)

\* Each position of a file holds one line of the publisher's.
FileOK(f) ==
    /\ \A d \in due[f] : d[2].line \in Publishes[f]
    /\ \A d, e \in due[f] : d[1] = e[1] => d[2].line = e[2].line

\* What is sent comes before what is not.
SentOK(f) ==
    /\ given[f] \subseteq due[f] /\ IsFiniteSet(given[f])
    /\ \A d \in given[f], e \in due[f] \ given[f] : d[1] <= e[1]
    /\ \A k \in DOMAIN out[f] : out[f][k].line \in Publishes[f]

FeedInv == TypeOK /\ \A f \in Feeds : FileOK(f) /\ SentOK(f)

\* Where the gauges start.
LEMMA UnsetTyped == Unset \in [Gauges -> Int]
BY LogCollectorsAssumption DEF LogCollectorsAssumption, Unset, NoValue

\* An empty file, of which nothing is sent.
LEMMA FeedInitInv == Init => FeedInv
<1> SUFFICES ASSUME Init PROVE FeedInv
  OBVIOUS
<1>1. /\ due = [f \in Feeds |-> {}] /\ given = [f \in Feeds |-> {}]
      /\ out = [f \in Feeds |-> <<>>]
  BY DEF Init, FeedInit
<1>2. closed \in [Feeds -> BOOLEAN] /\ open \in [Feeds -> BOOLEAN] /\ cancelled \in BOOLEAN
      /\ done \in [Collectors -> BOOLEAN]
  <2>1. closed \in [Feeds -> BOOLEAN]
    BY Zenon DEF Init, FeedInit
  <2>2. open \in [Feeds -> BOOLEAN]
    BY Zenon DEF Init
  <2>3. cancelled \in BOOLEAN
    BY Zenon DEF Init, FeedInit
  <2>4. done \in [Collectors -> BOOLEAN]
    BY Zenon DEF Init
  <2> QED
    BY <2>1, <2>2, <2>3, <2>4
<1>3. /\ count \in [Series -> Nat] /\ gauge \in [Gauges -> Int] /\ before \in [Gauges -> Int]
      /\ restarts \in [Feeds -> 0 .. MaxRestarts]
  BY UnsetTyped, LogCollectorsAssumption DEF LogCollectorsAssumption, Init
<1>4. TypeOK
  BY <1>1, <1>2, <1>3 DEF TypeOK
<1>5. ASSUME NEW f \in Feeds PROVE FileOK(f) /\ SentOK(f)
  <2>1. due[f] = {} /\ given[f] = {} /\ out[f] = <<>>
    BY <1>1
  <2> QED
    BY <2>1, FS_EmptySet DEF FileOK, SentOK
<1> QED
  BY <1>4, <1>5 DEF FeedInv

\* What a publisher writes makes a file of whole lines.
LEMMA FileOfIs ==
    ASSUME NEW f \in Feeds, NEW lines \in Texts(f)
    PROVE  /\ DOMAIN lines \in SUBSET (1 .. MaxLines)
           /\ \A p \in DOMAIN lines : lines[p] \in Publishes[f]
           /\ FileOf(f, lines) \in SUBSET ((1 .. MaxLines) \X Matches)
           /\ \A d \in FileOf(f, lines) :
                 d[1] \in DOMAIN lines /\ d[2].line = lines[d[1]] /\ d[2].line \in Publishes[f]
<1>1. PICK P \in SUBSET (1 .. MaxLines) : lines \in [P -> Publishes[f]]
  BY DEF Texts
<1>2. DOMAIN lines = P /\ \A p \in P : lines[p] \in Publishes[f]
  BY <1>1
<1>3. ASSUME NEW d \in FileOf(f, lines)
      PROVE  /\ d \in (1 .. MaxLines) \X Matches
             /\ d[1] \in P /\ d[2].line = lines[d[1]] /\ d[2].line \in Publishes[f]
  <2>1. PICK p \in P : \E k \in Hits(f, lines[p]) : d = <<p, [line |-> lines[p], pat |-> k]>>
    BY <1>2 DEF FileOf, LineIn
  <2>k. PICK k \in Hits(f, lines[p]) : d = <<p, [line |-> lines[p], pat |-> k]>>
    BY <2>1
  <2>2. lines[p] \in Publishes[f] /\ k \in DOMAIN Patterns[f]
    BY <1>2 DEF Hits
  <2>3. [line |-> lines[p], pat |-> k] \in Matches
    BY <2>2, LogCollectorsAssumption DEF LogCollectorsAssumption
  <2>4. [line |-> lines[p], pat |-> k].line = lines[p]
    OBVIOUS
  <2> QED
    BY <2>k, <2>2, <2>3, <2>4
<1> QED
  BY <1>2, <1>3

\* New lines come after those the file has.
LEMMA Published ==
    ASSUME FeedInv, NEW f \in Feeds, NEW lines \in Texts(f), Publish(f, lines)
    PROVE  /\ due' = [due EXCEPT ![f] = @ \cup FileOf(f, lines)]
           /\ due'[f] = due[f] \cup FileOf(f, lines)
           /\ \A d \in due[f], e \in FileOf(f, lines) : d[1] < e[1]
<1>1. /\ due' = [due EXCEPT ![f] = @ \cup FileOf(f, lines)]
      /\ \A p \in DOMAIN lines, n \in Positions(f) : n < p
  BY DEF Publish
<1>2. due'[f] = due[f] \cup FileOf(f, lines)
  BY <1>1 DEF FeedInv, TypeOK
<1>3. \A d \in due[f] : d[1] \in Positions(f)
  BY DEF Positions
<1> QED
  BY <1>1, <1>2, <1>3, FileOfIs

\* A feed of which only the file moves.
LEMMA OtherFeeds ==
    ASSUME FeedInv, NEW h \in Feeds,
           due'[h] = due[h], given'[h] = given[h], out'[h] = out[h]
    PROVE  FileOK(h)' /\ SentOK(h)'
BY DEF FeedInv, FileOK, SentOK

\* New lines keep one line for each position.
LEMMA PublishInv ==
    ASSUME FeedInv, NEW f \in Feeds, NEW lines \in Texts(f), Publish(f, lines)
    PROVE  FeedInv'
<1> DEFINE F == FileOf(f, lines)
<1>1. /\ due' = [due EXCEPT ![f] = @ \cup F]
      /\ due'[f] = due[f] \cup F
      /\ \A d \in due[f], e \in F : d[1] < e[1]
  BY Published
<1>2. UNCHANGED <<given, out, closed, cancelled, collectorVars, history>>
  BY DEF Publish
<1>3. /\ F \in SUBSET ((1 .. MaxLines) \X Matches)
      /\ \A d \in F : d[2].line = lines[d[1]] /\ d[2].line \in Publishes[f]
  BY FileOfIs
<1>4. /\ due \in [Feeds -> SUBSET ((1 .. MaxLines) \X Matches)] /\ MaxLines \in Nat
      /\ \A d, e \in due[f] : d[1] = e[1] => d[2].line = e[2].line
      /\ \A d \in due[f] : d[2].line \in Publishes[f]
      /\ \A d \in due[f] : d[1] \in 1 .. MaxLines
  BY LogCollectorsAssumption DEF LogCollectorsAssumption, FeedInv, TypeOK, FileOK
<1> HIDE DEF F
<1>5. due' \in [Feeds -> SUBSET ((1 .. MaxLines) \X Matches)]
  BY <1>1, <1>3, <1>4
<1>6. TypeOK'
  BY <1>2, <1>5 DEF FeedInv, TypeOK, collectorVars, history
<1>7. FileOK(f)'
  <2>1. \A d \in F : d[1] \in 1 .. MaxLines
    BY <1>3
  <2>2. ASSUME NEW d \in due[f], NEW e \in F PROVE d[1] # e[1]
    BY <1>1, <1>4, <2>1
  <2>3. \A d, e \in due'[f] : d[1] = e[1] => d[2].line = e[2].line
    BY <1>1, <1>3, <1>4, <2>2
  <2>4. \A d \in due'[f] : d[2].line \in Publishes[f]
    BY <1>1, <1>3, <1>4
  <2> QED
    BY <2>3, <2>4 DEF FileOK
<1>8. SentOK(f)'
  <2>1. /\ given[f] \subseteq due[f] /\ IsFiniteSet(given[f])
        /\ \A d \in given[f], e \in due[f] \ given[f] : d[1] <= e[1]
        /\ \A k \in DOMAIN out[f] : out[f][k].line \in Publishes[f]
    BY DEF FeedInv, SentOK
  <2>2. \A d \in given[f], e \in F : d[1] <= e[1]
    <3> SUFFICES ASSUME NEW d \in given[f], NEW e \in F PROVE d[1] <= e[1]
      OBVIOUS
    <3>1. d[1] < e[1] /\ d[1] \in 1 .. MaxLines /\ e[1] \in 1 .. MaxLines
      BY <1>1, <1>3, <1>4, <2>1
    <3> QED
      BY <3>1
  <2>3. \A d \in given[f], e \in due'[f] \ given[f] : d[1] <= e[1]
    BY <1>1, <2>1, <2>2
  <2> QED
    BY <1>1, <1>2, <2>1, <2>3 DEF SentOK
<1>9. ASSUME NEW h \in Feeds PROVE FileOK(h)' /\ SentOK(h)'
  <2>1. CASE h # f
    <3>1. due'[h] = due[h] /\ given'[h] = given[h] /\ out'[h] = out[h]
      BY <1>1, <1>2, <1>4, <2>1
    <3> QED
      BY <3>1, OtherFeeds
  <2> QED
    BY <1>7, <1>8, <2>1
<1> QED
  BY <1>6, <1>9 DEF FeedInv

\* The earliest match that is not yet sent is sent.
LEMMA Delivered ==
    ASSUME FeedInv, NEW f \in Feeds, Deliver(f)
    PROVE  \E d \in due[f] \ given[f] :
              /\ \A e \in due[f] \ given[f] : d[1] <= e[1]
              /\ given' = [given EXCEPT ![f] = @ \cup {d}]
              /\ out' = [out EXCEPT ![f] = Append(@, d[2])]
              /\ d \in (1 .. MaxLines) \X Matches
<1>1. PICK d \in due[f] \ given[f] :
        /\ \A e \in due[f] \ given[f] : e = d \/ Sooner(d, e)
        /\ given' = [given EXCEPT ![f] = @ \cup {d}]
        /\ out' = [out EXCEPT ![f] = Append(@, d[2])]
  BY DEF Deliver
<1>2. due[f] \in SUBSET ((1 .. MaxLines) \X Matches)
  BY DEF FeedInv, TypeOK
<1>3. \A e \in due[f] : e \in (1 .. MaxLines) \X Matches /\ e[1] \in 1 .. MaxLines
  BY <1>2
<1>4. ASSUME NEW e \in due[f] \ given[f] PROVE d[1] <= e[1]
  <2>1. d[1] \in 1 .. MaxLines /\ e[1] \in 1 .. MaxLines
    BY <1>3
  <2>2. e = d \/ d[1] < e[1] \/ d[1] = e[1]
    BY <1>1 DEF Sooner
  <2> QED
    BY <2>1, <2>2
<1> QED
  BY <1>1, <1>3, <1>4

\* What is sent next comes before what is not.
LEMMA DeliverInv ==
    ASSUME FeedInv, NEW f \in Feeds, Deliver(f), UNCHANGED <<collectorVars, history>>
    PROVE  FeedInv'
<1>1. PICK d \in due[f] \ given[f] :
        /\ \A e \in due[f] \ given[f] : d[1] <= e[1]
        /\ given' = [given EXCEPT ![f] = @ \cup {d}]
        /\ out' = [out EXCEPT ![f] = Append(@, d[2])]
        /\ d \in (1 .. MaxLines) \X Matches
  BY Delivered
<1>2. UNCHANGED <<due, closed, cancelled, collectorVars, history>>
  BY DEF Deliver
<1>3. /\ given \in [Feeds -> SUBSET ((1 .. MaxLines) \X Matches)]
      /\ out \in [Feeds -> Seq(Matches)]
  BY DEF FeedInv, TypeOK
<1>4. TypeOK'
  <2>1. given' \in [Feeds -> SUBSET ((1 .. MaxLines) \X Matches)]
    BY <1>1, <1>3
  <2>2. out' \in [Feeds -> Seq(Matches)]
    BY <1>1, <1>3, d[2] \in Matches
  <2> QED
    BY <1>2, <2>1, <2>2 DEF FeedInv, TypeOK, collectorVars, history
<1>5. ASSUME NEW h \in Feeds PROVE FileOK(h)'
  BY <1>2 DEF FeedInv, FileOK
<1>6. SentOK(f)'
  <2>1. /\ given[f] \subseteq due[f] /\ IsFiniteSet(given[f])
        /\ \A x \in given[f], e \in due[f] \ given[f] : x[1] <= e[1]
        /\ \A k \in DOMAIN out[f] : out[f][k].line \in Publishes[f]
    BY DEF FeedInv, SentOK
  <2>2. given'[f] = given[f] \cup {d} /\ out'[f] = Append(out[f], d[2])
    BY <1>1, <1>3
  <2>3. d[2].line \in Publishes[f]
    BY DEF FeedInv, FileOK
  <2>4. \A k \in DOMAIN out'[f] : out'[f][k].line \in Publishes[f]
    <3> DEFINE s == out[f]
               r == out'[f]
    <3>1. s \in Seq(Matches) /\ d[2] \in Matches /\ r = Append(s, d[2])
      BY <1>1, <1>3, <2>2
    <3> HIDE DEF s, r
    <3>2. /\ DOMAIN r = 1 .. Len(s) + 1 /\ DOMAIN s = 1 .. Len(s) /\ Len(s) \in Nat
          /\ r[Len(s) + 1] = d[2]
          /\ \A j \in 1 .. Len(s) : r[j] = s[j]
      BY <3>1, AppendProperties
    <3>3. \A k \in DOMAIN s : s[k].line \in Publishes[f]
      BY <2>1 DEF s
    <3>4. \A k \in DOMAIN r : r[k].line \in Publishes[f]
      BY <2>3, <3>2, <3>3
    <3> QED
      BY <3>4 DEF r
  <2>5. \A x \in given'[f], e \in due[f] \ given'[f] : x[1] <= e[1]
    BY <1>1, <2>1, <2>2
  <2>6. IsFiniteSet(given'[f])
    BY <2>1, <2>2, FS_AddElement
  <2> QED
    BY <1>2, <2>1, <2>2, <2>4, <2>5, <2>6 DEF SentOK
<1>7. ASSUME NEW h \in Feeds PROVE SentOK(h)'
  <2>1. CASE h = f
    BY <1>6, <2>1
  <2>2. CASE h # f
    <3>1. due'[h] = due[h] /\ given'[h] = given[h] /\ out'[h] = out[h]
      BY <1>1, <1>2, <1>3, <2>2
    <3>2. SentOK(h)
      BY DEF FeedInv
    <3> QED
      BY <3>1, <3>2 DEF SentOK
  <2> QED
    BY <2>1, <2>2
<1> QED
  BY <1>4, <1>5, <1>7 DEF FeedInv

\* The first match in a channel, and what stays in it.
LEMMA Taken ==
    ASSUME FeedInv, NEW f \in Feeds, out[f] # <<>>
    PROVE  /\ Head(out[f]) = out[f][1] /\ Head(out[f]).line \in Publishes[f]
           /\ Tail(out[f]) \in Seq(Matches)
           /\ Len(out[f]) \in Nat \ {0} /\ DOMAIN out[f] = 1 .. Len(out[f])
           /\ Len(Tail(out[f])) = Len(out[f]) - 1
           /\ DOMAIN Tail(out[f]) = 1 .. Len(out[f]) - 1
           /\ \A k \in 1 .. Len(out[f]) - 1 : Tail(out[f])[k] = out[f][k + 1]
<1> DEFINE s == out[f]
<1>1. s \in Seq(Matches) /\ s # <<>>
  BY DEF FeedInv, TypeOK
<1>2. \A k \in DOMAIN s : s[k].line \in Publishes[f]
  BY DEF FeedInv, SentOK
<1> HIDE DEF s
<1>3. Len(s) \in Nat \ {0} /\ DOMAIN s = 1 .. Len(s)
  BY <1>1, EmptySeq
<1>4. /\ Head(s) = s[1]
      /\ Tail(s) \in Seq(Matches)
      /\ Len(Tail(s)) = Len(s) - 1
      /\ DOMAIN Tail(s) = 1 .. Len(s) - 1
      /\ \A k \in 1 .. Len(s) - 1 : Tail(s)[k] = s[k + 1]
  BY <1>1, <1>3
<1>5. Head(s).line \in Publishes[f]
  BY <1>2, <1>3, <1>4
<1> QED
  BY <1>3, <1>4, <1>5 DEF s

\* What a receive takes from the channel leaves the file as it is.
LEMMA TakeInv ==
    ASSUME FeedInv, NEW f \in Feeds, Take(f)
    PROVE  FeedInv'
<1>1. /\ out[f] # <<>> /\ out' = [out EXCEPT ![f] = Tail(@)]
      /\ UNCHANGED <<due, given, closed, cancelled>>
      /\ \E t \in TimesOf(Head(out[f]).line.at) : Classify(f, Head(out[f]).line, t)
      /\ UNCHANGED <<open, done, history>>
  BY DEF Take, Receive
<1>2. /\ Head(out[f]) = out[f][1] /\ Head(out[f]).line \in Publishes[f]
      /\ Tail(out[f]) \in Seq(Matches)
      /\ Len(out[f]) \in Nat \ {0} /\ DOMAIN out[f] = 1 .. Len(out[f])
      /\ DOMAIN Tail(out[f]) = 1 .. Len(out[f]) - 1
      /\ \A k \in 1 .. Len(out[f]) - 1 : Tail(out[f])[k] = out[f][k + 1]
  BY <1>1, Taken
<1>3. count' \in [Series -> Nat] /\ gauge' \in [Gauges -> Int]
  <2>1. count \in [Series -> Nat] /\ gauge \in [Gauges -> Int]
    BY DEF FeedInv, TypeOK
  <2> QED
    BY <1>1, <1>2, <2>1, ClassifyTyped
<1>4. out \in [Feeds -> Seq(Matches)]
  BY DEF FeedInv, TypeOK
<1>5. out'[f] = Tail(out[f]) /\ \A h \in Feeds \ {f} : out'[h] = out[h]
  BY <1>1, <1>4
<1>6. TypeOK'
  <2>1. out' \in [Feeds -> Seq(Matches)]
    BY <1>1, <1>2, <1>4
  <2> QED
    BY <1>1, <1>3, <2>1 DEF FeedInv, TypeOK, history
<1>7. ASSUME NEW h \in Feeds PROVE FileOK(h)'
  BY <1>1 DEF FeedInv, FileOK
<1>8. ASSUME NEW h \in Feeds PROVE SentOK(h)'
  <2>1. SentOK(h)
    BY DEF FeedInv
  <2>2. \A k \in DOMAIN out'[h] : out'[h][k].line \in Publishes[h]
    <3>1. CASE h = f
      <4>1. \A k \in 1 .. Len(out[f]) : out[f][k].line \in Publishes[f]
        BY <1>2, <2>1, <3>1 DEF SentOK
      <4>2. \A k \in 1 .. Len(out[f]) - 1 : k + 1 \in 1 .. Len(out[f])
        BY <1>2
      <4>3. \A k \in 1 .. Len(out[f]) - 1 : Tail(out[f])[k].line \in Publishes[f]
        BY <1>2, <4>1, <4>2, Zenon
      <4> QED
        BY <1>2, <1>5, <3>1, <4>3
    <3>2. CASE h # f
      BY <1>5, <2>1, <3>2 DEF SentOK
    <3> QED
      BY <3>1, <3>2
  <2> QED
    BY <1>1, <2>1, <2>2 DEF SentOK
<1> QED
  BY <1>6, <1>7, <1>8 DEF FeedInv

\* The last line of a file to set a gauge says its time, and there is one
\* where one sets it.
LEMMA SaysOf ==
    ASSUME NEW G, \A d \in G : d[1] \in 1 .. MaxLines,
           \A d, e \in G : d[1] = e[1] => d[2].line = e[2].line,
           NEW g
    PROVE  /\ (\A d \in G : ~Sets(g, d[2].line)) => Says(g, G) = before[g]
           /\ \A d \in G : (/\ Sets(g, d[2].line)
                            /\ \A e \in G : Sets(g, e[2].line) => e[1] <= d[1])
                              => Says(g, G) = d[2].line.at
           /\ (\E d \in G : Sets(g, d[2].line)) =>
                 \E d \in G : /\ Sets(g, d[2].line)
                              /\ \A e \in G : Sets(g, e[2].line) => e[1] <= d[1]
<1> DEFINE S == Setting(g, G)
<1>1. S = {d[1] : d \in {e \in G : Sets(g, e[2].line)}}
  BY Zenon DEF Setting
<1>2. MaxLines \in Nat
  BY LogCollectorsAssumption DEF LogCollectorsAssumption
<1>3. Says(g, G) = IF S = {} THEN before[g] ELSE LineAt(G, Max(S)).at
  BY Zenon DEF Says
<1> HIDE DEF S
<1>4. S \in SUBSET (0 .. MaxLines) /\ S \in SUBSET Nat
  BY <1>1, <1>2
<1>5. ASSUME \A d \in G : ~Sets(g, d[2].line) PROVE Says(g, G) = before[g]
  BY <1>1, <1>3, <1>5
<1>6. ASSUME NEW x \in G, Sets(g, x[2].line),
             \A e \in G : Sets(g, e[2].line) => e[1] <= x[1]
      PROVE  Says(g, G) = x[2].line.at
  <2>1. x[1] \in S /\ \A y \in S : y <= x[1]
    BY <1>1, <1>6
  <2>2. Max(S) = x[1]
    BY <1>4, <2>1, MaxIs
  <2>3. LineAt(G, x[1]) = x[2].line
    <3> DEFINE y == CHOOSE d \in G : d[1] = x[1]
    <3>1. y \in G /\ y[1] = x[1]
      BY <1>6, Zenon
    <3>2. y[2].line = x[2].line
      <4> HIDE DEF y
      <4> QED
        BY <1>6, <3>1
    <3> QED
      BY <3>2, Zenon DEF LineAt
  <2>4. S # {}
    BY <2>1
  <2> QED
    BY <1>3, <2>2, <2>3, <2>4, Zenon
<1>7. ASSUME NEW d \in G, Sets(g, d[2].line)
      PROVE  \E x \in G : /\ Sets(g, x[2].line)
                          /\ \A e \in G : Sets(g, e[2].line) => e[1] <= x[1]
  <2>1. S # {}
    BY <1>1, <1>7
  <2>2. PICK m \in S : \A y \in S : y <= m
    BY <1>2, <1>4, <2>1, LargestOf
  <2>3. PICK x \in G : Sets(g, x[2].line) /\ x[1] = m
    BY <1>1
  <2>4. \A e \in G : Sets(g, e[2].line) => e[1] <= x[1]
    BY <1>1, <2>2, <2>3
  <2> QED
    BY <2>3, <2>4
<1> QED
  BY <1>5, <1>6, <1>7

\* What is sent of a feed, as a file.
LEMMA SentIs ==
    ASSUME FeedInv, NEW f \in Feeds
    PROVE  /\ \A d \in given[f] : d[1] \in 1 .. MaxLines /\ d[2].line \in Publishes[f]
           /\ \A d, e \in given[f] : d[1] = e[1] => d[2].line = e[2].line
BY DEF FeedInv, TypeOK, FileOK, SentOK

\* Of a file that is started nothing is sent yet.
LEMMA StartInv ==
    ASSUME FeedInv, NEW f \in Feeds, NEW lines \in Texts(f), StartFile(f, lines)
    PROVE  FeedInv' /\ restarts'[f] # 0
<1> DEFINE F == FileOf(f, lines)
<1>1. /\ due' = [due EXCEPT ![f] = F]
      /\ given' = [given EXCEPT ![f] = {}]
      /\ restarts' = [restarts EXCEPT ![f] = IF @ < MaxRestarts THEN @ + 1 ELSE @]
      /\ before' = [g \in Gauges |-> IF FeedOf(g) = f THEN Says(g, given[f]) ELSE before[g]]
      /\ UNCHANGED <<out, closed, cancelled, collectorVars>>
  BY Zenon DEF StartFile
<1>2. /\ restarts \in [Feeds -> 0 .. MaxRestarts] /\ before \in [Gauges -> Int]
      /\ due \in [Feeds -> SUBSET ((1 .. MaxLines) \X Matches)]
      /\ given \in [Feeds -> SUBSET ((1 .. MaxLines) \X Matches)]
  BY DEF FeedInv, TypeOK
<1>3. /\ F \in SUBSET ((1 .. MaxLines) \X Matches)
      /\ \A d \in F : d[2].line = lines[d[1]] /\ d[2].line \in Publishes[f]
  BY FileOfIs
<1> HIDE DEF F
<1>m. MaxRestarts \in Nat \ {0}
  BY LogCollectorsAssumption DEF LogCollectorsAssumption
<1>4. restarts' \in [Feeds -> 0 .. MaxRestarts] /\ restarts'[f] # 0
  BY <1>1, <1>2, <1>m
<1>5. ASSUME NEW g \in Gauges PROVE Says(g, given[f]) \in Int
  <2>1. /\ (\A d \in given[f] : ~Sets(g, d[2].line)) => Says(g, given[f]) = before[g]
        /\ \A d \in given[f] : (/\ Sets(g, d[2].line)
                                /\ \A e \in given[f] : Sets(g, e[2].line) => e[1] <= d[1])
                                   => Says(g, given[f]) = d[2].line.at
        /\ (\E d \in given[f] : Sets(g, d[2].line)) =>
              \E d \in given[f] : /\ Sets(g, d[2].line)
                                  /\ \A e \in given[f] : Sets(g, e[2].line) => e[1] <= d[1]
    BY SentIs, SaysOf, Zenon
  <2>2. \A d \in given[f] : d[2].line.at \in Int
    BY SentIs, TimesAre
  <2> QED
    BY <1>2, <2>1, <2>2
<1>6. before' \in [Gauges -> Int]
  BY <1>1, <1>2, <1>5
<1>7. due' \in [Feeds -> SUBSET ((1 .. MaxLines) \X Matches)]
      /\ given' \in [Feeds -> SUBSET ((1 .. MaxLines) \X Matches)]
  BY <1>1, <1>2, <1>3
<1>8. TypeOK'
  BY <1>1, <1>4, <1>6, <1>7 DEF FeedInv, TypeOK, collectorVars
<1>9. ASSUME NEW h \in Feeds PROVE FileOK(h)' /\ SentOK(h)'
  <2>1. CASE h # f
    <3>1. due'[h] = due[h] /\ given'[h] = given[h] /\ out'[h] = out[h]
      BY <1>1, <1>2, <2>1
    <3> QED
      BY <3>1, OtherFeeds
  <2>2. CASE h = f
    <3>1. due'[f] = F /\ given'[f] = {} /\ out'[f] = out[f]
      BY <1>1, <1>2
    <3>2. FileOK(f)'
      BY <1>3, <3>1 DEF FileOK
    <3>3. SentOK(f)'
      BY <3>1, FS_EmptySet DEF FeedInv, SentOK
    <3> QED
      BY <2>2, <3>2, <3>3
  <2> QED
    BY <2>1, <2>2
<1> QED
  BY <1>4, <1>8, <1>9 DEF FeedInv

\* The steps that move neither a match nor a series.
LEMMA QuietInv ==
    ASSUME FeedInv, UNCHANGED <<due, given, out, count, gauge, history>>,
           closed' \in [Feeds -> BOOLEAN], open' \in [Feeds -> BOOLEAN],
           cancelled' \in BOOLEAN, done' \in [Collectors -> BOOLEAN]
    PROVE  FeedInv'
<1>1. TypeOK'
  BY DEF FeedInv, TypeOK, history
<1>2. ASSUME NEW h \in Feeds PROVE FileOK(h)' /\ SentOK(h)'
  BY DEF FeedInv, FileOK, SentOK
<1> QED
  BY <1>1, <1>2 DEF FeedInv

\* What a step of the collectors may be.
LEMMA StepIs ==
    ASSUME FeedInv, [Next]_vars
    PROVE  \/ \E f \in Feeds : Take(f)
           \/ \E f \in Feeds : Deliver(f) /\ UNCHANGED <<collectorVars, history>>
           \/ \E f \in Feeds : \E lines \in Texts(f) : StartFile(f, lines)
           \/ \E f \in Feeds : \E lines \in Texts(f) : Publish(f, lines)
           \/ /\ UNCHANGED <<due, given, out, count, gauge, history>>
              /\ closed' \in [Feeds -> BOOLEAN] /\ open' \in [Feeds -> BOOLEAN]
              /\ cancelled' \in BOOLEAN /\ done' \in [Collectors -> BOOLEAN]
<1>0. /\ closed \in [Feeds -> BOOLEAN] /\ open \in [Feeds -> BOOLEAN]
      /\ cancelled \in BOOLEAN /\ done \in [Collectors -> BOOLEAN]
  BY DEF FeedInv, TypeOK
<1>1. CASE Stop
  <2>1. cancelled' = TRUE /\ UNCHANGED <<due, given, out, closed, collectorVars, history>>
    BY <1>1 DEF Stop, Cancel
  <2>2. cancelled' \in BOOLEAN
    BY <2>1, Zenon
  <2> QED
    BY <1>0, <2>1, <2>2 DEF collectorVars
<1>2. ASSUME NEW c \in Collectors, SeeDone(c)
      PROVE  /\ UNCHANGED <<due, given, out, count, gauge, history>>
             /\ closed' \in [Feeds -> BOOLEAN] /\ open' \in [Feeds -> BOOLEAN]
             /\ cancelled' \in BOOLEAN /\ done' \in [Collectors -> BOOLEAN]
  <2>1. done' = [done EXCEPT ![c] = TRUE] /\ UNCHANGED <<feedVars, open, count, gauge, history>>
    BY <1>2 DEF SeeDone
  <2>2. done' \in [Collectors -> BOOLEAN]
    BY <1>0, <2>1
  <2> QED
    BY <1>0, <2>1, <2>2 DEF feedVars
<1>3. ASSUME NEW f \in Feeds, SeeClosed(f)
      PROVE  /\ UNCHANGED <<due, given, out, count, gauge, history>>
             /\ closed' \in [Feeds -> BOOLEAN] /\ open' \in [Feeds -> BOOLEAN]
             /\ cancelled' \in BOOLEAN /\ done' \in [Collectors -> BOOLEAN]
  <2>1. /\ open' = [open EXCEPT ![f] = FALSE]
        /\ done' = [done EXCEPT ![Collector[f]] =
              \A g \in Feeds : Collector[g] = Collector[f] => ~open'[g]]
        /\ UNCHANGED <<feedVars, count, gauge, history>>
    BY <1>3 DEF SeeClosed
  <2>2. open' \in [Feeds -> BOOLEAN]
    BY <1>0, <2>1
  <2>3. done' \in [Collectors -> BOOLEAN]
    <3> DEFINE b == \A g \in Feeds : Collector[g] = Collector[f] => ~open'[g]
    <3>1. b \in BOOLEAN
      BY Zenon
    <3>2. done' = [done EXCEPT ![Collector[f]] = b]
      BY <2>1, Zenon
    <3> HIDE DEF b
    <3> QED
      BY <1>0, <3>1, <3>2
  <2> QED
    BY <1>0, <2>1, <2>2, <2>3 DEF feedVars
<1>4. ASSUME NEW f \in Feeds, Close(f), UNCHANGED <<collectorVars, history>>
      PROVE  /\ UNCHANGED <<due, given, out, count, gauge, history>>
             /\ closed' \in [Feeds -> BOOLEAN] /\ open' \in [Feeds -> BOOLEAN]
             /\ cancelled' \in BOOLEAN /\ done' \in [Collectors -> BOOLEAN]
  <2>1. closed' = [closed EXCEPT ![f] = TRUE] /\ UNCHANGED <<due, given, out, cancelled>>
    BY <1>4 DEF Close
  <2>2. closed' \in [Feeds -> BOOLEAN]
    BY <1>0, <2>1
  <2> QED
    BY <1>0, <1>4, <2>1, <2>2 DEF collectorVars
<1>5. CASE UNCHANGED vars
  BY <1>0, <1>5 DEF vars, feedVars, collectorVars
<1>6. CASE Next
  BY <1>1, <1>2, <1>3, <1>4, <1>6, Zenon DEF Next, Step, Send, End
<1> QED
  BY <1>5, <1>6

\* Every step keeps the files and the types.
LEMMA FeedNextInv == FeedInv /\ [Next]_vars => FeedInv'
<1> SUFFICES ASSUME FeedInv, [Next]_vars PROVE FeedInv'
  OBVIOUS
<1> QED
  BY StepIs, TakeInv, DeliverInv, StartInv, PublishInv, QuietInv, Zenon

(***************************************************************************)
(* Every variable of the collectors keeps its type: no counter ever goes   *)
(* down, whatever number is captured (Counter.Add would panic).            *)
(***************************************************************************)
THEOREM CollectorTypes == Spec => []TypeOK
<1>1. FeedInv => TypeOK
  BY DEF FeedInv
<1> QED
  BY <1>1, FeedInitInv, FeedNextInv, PTL DEF Spec

-----------------------------------------------------------------------------
(* The collectors on the tailer.                                           *)

\* Lines that are added, or a file that is started, are something a feed may
\* do.
LEMMA StepOfFeed == FeedInv /\ [Next]_vars => [FeedNext]_feedVars
<1> SUFFICES ASSUME FeedInv, [Next]_vars PROVE [FeedNext]_feedVars
  OBVIOUS
<1>0. due \in [Feeds -> SUBSET ((1 .. MaxLines) \X Matches)] /\ MaxLines \in Nat
  BY LogCollectorsAssumption DEF LogCollectorsAssumption, FeedInv, TypeOK
<1>1. ASSUME NEW f \in Feeds, NEW lines \in Texts(f), Publish(f, lines) PROVE FeedNext
  <2> DEFINE F == FileOf(f, lines)
  <2>1. /\ due' = [due EXCEPT ![f] = @ \cup F] /\ due'[f] = due[f] \cup F
        /\ \A d \in due[f], e \in F : d[1] < e[1]
        /\ F \in SUBSET ((1 .. MaxLines) \X Matches)
    BY <1>1, Published, FileOfIs
  <2>2. UNCHANGED <<given, out, closed, cancelled>>
    BY <1>1 DEF Publish
  <2> HIDE DEF F
  <2>3. OthersKeep(f)
    BY <1>0, <2>1 DEF OthersKeep
  <2>4. due'[f] \in SUBSET (Nat \X Matches)
    BY <1>0, <2>1
  <2>5. Grow(f)
    BY <2>1, <2>2, <2>4 DEF Grow
  <2> QED
    BY <2>3, <2>5, Zenon DEF FeedNext
<1>2. ASSUME NEW f \in Feeds, NEW lines \in Texts(f), StartFile(f, lines) PROVE FeedNext
  <2> DEFINE F == FileOf(f, lines)
  <2>1. /\ ~closed[f] /\ due' = [due EXCEPT ![f] = F]
        /\ given' = [given EXCEPT ![f] = {}] /\ UNCHANGED <<out, closed, cancelled>>
    BY <1>2, Zenon DEF StartFile
  <2>2. F \in SUBSET ((1 .. MaxLines) \X Matches)
    BY FileOfIs
  <2> HIDE DEF F
  <2>3. due'[f] \in SUBSET (Nat \X Matches) /\ OthersKeep(f)
    BY <1>0, <2>1, <2>2 DEF OthersKeep
  <2>4. Restart(f)
    BY <2>1, <2>3 DEF Restart
  <2> QED
    BY <2>3, <2>4, Zenon DEF FeedNext
<1>3. ASSUME NEW f \in Feeds, Take(f) PROVE FeedNext
  BY <1>3, Zenon DEF Take, FeedNext
<1>4. CASE Stop
  BY <1>4, Zenon DEF Stop, FeedNext
<1>5. ASSUME NEW f \in Feeds, Send(f) \/ End(f) PROVE FeedNext
  BY <1>5, Zenon DEF Send, End, FeedNext
<1>6. ASSUME NEW c \in Collectors, SeeDone(c) PROVE UNCHANGED feedVars
  BY <1>6 DEF SeeDone
<1>7. ASSUME NEW f \in Feeds, SeeClosed(f) PROVE UNCHANGED feedVars
  BY <1>7 DEF SeeClosed
<1>8. CASE UNCHANGED vars
  BY <1>8 DEF vars
<1>9. CASE Next
  BY <1>1, <1>2, <1>3, <1>4, <1>5, <1>6, <1>7, <1>9, Zenon DEF Next, Step
<1> QED
  BY <1>8, <1>9

(***************************************************************************)
(* The collectors ask nothing of a log but what LogFeed allows: a receive  *)
(* takes the first match of a channel, and nothing else of theirs touches  *)
(* a feed.                                                                 *)
(***************************************************************************)
THEOREM CollectorsUseTheFeed == Spec => FeedSpec
<1>1. Init => FeedInit
  BY DEF Init
<1> QED
  BY <1>1, FeedInitInv, FeedNextInv, StepOfFeed, PTL DEF Spec, FeedSpec

\* A feed follows a file of whole lines of its publisher's.
Whole(f) == \E lines \in Texts(f) : due[f] = FileOf(f, lines)

\* A file of whole lines that grows, grows by whole lines.
LEMMA GrowsByLines ==
    ASSUME TypeOK, NEW f \in Feeds, Whole(f)', OthersKeep(f), Grow(f),
           due' \in [Feeds -> SUBSET ((1 .. MaxLines) \X Matches)]
    PROVE  \E lines \in Texts(f) :
              /\ \A p \in DOMAIN lines, n \in Positions(f) : n < p
              /\ due' = [due EXCEPT ![f] = @ \cup FileOf(f, lines)]
<1>1. PICK all \in Texts(f) : due'[f] = FileOf(f, all)
  BY Zenon DEF Whole
<1>2. PICK P \in SUBSET (1 .. MaxLines) : all \in [P -> Publishes[f]]
  BY DEF Texts
<1> DEFINE N == {p \in P : \A n \in Positions(f) : n < p}
           new == [p \in N |-> all[p]]
<1>3. new \in Texts(f) /\ DOMAIN new = N
  <2>1. N \in SUBSET (1 .. MaxLines)
    BY <1>2
  <2>2. new \in [N -> Publishes[f]]
    BY <1>2
  <2> QED
    BY ONLY <2>1, <2>2 DEF Texts
<1>4. \A d : d \in due'[f] <=> \E p \in P : d \in LineIn(f, p, all[p])
  BY <1>1, <1>2 DEF FileOf
<1>5. \A d : d \in FileOf(f, new) <=> \E p \in N : d \in LineIn(f, p, all[p])
  BY DEF FileOf
<1>6. \A p, l : \A d \in LineIn(f, p, l) : d[1] = p
  BY DEF LineIn
<1>7. due[f] \subseteq due'[f] /\ \A x \in due'[f] \ due[f], d \in due[f] : d[1] < x[1]
  BY Zenon DEF Grow
<1>8. due'[f] = due[f] \cup FileOf(f, new)
  <2>1. ASSUME NEW x \in FileOf(f, new) PROVE x \in due'[f]
    BY <1>4, <1>5, <2>1
  <2>2. ASSUME NEW x \in due'[f], x \notin due[f] PROVE x \in FileOf(f, new)
    <3>1. PICK p \in P : x \in LineIn(f, p, all[p])
      BY <1>4, <2>2
    <3>2. x[1] = p
      BY <1>6, <3>1
    <3>3. \A n \in Positions(f) : n < p
      BY <1>7, <2>2, <3>2 DEF Positions
    <3> QED
      BY <1>5, <3>1, <3>3
  <2> HIDE DEF new
  <2> QED
    BY <1>7, <2>1, <2>2
<1>9. due' = [due EXCEPT ![f] = @ \cup FileOf(f, new)]
  <2> HIDE DEF new
  <2> QED
    BY <1>8 DEF TypeOK, OthersKeep
<1>10. \A p \in DOMAIN new, n \in Positions(f) : n < p
  BY <1>3
<1> HIDE DEF new
<1> QED
  BY <1>3, <1>9, <1>10

(***************************************************************************)
(* And they are ready for all a feed may do with files of whole lines:     *)
(* what LogFeed allows beside the receives (lines added, the next match    *)
(* sent, the same or any other file started, the channel closed, the       *)
(* context cancelled) is a step of this specification, up to its bounds on *)
(* lines and restarts, once the histories are kept.  So nothing the tailer *)
(* does between a file and a channel is left out of it.                    *)
(***************************************************************************)
THEOREM CollectorsCoverTheFeed ==
    ASSUME TypeOK, NEW f \in Feeds, Whole(f)', Fits(f, due'[f]),
           restarts[f] < MaxRestarts \/ f \in Endless,
           due' \in [Feeds -> SUBSET ((1 .. MaxLines) \X Matches)],
           UNCHANGED collectorVars
    PROVE  /\ Cancel /\ UNCHANGED history => Next
           /\ (Deliver(f) \/ Close(f)) /\ UNCHANGED history => Next
           /\ OthersKeep(f) /\ Grow(f) /\ UNCHANGED history => Next
           /\ (/\ OthersKeep(f) /\ Restart(f)
               /\ restarts' = [restarts EXCEPT ![f] = IF @ < MaxRestarts THEN @ + 1 ELSE @]
               /\ before' = [g \in Gauges |->
                                IF FeedOf(g) = f THEN Says(g, given[f]) ELSE before[g]])
                 => Next
<1>1. ASSUME Cancel, UNCHANGED history PROVE Next
  BY <1>1, Zenon DEF Next, Stop
<1>2. ASSUME Deliver(f) \/ Close(f), UNCHANGED history PROVE Next
  BY <1>2, Zenon DEF Next, Send, End
<1>3. ASSUME OthersKeep(f), Grow(f), UNCHANGED history PROVE Next
  <2>1. PICK lines \in Texts(f) :
          /\ \A p \in DOMAIN lines, n \in Positions(f) : n < p
          /\ due' = [due EXCEPT ![f] = @ \cup FileOf(f, lines)]
    BY <1>3, GrowsByLines
  <2>2. due'[f] = due[f] \cup FileOf(f, lines)
    BY <2>1 DEF TypeOK
  <2>3. UNCHANGED <<given, out, closed, cancelled>>
    BY <1>3, Zenon DEF Grow
  <2>4. UNCHANGED <<given, out, closed, cancelled, collectorVars, history>>
    BY <1>3, <2>3
  <2>5. Publish(f, lines)
    BY <2>1, <2>2, <2>4, Zenon DEF Publish
  <2> QED
    BY <2>5, Zenon DEF Next
<1>4. ASSUME OthersKeep(f), Restart(f),
             restarts' = [restarts EXCEPT ![f] = IF @ < MaxRestarts THEN @ + 1 ELSE @],
             before' = [g \in Gauges |-> IF FeedOf(g) = f THEN Says(g, given[f]) ELSE before[g]]
      PROVE  Next
  <2>1. PICK lines \in Texts(f) : due'[f] = FileOf(f, lines)
    BY Zenon DEF Whole
  <2>2. due' = [due EXCEPT ![f] = FileOf(f, lines)]
    BY <1>4, <2>1 DEF TypeOK, OthersKeep
  <2>3. /\ ~closed[f] /\ given' = [given EXCEPT ![f] = {}]
        /\ UNCHANGED <<out, closed, cancelled>>
    BY <1>4, Zenon DEF Restart
  <2>4. UNCHANGED <<out, closed, cancelled, collectorVars>>
    BY <2>3
  <2>5. StartFile(f, lines)
    BY <1>4, <2>1, <2>2, <2>3, <2>4, Zenon DEF StartFile
  <2> QED
    BY <2>5, Zenon DEF Next
<1> QED
  BY <1>1, <1>2, <1>3, <1>4

-----------------------------------------------------------------------------
(* The gauges.                                                             *)

\* None of the matches of a channel sets g.
NoneSets(s, g) == \A k \in DOMAIN s : ~Sets(g, s[k].line)

\* When the matches of a channel have been taken, g, now v0, will be the time
\* v of the log, or one of the clock where it has none.
Becomes(s, g, v0, v) ==
    \/ \E k \in DOMAIN s :
          /\ Sets(g, s[k].line) /\ s[k].line.at = v
          /\ \A j \in DOMAIN s : j > k => ~Sets(g, s[j].line)
    \/ NoneSets(s, g) /\ v0 \in TimesOf(v)

\* A match that is appended decides the gauge it sets, and no other.
LEMMA AppendSets ==
    ASSUME NEW s \in Seq(Matches), NEW m \in Matches, NEW g, NEW v0
    PROVE  /\ Sets(g, m.line) => Becomes(Append(s, m), g, v0, m.line.at)
           /\ \A v : ~Sets(g, m.line) /\ Becomes(s, g, v0, v) => Becomes(Append(s, m), g, v0, v)
           /\ ~Sets(g, m.line) /\ NoneSets(s, g) => NoneSets(Append(s, m), g)
<1> DEFINE r == Append(s, m)
           n == Len(s)
<1>1. /\ n \in Nat /\ DOMAIN r = 1 .. n + 1 /\ DOMAIN s = 1 .. n
      /\ r[n + 1] = m /\ \A j \in 1 .. n : r[j] = s[j]
  BY AppendProperties
<1> HIDE DEF r, n
<1>2. \A j \in 1 .. n + 1 : j \in 1 .. n \/ j = n + 1
  BY <1>1
<1>3. ASSUME Sets(g, m.line) PROVE Becomes(r, g, v0, m.line.at)
  <2>1. n + 1 \in DOMAIN r /\ \A j \in DOMAIN r : ~(j > n + 1)
    BY <1>1
  <2> QED
    BY <1>1, <1>3, <2>1 DEF Becomes
<1>4. ASSUME ~Sets(g, m.line), NoneSets(s, g) PROVE NoneSets(r, g)
  BY <1>1, <1>2, <1>4 DEF NoneSets
<1>5. ASSUME NEW v, ~Sets(g, m.line), Becomes(s, g, v0, v) PROVE Becomes(r, g, v0, v)
  <2>1. CASE NoneSets(s, g) /\ v0 \in TimesOf(v)
    BY <1>4, <1>5, <2>1 DEF Becomes
  <2>2. ASSUME NEW k \in DOMAIN s, Sets(g, s[k].line), s[k].line.at = v,
               \A j \in DOMAIN s : j > k => ~Sets(g, s[j].line)
        PROVE  Becomes(r, g, v0, v)
    <3>1. k \in DOMAIN r /\ r[k] = s[k]
      BY <1>1, <2>2
    <3>2. \A j \in DOMAIN r : j > k => ~Sets(g, r[j].line)
      BY <1>1, <1>2, <1>5, <2>2
    <3> QED
      BY <2>2, <3>1, <3>2 DEF Becomes
  <2> QED
    BY <1>5, <2>1, <2>2 DEF Becomes
<1> QED
  BY <1>3, <1>4, <1>5 DEF r

\* r is the tail of s, n long.
IsTail(r, s, n) ==
    /\ n \in Nat \ {0} /\ DOMAIN s = 1 .. n /\ DOMAIN r = 1 .. n - 1
    /\ \A k \in 1 .. n - 1 : r[k] = s[k + 1]

\* Taking the first match moves what it says from the channel to the gauge.
LEMMA TailSets ==
    ASSUME NEW s, NEW r, NEW n, IsTail(r, s, n),
           NEW g, NEW v0, NEW v1,
           IF Sets(g, s[1].line) THEN v1 \in TimesOf(s[1].line.at) ELSE v1 = v0
    PROVE  /\ \A v : Becomes(s, g, v0, v) => Becomes(r, g, v1, v)
           /\ NoneSets(s, g) => NoneSets(r, g) /\ v1 = v0
<1>0. /\ n \in Nat \ {0} /\ DOMAIN s = 1 .. n /\ DOMAIN r = 1 .. n - 1
      /\ \A k \in 1 .. n - 1 : r[k] = s[k + 1]
  BY DEF IsTail
<1>1. 1 \in DOMAIN s /\ \A k \in DOMAIN r : k + 1 \in DOMAIN s /\ k + 1 > 1
  BY <1>0
<1>2. \A k \in DOMAIN r : r[k] = s[k + 1]
  BY <1>0
<1>3. ASSUME NoneSets(s, g) PROVE NoneSets(r, g) /\ v1 = v0
  BY <1>1, <1>2, <1>3 DEF NoneSets
<1>4. ASSUME NEW v, Becomes(s, g, v0, v) PROVE Becomes(r, g, v1, v)
  <2>1. CASE NoneSets(s, g) /\ v0 \in TimesOf(v)
    BY <1>3, <2>1 DEF Becomes
  <2>2. ASSUME NEW k \in DOMAIN s, Sets(g, s[k].line), s[k].line.at = v,
               \A j \in DOMAIN s : j > k => ~Sets(g, s[j].line)
        PROVE  Becomes(r, g, v1, v)
    <3>1. CASE k = 1
      <4>1. v1 \in TimesOf(v)
        BY <2>2, <3>1
      <4>2. NoneSets(r, g)
        BY <1>1, <1>2, <2>2, <3>1 DEF NoneSets
      <4> QED
        BY <4>1, <4>2 DEF Becomes
    <3>2. CASE k # 1
      <4>1. k - 1 \in DOMAIN r /\ r[k - 1] = s[k]
        BY <1>0, <3>2, (k - 1) + 1 = k
      <4>2. \A j \in DOMAIN r : j > k - 1 => j + 1 > k
        BY <1>0, <3>2
      <4>3. \A j \in DOMAIN r : j > k - 1 => ~Sets(g, r[j].line)
        BY <1>1, <1>2, <2>2, <4>2
      <4> QED
        BY <2>2, <4>1, <4>3 DEF Becomes
    <3> QED
      BY <3>1, <3>2
  <2> QED
    BY <1>4, <2>1, <2>2 DEF Becomes
<1> QED
  BY <1>3, <1>4

\* What the last line sent to set a gauge says is what the gauge becomes.
GaugeInv ==
    \A g \in Gauges :
        Becomes(out[FeedOf(g)], g, gauge[g], Says(g, given[FeedOf(g)]))

\* Nothing is sent, and the gauges have their first values.
LEMMA GaugeInitInv == Init => GaugeInv
<1> SUFFICES ASSUME Init, NEW g \in Gauges
             PROVE  Becomes(out[FeedOf(g)], g, gauge[g], Says(g, given[FeedOf(g)]))
  BY Zenon DEF GaugeInv
<1>1. given[FeedOf(g)] = {} /\ out[FeedOf(g)] = <<>>
  BY Fed DEF Init, FeedInit
<1>2. Says(g, {}) = before[g]
  BY SaysOf
<1>3. gauge[g] = before[g] /\ before[g] \in Nat \cup {NoValue}
  BY LogCollectorsAssumption DEF LogCollectorsAssumption, Init, Unset
<1>4. gauge[g] \in TimesOf(before[g])
  BY <1>3 DEF TimesOf, NoValue, NoStamp
<1>5. NoneSets(<<>>, g)
  BY DEF NoneSets
<1> QED
  BY <1>1, <1>2, <1>4, <1>5 DEF Becomes

\* What a match that is sent makes a file say.
LEMMA SaysMore ==
    ASSUME FeedInv, NEW f \in Feeds, NEW d \in due[f] \ given[f],
           \A e \in due[f] \ given[f] : d[1] <= e[1], NEW g
    PROVE  Says(g, given[f] \cup {d})
               = IF Sets(g, d[2].line) THEN d[2].line.at ELSE Says(g, given[f])
<1> DEFINE G == given[f]
           H == given[f] \cup {d}
<1>1. /\ G \subseteq due[f]
      /\ \A x \in G, e \in due[f] \ G : x[1] <= e[1]
      /\ \A x, e \in due[f] : x[1] = e[1] => x[2].line = e[2].line
      /\ \A x \in due[f] : x[1] \in 1 .. MaxLines
  BY DEF FeedInv, SentOK, FileOK, TypeOK
<1>2. /\ \A x \in G : x[1] <= d[1]
      /\ H \subseteq due[f]
  BY <1>1
<1>3. /\ (\A x \in G : ~Sets(g, x[2].line)) => Says(g, G) = before[g]
      /\ \A x \in G : (/\ Sets(g, x[2].line)
                       /\ \A e \in G : Sets(g, e[2].line) => e[1] <= x[1])
                          => Says(g, G) = x[2].line.at
      /\ (\E x \in G : Sets(g, x[2].line)) =>
            \E x \in G : /\ Sets(g, x[2].line)
                         /\ \A e \in G : Sets(g, e[2].line) => e[1] <= x[1]
  <2>1. /\ \A x \in G : x[1] \in 1 .. MaxLines
        /\ \A x, e \in G : x[1] = e[1] => x[2].line = e[2].line
    BY <1>1
  <2> HIDE DEF G
  <2> QED
    BY <2>1, SaysOf
<1>4. /\ (\A x \in H : ~Sets(g, x[2].line)) => Says(g, H) = before[g]
      /\ \A x \in H : (/\ Sets(g, x[2].line)
                       /\ \A e \in H : Sets(g, e[2].line) => e[1] <= x[1])
                          => Says(g, H) = x[2].line.at
  <2>1. /\ \A x \in H : x[1] \in 1 .. MaxLines
        /\ \A x, e \in H : x[1] = e[1] => x[2].line = e[2].line
    BY <1>1, <1>2
  <2> HIDE DEF H
  <2> QED
    BY <2>1, SaysOf
<1>d. d \in H /\ d[1] <= d[1] /\ \A x \in H : x \in G \/ x = d
  BY <1>1
<1>g. G \subseteq H
  OBVIOUS
<1> HIDE DEF G, H
<1>5. CASE Sets(g, d[2].line)
  <2>1. \A e \in H : Sets(g, e[2].line) => e[1] <= d[1]
    BY <1>2, <1>d
  <2> QED
    BY <1>4, <1>5, <1>d, <2>1 DEF G, H
<1>6. CASE ~Sets(g, d[2].line)
  <2>1. CASE \A x \in G : ~Sets(g, x[2].line)
    <3>1. \A x \in H : ~Sets(g, x[2].line)
      BY <1>6, <1>d, <2>1
    <3> QED
      BY <1>3, <1>4, <1>6, <2>1, <3>1 DEF G, H
  <2>2. CASE \E x \in G : Sets(g, x[2].line)
    <3>1. PICK x \in G : /\ Sets(g, x[2].line)
                         /\ \A e \in G : Sets(g, e[2].line) => e[1] <= x[1]
      BY <1>3, <2>2
    <3>2. x \in H /\ \A e \in H : Sets(g, e[2].line) => e[1] <= x[1]
      BY <1>6, <1>d, <1>g, <3>1
    <3>3. Says(g, G) = x[2].line.at /\ Says(g, H) = x[2].line.at
      BY <1>3, <1>4, <3>1, <3>2
    <3> QED
      BY <1>6, <3>3 DEF G, H
  <2> QED
    BY <2>1, <2>2
<1> QED
  BY <1>5, <1>6

\* A match is sent.
LEMMA GaugeDeliver ==
    ASSUME FeedInv, GaugeInv, NEW f \in Feeds, Deliver(f), UNCHANGED <<collectorVars, history>>
    PROVE  GaugeInv'
<1>1. PICK d \in due[f] \ given[f] :
        /\ \A e \in due[f] \ given[f] : d[1] <= e[1]
        /\ given' = [given EXCEPT ![f] = @ \cup {d}]
        /\ out' = [out EXCEPT ![f] = Append(@, d[2])]
        /\ d \in (1 .. MaxLines) \X Matches
  BY Delivered
<1>2. UNCHANGED <<gauge, before>>
  BY DEF collectorVars, history
<1>3. /\ given \in [Feeds -> SUBSET ((1 .. MaxLines) \X Matches)]
      /\ out \in [Feeds -> Seq(Matches)]
  BY DEF FeedInv, TypeOK
<1> SUFFICES ASSUME NEW g \in Gauges
             PROVE  Becomes(out'[FeedOf(g)], g, gauge[g], Says(g, given'[FeedOf(g)]))
  BY <1>2, Zenon DEF GaugeInv, Says
<1>4. Becomes(out[FeedOf(g)], g, gauge[g], Says(g, given[FeedOf(g)]))
  BY Zenon DEF GaugeInv
<1>5. CASE FeedOf(g) # f
  <2>1. given'[FeedOf(g)] = given[FeedOf(g)] /\ out'[FeedOf(g)] = out[FeedOf(g)]
    BY <1>1, <1>3, <1>5, Fed
  <2> QED
    BY <1>4, <2>1
<1>6. CASE FeedOf(g) = f
  <2> DEFINE s == out[f]
  <2>1. s \in Seq(Matches) /\ d[2] \in Matches /\ out'[f] = Append(s, d[2])
        /\ given'[f] = given[f] \cup {d}
    BY <1>1, <1>3
  <2>2. /\ Sets(g, d[2].line) => Becomes(Append(s, d[2]), g, gauge[g], d[2].line.at)
        /\ \A v : ~Sets(g, d[2].line) /\ Becomes(s, g, gauge[g], v)
                      => Becomes(Append(s, d[2]), g, gauge[g], v)
    <3> HIDE DEF s
    <3> QED
      BY <2>1, AppendSets
  <2>3. Says(g, given[f] \cup {d}) = IF Sets(g, d[2].line) THEN d[2].line.at ELSE Says(g, given[f])
    BY <1>1, SaysMore
  <2>4. Becomes(s, g, gauge[g], Says(g, given[f]))
    BY <1>4, <1>6
  <2> HIDE DEF s
  <2>5. Becomes(Append(s, d[2]), g, gauge[g], Says(g, given[f] \cup {d}))
    BY <2>2, <2>3, <2>4
  <2> QED
    BY <1>6, <2>1, <2>5
<1> QED
  BY <1>5, <1>6

\* A match is taken.
LEMMA GaugeTake ==
    ASSUME FeedInv, GaugeInv, NEW f \in Feeds, Take(f)
    PROVE  GaugeInv'
<1>1. /\ out[f] # <<>> /\ out' = [out EXCEPT ![f] = Tail(@)]
      /\ UNCHANGED <<given, before>>
      /\ \E t \in TimesOf(Head(out[f]).line.at) : Classify(f, Head(out[f]).line, t)
  BY DEF Take, Receive, history
<1>2. /\ Head(out[f]) = out[f][1] /\ Head(out[f]).line \in Publishes[f]
      /\ Len(out[f]) \in Nat \ {0} /\ DOMAIN out[f] = 1 .. Len(out[f])
      /\ DOMAIN Tail(out[f]) = 1 .. Len(out[f]) - 1
      /\ \A k \in 1 .. Len(out[f]) - 1 : Tail(out[f])[k] = out[f][k + 1]
  BY <1>1, Taken
<1>3. out \in [Feeds -> Seq(Matches)] /\ gauge \in [Gauges -> Int]
  BY DEF FeedInv, TypeOK
<1>4. out'[f] = Tail(out[f]) /\ \A h \in Feeds \ {f} : out'[h] = out[h]
  BY <1>1, <1>3
<1> DEFINE l == out[f][1].line
<1>5. PICK t \in TimesOf(l.at) : Classify(f, l, t)
  BY <1>1, <1>2
<1>6. \A g \in Gauges : gauge'[g] = IF FeedOf(g) = f /\ Sets(g, l) THEN t ELSE gauge[g]
  <2>1. l \in Publishes[f]
    BY <1>2
  <2> HIDE DEF l
  <2> QED
    BY <1>3, <1>5, <2>1, ClassifySets
<1> SUFFICES ASSUME NEW g \in Gauges
             PROVE  Becomes(out'[FeedOf(g)], g, gauge'[g], Says(g, given[FeedOf(g)]))
  BY <1>1, Zenon DEF GaugeInv, Says
<1>8. Becomes(out[FeedOf(g)], g, gauge[g], Says(g, given[FeedOf(g)]))
  BY Zenon DEF GaugeInv
<1>9. CASE FeedOf(g) # f
  <2>1. out'[FeedOf(g)] = out[FeedOf(g)] /\ gauge'[g] = gauge[g]
    BY <1>4, <1>6, <1>9, Fed
  <2> QED
    BY <1>8, <2>1
<1>10. CASE FeedOf(g) = f
  <2>1. IF Sets(g, out[f][1].line) THEN gauge'[g] \in TimesOf(out[f][1].line.at)
                                   ELSE gauge'[g] = gauge[g]
    BY <1>5, <1>6, <1>10
  <2>2. \A v : Becomes(out[f], g, gauge[g], v) => Becomes(out'[f], g, gauge'[g], v)
    <3>1. IsTail(out'[f], out[f], Len(out[f]))
      BY <1>2, <1>4, Zenon DEF IsTail
    <3> QED
      BY <2>1, <3>1, TailSets
  <2> QED
    BY <1>8, <1>10, <2>2
<1> QED
  BY <1>9, <1>10

\* A file is started: what the one before it said is remembered.
LEMMA GaugeStart ==
    ASSUME FeedInv, GaugeInv, NEW f \in Feeds, NEW lines \in Texts(f), StartFile(f, lines)
    PROVE  GaugeInv'
<1>1. /\ given' = [given EXCEPT ![f] = {}]
      /\ before' = [g \in Gauges |-> IF FeedOf(g) = f THEN Says(g, given[f]) ELSE before[g]]
      /\ UNCHANGED <<out, gauge>>
  BY Zenon DEF StartFile, collectorVars
<1>2. given \in [Feeds -> SUBSET ((1 .. MaxLines) \X Matches)]
  BY DEF FeedInv, TypeOK
<1>3. ASSUME NEW g \in Gauges
      PROVE  (Says(g, given[FeedOf(g)]))' = Says(g, given[FeedOf(g)])
  <2>1. CASE FeedOf(g) # f
    <3>1. given'[FeedOf(g)] = given[FeedOf(g)] /\ before'[g] = before[g]
      BY <1>1, <1>2, <2>1, Fed
    <3> QED
      BY <3>1, Zenon DEF Says
  <2>2. CASE FeedOf(g) = f
    <3>1. given'[f] = {} /\ before'[g] = Says(g, given[f])
      BY <1>1, <1>2, <2>2
    <3>2. Setting(g, {}) = {}
      BY DEF Setting
    <3>3. (Says(g, given[f]))' = before'[g]
      BY <3>1, <3>2, Zenon DEF Says
    <3> QED
      BY <2>2, <3>1, <3>3
  <2> QED
    BY <2>1, <2>2
<1> QED
  BY <1>1, <1>3 DEF GaugeInv

\* Every step keeps what the gauges will be.
LEMMA GaugeNextInv == FeedInv /\ GaugeInv /\ [Next]_vars => GaugeInv'
<1> SUFFICES ASSUME FeedInv, GaugeInv, [Next]_vars PROVE GaugeInv'
  OBVIOUS
<1>1. ASSUME UNCHANGED <<given, out, gauge, before>> PROVE GaugeInv'
  BY <1>1 DEF GaugeInv, Says
<1>2. ASSUME NEW f \in Feeds, NEW lines \in Texts(f), Publish(f, lines) PROVE GaugeInv'
  <2>1. UNCHANGED <<given, out, gauge, before>>
    BY <1>2 DEF Publish, collectorVars, history
  <2> QED
    BY <1>1, <2>1
<1>3. CASE UNCHANGED <<due, given, out, count, gauge, history>>
  BY <1>1, <1>3 DEF history
<1> QED
  BY <1>2, <1>3, StepIs, GaugeTake, GaugeDeliver, GaugeStart, Zenon

\* A settled feed has set its gauges.
LEMMA SettledTellsTime == GaugeInv => GaugesTellLogTime
<1> SUFFICES ASSUME GaugeInv, NEW g \in Gauges, Settled(FeedOf(g))
             PROVE  gauge[g] \in TimesOf(Says(g, due[FeedOf(g)]))
  BY Zenon DEF GaugesTellLogTime
<1>1. Becomes(<<>>, g, gauge[g], Says(g, due[FeedOf(g)]))
  <2>1. given[FeedOf(g)] = due[FeedOf(g)] /\ out[FeedOf(g)] = <<>>
    BY DEF Settled
  <2> QED
    BY <2>1, Zenon DEF GaugeInv
<1> QED
  BY <1>1 DEF Becomes

(***************************************************************************)
(* R-025: with nothing left to send or to take, last_vote_success_unix and *)
(* download_started_unix are the time in the log of the last line that     *)
(* sets them, in the file that is followed or else in those before it: for *)
(* every log, however often files are started anew, switched or lost       *)
(* lines, and whatever is in the channels of other feeds.                  *)
(***************************************************************************)
THEOREM GaugesRight == Spec => []GaugesTellLogTime
BY FeedInitInv, FeedNextInv, GaugeInitInv, GaugeNextInv, SettledTellsTime, PTL DEF Spec

-----------------------------------------------------------------------------
(* The counters.                                                           *)

\* What the matches of a channel, and those of a set, are worth to a series.
WorthOf(q, s) == [k \in DOMAIN q |-> Worth(s, q[k].line)]
WorthIn(G, s) == [d \in G |-> Worth(s, d[2].line)]

\* A match that is appended adds its worth to that of the channel.
LEMMA WorthAppended ==
    ASSUME NEW q \in Seq(Matches), NEW m \in Matches, NEW s,
           \A k \in DOMAIN q : Worth(s, q[k].line) \in Int, Worth(s, m.line) \in Int
    PROVE  SumFunction(WorthOf(Append(q, m), s)) = SumFunction(WorthOf(q, s)) + Worth(s, m.line)
<1> DEFINE r == Append(q, m)
           n == Len(q)
           f == WorthOf(q, s)
           g == WorthOf(r, s)
<1>1. /\ n \in Nat /\ DOMAIN r = 1 .. n + 1 /\ DOMAIN q = 1 .. n
      /\ r[n + 1] = m /\ \A j \in 1 .. n : r[j] = q[j]
  BY AppendProperties
<1> HIDE DEF r, n
<1>2. /\ DOMAIN f = 1 .. n /\ DOMAIN g = 1 .. n + 1
      /\ g[n + 1] = Worth(s, m.line)
      /\ \A k \in 1 .. n : g[k] = f[k]
      /\ \A k \in 1 .. n : f[k] \in Int
  BY <1>1 DEF WorthOf
<1> HIDE DEF f, g
<1>3. \A k \in 1 .. n + 1 : g[k] \in Int
  BY <1>1, <1>2
<1>4. SumFunctionOnSet(g, 1 .. n + 1) = SumFunctionOnSet(f, 1 .. n) + g[n + 1]
  BY ONLY <1>1, <1>2, <1>3, SumAppended
<1>5. SumFunction(g) = SumFunction(f) + Worth(s, m.line)
  BY <1>2, <1>4, Zenon DEF SumFunction
<1> QED
  BY <1>5 DEF f, g, r

\* The worth of a channel is that of its first match and of the rest.
LEMMA WorthOfTail ==
    ASSUME NEW q, NEW r, NEW n, IsTail(r, q, n), NEW s,
           \A k \in DOMAIN q : Worth(s, q[k].line) \in Int
    PROVE  /\ SumFunction(WorthOf(q, s)) = Worth(s, q[1].line) + SumFunction(WorthOf(r, s))
           /\ SumFunction(WorthOf(r, s)) \in Int
<1> DEFINE f == WorthOf(q, s)
           g == WorthOf(r, s)
           m == n - 1
<1>1. /\ n \in Nat \ {0} /\ DOMAIN q = 1 .. n /\ DOMAIN r = 1 .. n - 1
      /\ \A k \in 1 .. n - 1 : r[k] = q[k + 1]
  BY DEF IsTail
<1>2. m \in Nat /\ m + 1 = n /\ 1 \in 1 .. m + 1
  BY <1>1
<1>3. /\ DOMAIN f = 1 .. m + 1 /\ DOMAIN g = 1 .. m
      /\ f[1] = Worth(s, q[1].line)
      /\ \A k \in 1 .. m + 1 : f[k] \in Int
      /\ \A k \in 1 .. m : g[k] = f[k + 1]
  BY <1>1, <1>2 DEF WorthOf
<1> HIDE DEF f, g, m
<1>4. SumFunctionOnSet(f, 1 .. m + 1) = f[1] + SumFunctionOnSet(g, 1 .. m)
  BY ONLY <1>2, <1>3, SumOfTail
<1>5. SumFunctionOnSet(g, 1 .. m) \in Int
  <2>1. \A k \in 1 .. m : g[k] \in Int
    BY <1>2, <1>3
  <2>2. IsFiniteSet(1 .. m)
    BY <1>2, FS_Interval
  <2> QED
    BY ONLY <2>1, <2>2, SumIsInt
<1>6. SumFunction(f) = Worth(s, q[1].line) + SumFunction(g) /\ SumFunction(g) \in Int
  BY <1>3, <1>4, <1>5, Zenon DEF SumFunction
<1> QED
  BY <1>6 DEF f, g

\* It is a number.
LEMMA WorthOfIsInt ==
    ASSUME NEW q \in Seq(Matches), NEW s, \A k \in DOMAIN q : Worth(s, q[k].line) \in Int
    PROVE  SumFunction(WorthOf(q, s)) \in Int
<1> DEFINE f == WorthOf(q, s)
<1>1. DOMAIN f = 1 .. Len(q) /\ Len(q) \in Nat /\ \A k \in DOMAIN f : f[k] \in Int
  BY DEF WorthOf
<1>2. IsFiniteSet(DOMAIN f)
  BY <1>1, FS_Interval
<1> HIDE DEF f
<1>3. SumFunctionOnSet(f, DOMAIN f) \in Int
  BY ONLY <1>1, <1>2, SumIsInt
<1> QED
  BY <1>3, Zenon DEF SumFunction, f

\* A match that is sent adds the worth of its line to what is reported.
LEMMA WorthAdded ==
    ASSUME NEW G, IsFiniteSet(G), NEW d, d \notin G, NEW s,
           \A e \in G \cup {d} : Worth(s, e[2].line) \in Int
    PROVE  SumFunction(WorthIn(G \cup {d}, s)) = SumFunction(WorthIn(G, s)) + Worth(s, d[2].line)
<1> DEFINE H == G \cup {d}
           f == WorthIn(G, s)
           g == WorthIn(H, s)
<1>1. H \ {d} = G /\ d \in H /\ IsFiniteSet(H)
  BY FS_AddElement
<1>2. /\ DOMAIN f = G /\ DOMAIN g = H
      /\ \A e \in H : g[e] \in Int
      /\ \A e \in G : f[e] \in Int /\ f[e] = g[e]
      /\ g[d] = Worth(s, d[2].line)
  BY DEF WorthIn
<1> HIDE DEF H, f, g
<1>3. /\ SumFunctionOnSet(g, H) = g[d] + SumFunctionOnSet(g, H \ {d})
      /\ SumFunctionOnSet(g, H \ {d}) \in Int
  BY ONLY <1>1, <1>2, SumWithout
<1>4. SumFunctionOnSet(f, G) = SumFunctionOnSet(g, G)
  BY ONLY IsFiniteSet(G), <1>2, SumSame
<1>5. SumFunction(g) = SumFunctionOnSet(g, H) /\ SumFunction(f) = SumFunctionOnSet(f, G)
  BY <1>2, Zenon DEF SumFunction
<1>6. g[d] \in Int
  BY <1>1, <1>2
<1>7. SumFunction(g) = SumFunction(f) + g[d]
  <2>1. SumFunctionOnSet(g, H \ {d}) = SumFunctionOnSet(g, G)
    BY ONLY <1>1, Zenon
  <2>2. SumFunctionOnSet(g, G) \in Int
    BY ONLY <1>3, <2>1, Zenon
  <2> QED
    BY ONLY <1>3, <1>4, <1>5, <1>6, <2>1, <2>2
<1> QED
  BY <1>2, <1>7 DEF f, g, H

\* A counter, with what waits in the channel, is what the reported matches
\* are worth.
Balanced(s) ==
    restarts[FeedOf(s)] = 0 =>
        count[s] + SumFunction(WorthOf(out[FeedOf(s)], s))
            = SumFunction(WorthIn(given[FeedOf(s)], s))

\* The property, in terms of the sums of the proof.
LEMMA CountsAre == CountsEachMatchOnce <=> \A s \in Series : Balanced(s)
BY Zenon DEF CountsEachMatchOnce, Balanced, WorthOf, WorthIn

\* Both sums are 0.
LEMMA CountInitInv == Init => CountsEachMatchOnce
<1> SUFFICES ASSUME Init, NEW s \in Series PROVE Balanced(s)
  BY CountsAre
<1> DEFINE f == WorthOf(<<>>, s)
           g == WorthIn({}, s)
<1>1. DOMAIN f = {} /\ DOMAIN g = {}
  BY DEF WorthOf, WorthIn
<1> HIDE DEF f, g
<1>2. SumFunction(f) = 0 /\ SumFunction(g) = 0
  BY <1>1, SumOfNone, Zenon DEF SumFunction
<1>3. count[s] = 0 /\ out[FeedOf(s)] = <<>> /\ given[FeedOf(s)] = {}
  BY Fed DEF Init, FeedInit
<1> QED
  BY <1>2, <1>3 DEF Balanced, f, g

\* What the lines of a file, and those in its channel, are worth are numbers.
LEMMA WorthsAre ==
    ASSUME FeedInv, NEW s \in Series, NEW f \in Feeds
    PROVE  /\ \A k \in DOMAIN out[f] : Worth(s, out[f][k].line) \in Int
           /\ \A d \in due[f] : Worth(s, d[2].line) \in Int
<1>1. \A l \in Publishes[f] : Worth(s, l) \in Int
  BY WorthIsNat, TimesAre
<1> QED
  BY <1>1 DEF FeedInv, FileOK, SentOK

\* A match is sent: it is reported, and waits.
LEMMA CountDeliver ==
    ASSUME FeedInv, CountsEachMatchOnce, NEW f \in Feeds, Deliver(f),
           UNCHANGED <<collectorVars, history>>, NEW s \in Series
    PROVE  Balanced(s)'
<1>1. PICK d \in due[f] \ given[f] :
        /\ given' = [given EXCEPT ![f] = @ \cup {d}]
        /\ out' = [out EXCEPT ![f] = Append(@, d[2])]
        /\ d \in (1 .. MaxLines) \X Matches
  BY Delivered
<1>2. UNCHANGED <<count, restarts>>
  BY DEF collectorVars, history
<1>3. /\ given \in [Feeds -> SUBSET ((1 .. MaxLines) \X Matches)]
      /\ out \in [Feeds -> Seq(Matches)]
      /\ count \in [Series -> Nat]
  BY DEF FeedInv, TypeOK
<1>4. Balanced(s) /\ FeedOf(s) \in Feeds
  BY CountsAre, Fed
<1>5. CASE FeedOf(s) # f
  <2>1. given'[FeedOf(s)] = given[FeedOf(s)] /\ out'[FeedOf(s)] = out[FeedOf(s)]
    BY <1>1, <1>3, <1>4, <1>5
  <2> QED
    BY <1>2, <1>4, <2>1 DEF Balanced
<1>6. CASE FeedOf(s) = f /\ restarts[f] = 0
  <2> DEFINE G == given[f]
             q == out[f]
  <2>1. /\ q \in Seq(Matches) /\ d[2] \in Matches
        /\ out'[f] = Append(q, d[2]) /\ given'[f] = G \cup {d}
        /\ d \notin G /\ IsFiniteSet(G)
    BY <1>1, <1>3 DEF FeedInv, SentOK
  <2>2. /\ \A k \in DOMAIN q : Worth(s, q[k].line) \in Int
        /\ \A e \in G \cup {d} : Worth(s, e[2].line) \in Int
        /\ Worth(s, d[2].line) \in Int
    BY <1>1, WorthsAre DEF FeedInv, SentOK
  <2>8. count[s] + SumFunction(WorthOf(q, s)) = SumFunction(WorthIn(G, s)) /\ count[s] \in Int
    BY <1>3, <1>4, <1>6 DEF Balanced
  <2> HIDE DEF G, q
  <2>5. SumFunction(WorthOf(Append(q, d[2]), s)) = SumFunction(WorthOf(q, s)) + Worth(s, d[2].line)
    BY <2>1, <2>2, WorthAppended
  <2>6. SumFunction(WorthIn(G \cup {d}, s)) = SumFunction(WorthIn(G, s)) + Worth(s, d[2].line)
    BY <2>1, <2>2, WorthAdded
  <2>7. SumFunction(WorthOf(q, s)) \in Int
    BY <2>1, <2>2, WorthOfIsInt
  <2>9. count'[s] + SumFunction(WorthOf(out'[f], s)) = SumFunction(WorthIn(given'[f], s))
    BY <1>2, <2>1, <2>2, <2>5, <2>6, <2>7, <2>8
  <2> QED
    BY <1>6, <2>9 DEF Balanced
<1> QED
  BY <1>2, <1>5, <1>6 DEF Balanced

\* A match is taken: it no longer waits, and is counted.
LEMMA CountTake ==
    ASSUME FeedInv, CountsEachMatchOnce, NEW f \in Feeds, Take(f), NEW s \in Series
    PROVE  Balanced(s)'
<1>1. /\ out[f] # <<>> /\ out' = [out EXCEPT ![f] = Tail(@)]
      /\ UNCHANGED <<given, restarts>>
      /\ \E t \in TimesOf(Head(out[f]).line.at) : Classify(f, Head(out[f]).line, t)
  BY DEF Take, Receive, history
<1>2. /\ Head(out[f]) = out[f][1] /\ Head(out[f]).line \in Publishes[f]
      /\ Len(out[f]) \in Nat \ {0} /\ DOMAIN out[f] = 1 .. Len(out[f])
      /\ DOMAIN Tail(out[f]) = 1 .. Len(out[f]) - 1
      /\ \A k \in 1 .. Len(out[f]) - 1 : Tail(out[f])[k] = out[f][k + 1]
  BY <1>1, Taken
<1>3. out \in [Feeds -> Seq(Matches)] /\ count \in [Series -> Nat]
  BY DEF FeedInv, TypeOK
<1>4. out'[f] = Tail(out[f]) /\ \A h \in Feeds \ {f} : out'[h] = out[h]
  BY <1>1, <1>3
<1> DEFINE l == out[f][1].line
<1>5. PICK t \in TimesOf(l.at) : Classify(f, l, t)
  BY <1>1, <1>2
<1>6. count'[s] = count[s] + IF FeedOf(s) = f THEN Worth(s, l) ELSE 0
  <2>1. l \in Publishes[f]
    BY <1>2
  <2> HIDE DEF l
  <2> QED
    BY <1>3, <1>5, <2>1, ClassifyWorth
<1>7. IsTail(out'[f], out[f], Len(out[f]))
  BY <1>2, <1>4, Zenon DEF IsTail
<1>8. Balanced(s) /\ FeedOf(s) \in Feeds /\ count[s] \in Int
  BY <1>3, CountsAre, Fed
<1>9. CASE FeedOf(s) # f
  <2>1. out'[FeedOf(s)] = out[FeedOf(s)] /\ count'[s] = count[s]
    BY <1>4, <1>6, <1>8, <1>9
  <2> QED
    BY <1>1, <1>8, <2>1 DEF Balanced
<1>10. CASE FeedOf(s) = f
  <2>1. \A k \in DOMAIN out[f] : Worth(s, out[f][k].line) \in Int
    BY WorthsAre
  <2>2. /\ SumFunction(WorthOf(out[f], s)) = Worth(s, l) + SumFunction(WorthOf(out'[f], s))
        /\ SumFunction(WorthOf(out'[f], s)) \in Int
    BY <1>7, <2>1, WorthOfTail
  <2>3. Worth(s, l) \in Int
    BY <1>2, <2>1
  <2>4. count'[s] = count[s] + Worth(s, l)
    BY <1>6, <1>10
  <2> HIDE DEF l
  <2>5. count'[s] + SumFunction(WorthOf(out'[f], s)) = count[s] + SumFunction(WorthOf(out[f], s))
    BY <1>8, <2>2, <2>3, <2>4
  <2> QED
    BY <1>1, <1>8, <1>10, <2>5 DEF Balanced
<1> QED
  BY <1>9, <1>10

\* Every step keeps the two sides equal.
LEMMA CountNextInv == FeedInv /\ CountsEachMatchOnce /\ [Next]_vars => CountsEachMatchOnce'
<1> SUFFICES ASSUME FeedInv, CountsEachMatchOnce, [Next]_vars, NEW s \in Series
             PROVE  Balanced(s)'
  BY Zenon DEF CountsEachMatchOnce, Balanced, WorthOf, WorthIn
<1>0. Balanced(s) /\ FeedOf(s) \in Feeds
  BY CountsAre, Fed
<1>1. ASSUME NEW f \in Feeds, NEW lines \in Texts(f), StartFile(f, lines) PROVE Balanced(s)'
  <2>1. restarts'[f] # 0
    BY <1>1, StartInv
  <2>2. /\ due' = [due EXCEPT ![f] = FileOf(f, lines)]
        /\ given' = [given EXCEPT ![f] = {}]
        /\ restarts' = [restarts EXCEPT ![f] = IF @ < MaxRestarts THEN @ + 1 ELSE @]
        /\ UNCHANGED <<out, count>>
    BY <1>1, Zenon DEF StartFile, collectorVars
  <2>3. /\ restarts \in [Feeds -> 0 .. MaxRestarts]
        /\ given \in [Feeds -> SUBSET ((1 .. MaxLines) \X Matches)]
    BY DEF FeedInv, TypeOK
  <2>4. CASE FeedOf(s) = f
    BY <2>1, <2>4 DEF Balanced
  <2>5. CASE FeedOf(s) # f
    <3>1. restarts'[FeedOf(s)] = restarts[FeedOf(s)] /\ given'[FeedOf(s)] = given[FeedOf(s)]
      BY <1>0, <2>2, <2>3, <2>5
    <3> QED
      BY <1>0, <2>2, <3>1 DEF Balanced
  <2> QED
    BY <2>4, <2>5
<1>2. ASSUME UNCHANGED <<given, out, count, restarts>> PROVE Balanced(s)'
  BY <1>0, <1>2 DEF Balanced
<1>3. ASSUME NEW f \in Feeds, NEW lines \in Texts(f), Publish(f, lines) PROVE Balanced(s)'
  <2>1. UNCHANGED <<given, out, count, restarts>>
    BY <1>3 DEF Publish, collectorVars, history
  <2> QED
    BY <1>2, <2>1
<1>4. CASE UNCHANGED <<due, given, out, count, gauge, history>>
  BY <1>2, <1>4 DEF history
<1> QED
  BY <1>1, <1>3, <1>4, StepIs, CountTake, CountDeliver, Zenon

(***************************************************************************)
(* Until its feed starts another file, a counter is what the matches       *)
(* reported on its channel are worth, less those that wait there: no vote, *)
(* restart or alert is counted under two series or left out, whatever      *)
(* patterns a line matches and whatever the channels hold.                 *)
(***************************************************************************)
THEOREM CountsRight == Spec => []CountsEachMatchOnce
BY FeedInitInv, FeedNextInv, CountInitInv, CountNextInv, PTL DEF Spec

-----------------------------------------------------------------------------
(* The binary collector and its rules.                                     *)

\* The types, by whose variables they are of.
WorldTypes ==
    /\ now \in Times /\ disk \in [Comps -> Times] /\ server \in Times
    /\ downloading \in SUBSET Downloaded
    /\ told \in Seq(Publishes["download"]) /\ Len(told) <= MaxLines
LocalTypes ==
    /\ LocalLoop!TickerTypeOK /\ localDue \in Nat
    /\ next \in 1 .. Len(Targets) + 1 /\ localErr \in BOOLEAN
    /\ localMtime \in [Comps -> TimeOrNone]
RemoteTypes ==
    /\ RemoteLoop!TickerTypeOK /\ remoteDue \in Nat
    /\ answer \in Times \cup {NoAnswer, Failed}
    /\ lastRemote \in TimeOrNone /\ remoteMtime \in TimeOrNone
    /\ remoteOK \in {0, 1, NoValue}
WatchTypes ==
    /\ since \in [Comps -> TimeOrNone] /\ truth \in [Comps -> TimeOrNone]
    /\ calm \in [Comps -> TimeOrNone]
    /\ missed \in SUBSET Downloaded

\* The four parts make up the type invariant.
LEMMA TypesAre ==
    BinaryTypeOK <=> /\ WorldTypes /\ LocalTypes /\ RemoteTypes /\ WatchTypes
                     /\ headErrors \in Nat /\ releases \in Nat
BY Zenon DEF BinaryTypeOK, WorldTypes, LocalTypes, RemoteTypes, WatchTypes

\* The constants.
LEMMA Given ==
    /\ "download" \in Feeds /\ "download_logs" \in Collectors
    /\ Len(Targets) \in Nat /\ \A k \in 1 .. Len(Targets) : Targets[k] \in Comps
    /\ \A c \in Comps : \E k \in 1 .. Len(Targets) : Targets[k] = c
    /\ Downloaded \subseteq Comps /\ Downloaded \subseteq Children
    /\ Visor \in Comps /\ Visor \notin Children /\ Visor \notin Downloaded
    /\ StartTime \in Times /\ StartTime \in Nat
    /\ Every \in Nat /\ Poll \in Nat /\ Threshold \in Nat /\ For \in Nat
    /\ MaxTime \in Nat /\ MaxTicks \in Nat /\ MaxLines \in Nat
    /\ \A c \in Downloaded, t \in Times : DownloadLine(c, t) \in Publishes["download"]
<1>1. /\ "download" \in Feeds /\ Targets \in Seq(Comps)
      /\ Downloaded \subseteq Comps \cap Children /\ Visor \in Comps \ Children
      /\ StartTime <= MaxTime
      /\ Every \in Nat /\ Poll \in Nat /\ Threshold \in Nat /\ For \in Nat
      /\ MaxTime \in Nat /\ MaxTicks \in Nat
      /\ \A c \in Downloaded, t \in Times : DownloadLine(c, t) \in Publishes["download"]
  BY BinaryAssumption DEF BinaryAssumption, Times
<1>2. StartTime \in Nat /\ MaxLines \in Nat
  BY LogCollectorsAssumption DEF LogCollectorsAssumption
<1>3. Collector["download"] = "download_logs"
  BY DEF Collector
<1>4. "download_logs" \in Collectors
  BY <1>1, <1>3 DEF Collectors
<1>5. StartTime \in Times
  BY <1>1, <1>2 DEF Times
<1>6. Len(Targets) \in Nat /\ DOMAIN Targets = 1 .. Len(Targets)
  BY <1>1
<1>7. \A c \in Comps : \E k \in 1 .. Len(Targets) : Targets[k] = c
  BY <1>6 DEF Comps
<1>8. \A k \in 1 .. Len(Targets) : Targets[k] \in Comps
  BY <1>6 DEF Comps
<1> QED
  BY <1>1, <1>2, <1>4, <1>5, <1>6, <1>7, <1>8

\* The first state has the types.
LEMMA BinaryInitTypes == BinaryInit => BinaryTypeOK
<1> SUFFICES ASSUME BinaryInit PROVE BinaryTypeOK
  OBVIOUS
<1>1. WorldTypes
  <2>1. 0 \in Times
    BY Given DEF Times
  <2>2. told \in Seq(Publishes["download"]) /\ Len(told) <= MaxLines
    BY Given DEF BinaryInit
  <2> QED
    BY <2>1, <2>2, Given DEF BinaryInit, WorldTypes
<1>t. cancelled \in BOOLEAN
  BY FeedInitInv DEF BinaryInit, FeedInv, TypeOK
<1>2. LocalTypes
  <2>1. LocalLoop!TickerTypeOK
    BY <1>t, Given DEF BinaryInit, LocalLoop!TickerInit, LocalLoop!TickerTypeOK, LocalLoop!Kinds
  <2>2. localMtime \in [Comps -> TimeOrNone]
    BY DEF BinaryInit, TimeOrNone
  <2>3. localErr \in BOOLEAN
    BY Zenon DEF BinaryInit
  <2>4. localDue \in Nat /\ next \in 1 .. Len(Targets) + 1
    BY Given DEF BinaryInit
  <2> QED
    BY <2>1, <2>2, <2>3, <2>4, Zenon DEF LocalTypes
<1>3. RemoteTypes
  <2>1. RemoteLoop!TickerTypeOK
    BY <1>t, Given DEF BinaryInit, RemoteLoop!TickerInit, RemoteLoop!TickerTypeOK, RemoteLoop!Kinds
  <2> QED
    BY <2>1, Given DEF BinaryInit, RemoteTypes, TimeOrNone
<1>4. WatchTypes
  BY Given DEF BinaryInit, WatchTypes, TimeOrNone
<1>5. headErrors \in Nat /\ releases \in Nat
  BY DEF BinaryInit
<1> QED
  BY <1>1, <1>2, <1>3, <1>4, <1>5, TypesAre

\* What Watch does for one component.
LEMMA Watched ==
    ASSUME Watch, NEW c \in Comps
    PROVE  /\ since'[c] = IF Holds(c)' THEN (IF since[c] = NoValue THEN now ELSE since[c])
                          ELSE NoValue
           /\ truth'[c] = IF True(c)' THEN (IF truth[c] = NoValue THEN now ELSE truth[c])
                          ELSE NoValue
           /\ calm'[c] = IF ~True(c)' THEN (IF calm[c] = NoValue THEN now ELSE calm[c])
                         ELSE NoValue
BY Zenon DEF Watch, From

\* The times since which things are so are times of the clock.
LEMMA WatchTyped == ASSUME Watch, WorldTypes, WatchTypes PROVE WatchTypes'
<1>1. now \in TimeOrNone /\ NoValue \in TimeOrNone
  BY DEF WorldTypes, TimeOrNone
<1>2. \A b, t : t \in TimeOrNone => From(b, t) \in TimeOrNone
  BY <1>1, Zenon DEF From
<1>3. /\ since' = [c \in Comps |-> From(Holds(c)', since[c])]
      /\ truth' = [c \in Comps |-> From(True(c)', truth[c])]
      /\ calm' = [c \in Comps |-> From(~True(c)', calm[c])]
      /\ missed' \in SUBSET Downloaded
  BY Zenon DEF Watch
<1>4. since' \in [Comps -> TimeOrNone]
  <2>1. \A c \in Comps : From(Holds(c)', since[c]) \in TimeOrNone
    BY <1>2, Zenon DEF WatchTypes
  <2> QED
    BY <1>3, <2>1, Zenon
<1>5. truth' \in [Comps -> TimeOrNone]
  <2>1. \A c \in Comps : From(True(c)', truth[c]) \in TimeOrNone
    BY <1>2, Zenon DEF WatchTypes
  <2> QED
    BY <1>3, <2>1, Zenon
<1>6. calm' \in [Comps -> TimeOrNone]
  <2>1. \A c \in Comps : From(~True(c)', calm[c]) \in TimeOrNone
    BY <1>2, Zenon DEF WatchTypes
  <2> QED
    BY <1>3, <2>1, Zenon
<1> QED
  BY <1>3, <1>4, <1>5, <1>6, Zenon DEF WatchTypes

\* The steps, and what each leaves alone.
WorldStep ==
    World /\ UNCHANGED <<localVars, remoteVars>>
Logged ==
    LogStep /\ UNCHANGED <<world, localVars, remoteVars, headErrors, releases>>
LocalStep ==
    /\ LocalBegin \/ Stat \/ LocalEnd
    /\ UNCHANGED <<logVars, world, remoteVars, headErrors, releases>>
RemoteStep ==
    /\ RemoteBegin \/ HeadVisor \/ HeadFailed \/ HeadSucceeded
    /\ UNCHANGED <<logVars, world, localVars, releases>>

\* Every step belongs to one of the four, and watches.
LEMMA BinarySteps ==
    ASSUME BinaryNext
    PROVE  Watch /\ (WorldStep \/ Logged \/ LocalStep \/ RemoteStep)
<1>1. CASE World
  BY <1>1, Zenon DEF BinaryNext, WorldStep, World, Advance, Announce, Install, StartDownload, FinishDownload
<1>2. CASE LogStep
  BY <1>2, Zenon DEF BinaryNext, Logged, LogStep
<1>3. CASE LocalBegin \/ Stat \/ LocalEnd
  BY <1>3, Zenon DEF BinaryNext, LocalStep, LocalBegin, Stat, LocalEnd, LocalKeeps
<1>4. CASE RemoteBegin \/ HeadVisor \/ HeadFailed \/ HeadSucceeded
  BY <1>4, Zenon DEF BinaryNext, RemoteStep, RemoteBegin, HeadVisor, HeadFailed, HeadSucceeded, RemoteKeeps
<1> QED
  BY <1>1, <1>2, <1>3, <1>4, Zenon DEF BinaryNext

\* What the visor writes, and what a file may hold of what it has written.
LEMMA LogTexts ==
    ASSUME WorldTypes
    PROVE  /\ \A c \in Downloaded : DownloadLine(c, now) \in Publishes["download"]
           /\ \A c \in Downloaded : Len(told) < MaxLines =>
                 [p \in {Len(told) + 1} |-> DownloadLine(c, now)] \in Texts("download")
           /\ \A P \in SUBSET DOMAIN told : Restrict(told, P) \in Texts("download")
<1>1. /\ now \in Times /\ told \in Seq(Publishes["download"]) /\ Len(told) <= MaxLines
      /\ Len(told) \in Nat /\ DOMAIN told = 1 .. Len(told) /\ MaxLines \in Nat
  BY Given DEF WorldTypes
<1>2. \A c \in Downloaded : DownloadLine(c, now) \in Publishes["download"]
  BY <1>1, Given
<1>3. ASSUME NEW c \in Downloaded, Len(told) < MaxLines
      PROVE  [p \in {Len(told) + 1} |-> DownloadLine(c, now)] \in Texts("download")
  <2> DEFINE P == {Len(told) + 1}
             l == DownloadLine(c, now)
  <2>1. P \in SUBSET (1 .. MaxLines)
    BY <1>1, <1>3
  <2>2. l \in Publishes["download"]
    BY <1>2
  <2> HIDE DEF P, l
  <2>3. [p \in P |-> l] \in [P -> Publishes["download"]]
    BY <2>2
  <2>4. [p \in P |-> l] \in Texts("download")
    BY ONLY <2>1, <2>3 DEF Texts
  <2> QED
    BY <2>4 DEF P, l
<1>4. ASSUME NEW P \in SUBSET DOMAIN told PROVE Restrict(told, P) \in Texts("download")
  <2>1. P \in SUBSET (1 .. MaxLines)
    BY <1>1
  <2>2. Restrict(told, P) \in [P -> Publishes["download"]]
    BY <1>1 DEF Restrict
  <2> QED
    BY ONLY <2>1, <2>2 DEF Texts
<1> QED
  BY <1>2, <1>3, <1>4

\* The logs take the steps of LogCollectors, without an end.
LEMMA LogMoves ==
    ASSUME WorldTypes, BinaryNext
    PROVE  [Next]_vars
<1>0. UNCHANGED logVars => UNCHANGED vars
  BY Zenon DEF vars, logVars
<1>1. CASE WorldStep
  <2>1. ASSUME NEW c \in Downloaded, StartDownload(c) PROVE Next
    <3> DEFINE lines == [p \in {Len(told) + 1} |-> DownloadLine(c, now)]
    <3>1. Publish("download", lines) /\ Len(told) < MaxLines
      BY <2>1, Zenon DEF StartDownload
    <3>2. lines \in Texts("download")
      BY <3>1, LogTexts
    <3> HIDE DEF lines
    <3> QED
      BY <3>1, <3>2, Given, Zenon DEF Next
  <2>2. ASSUME ~ \E c \in Downloaded : StartDownload(c) PROVE UNCHANGED logVars
    BY <1>1, <2>2, Zenon DEF WorldStep, World, Advance, Announce, Install, FinishDownload
  <2> QED
    BY <1>0, <2>1, <2>2
<1>2. CASE Logged
  <2>1. ASSUME StartLog PROVE Next
    <3>1. PICK P \in SUBSET DOMAIN told : StartFile("download", Restrict(told, P))
      BY <2>1, Zenon DEF StartLog
    <3>2. Restrict(told, P) \in Texts("download")
      BY LogTexts
    <3> QED
      BY <3>1, <3>2, Given, Zenon DEF Next
  <2>2. LogStep
    BY <1>2, Zenon DEF Logged
  <2> QED
    BY <2>1, <2>2, Given, Zenon DEF LogStep, Next
<1>3. CASE LocalStep \/ RemoteStep
  BY <1>0, <1>3, Zenon DEF LocalStep, RemoteStep
<1> QED
  BY <1>1, <1>2, <1>3, BinarySteps

\* So what holds of the files and the feeds there holds here.
LEMMA LogKeeps == FeedInv /\ BinaryTypeOK /\ [BinaryNext]_allVars => FeedInv'
<1>1. ASSUME UNCHANGED allVars PROVE UNCHANGED vars
  BY <1>1, Zenon DEF allVars, logVars, vars
<1>2. BinaryTypeOK => WorldTypes
  BY TypesAre
<1> QED
  BY <1>1, <1>2, LogMoves, FeedNextInv

\* The world keeps its types, and the clock moves by one.
LEMMA WorldTyped ==
    ASSUME WorldTypes, BinaryNext
    PROVE  WorldTypes' /\ (now' = now \/ now' = now + 1)
<1>0. now \in Nat /\ MaxTime \in Nat /\ \A t : t \in Times <=> t \in 0 .. MaxTime
  BY Given DEF WorldTypes, Times
<1>1. CASE Advance
  <2>1. now < MaxTime /\ now' = now + 1 /\ UNCHANGED <<disk, server, downloading, told>>
    BY <1>1 DEF Advance
  <2>2. now' \in Times
    BY <1>0, <2>1
  <2> QED
    BY <2>1, <2>2 DEF WorldTypes, Times
<1>2. CASE Announce
  BY <1>2 DEF Announce, WorldTypes
<1>3. CASE Install
  BY <1>3 DEF Install, WorldTypes
<1>4. ASSUME NEW c \in Downloaded, StartDownload(c) PROVE WorldTypes' /\ now' = now
  <2>1. /\ told' = Append(told, DownloadLine(c, now)) /\ Len(told) < MaxLines
        /\ downloading' = downloading \cup {c} /\ UNCHANGED <<now, disk, server>>
    BY <1>4, Zenon DEF StartDownload
  <2>2. /\ told \in Seq(Publishes["download"]) /\ DownloadLine(c, now) \in Publishes["download"]
        /\ MaxLines \in Nat
    BY LogTexts, Given DEF WorldTypes
  <2>3. told' \in Seq(Publishes["download"]) /\ Len(told') <= MaxLines
    BY <2>1, <2>2
  <2> QED
    BY <2>1, <2>3 DEF WorldTypes
<1>5. ASSUME NEW c \in Downloaded, FinishDownload(c) PROVE WorldTypes' /\ now' = now
  BY <1>5 DEF FinishDownload, WorldTypes
<1>6. CASE Logged \/ LocalStep \/ RemoteStep
  <2>1. UNCHANGED world
    BY <1>6, Zenon DEF Logged, LocalStep, RemoteStep
  <2> QED
    BY <2>1 DEF world, WorldTypes
<1> QED
  BY <1>1, <1>2, <1>3, <1>4, <1>5, <1>6, BinarySteps DEF WorldStep, World

\* The local ticker keeps its types.
LEMMA LocalTyped ==
    ASSUME WorldTypes, LocalTypes, BinaryNext, cancelled' \in BOOLEAN
    PROVE  LocalTypes'
<1>0. /\ now \in Nat /\ Every \in Nat /\ next \in Nat /\ Len(Targets) \in Nat
      /\ localMtime \in [Comps -> TimeOrNone] /\ localErr \in BOOLEAN
      /\ \A c \in Comps : disk[c] \in TimeOrNone
  <2>1. localMtime \in [Comps -> TimeOrNone] /\ localErr \in BOOLEAN
    BY Zenon DEF LocalTypes
  <2> QED
    BY <2>1, Given DEF WorldTypes, LocalTypes, Times, TimeOrNone
<1> USE DEF LocalLoop!TickerTypeOK, LocalLoop!Kinds, LocalLoop!NoError
<1>1. CASE LocalBegin
  <2>1. /\ LocalLoop!BeginTick /\ localDue' = now + Every /\ next' = 1 /\ localErr' = FALSE
        /\ UNCHANGED localMtime
    BY <1>1 DEF LocalBegin
  <2>2. LocalLoop!TickerTypeOK'
    BY <2>1, Given DEF LocalTypes, LocalLoop!BeginTick
  <2>3. localErr' \in BOOLEAN
    BY <2>1, Zenon
  <2>4. localDue' \in Nat /\ next' \in 1 .. Len(Targets) + 1 /\ localMtime' \in [Comps -> TimeOrNone]
    BY <1>0, <2>1
  <2> QED
    BY <2>2, <2>3, <2>4, Zenon DEF LocalTypes
<1>2. CASE Stat
  <2>1. /\ next <= Len(Targets) /\ next' = next + 1
        /\ UNCHANGED <<localPhase, localTicks, localErrors, localDue>>
        /\ localMtime' \in {localMtime, [localMtime EXCEPT ![Targets[next]] = disk[Targets[next]]]}
    BY <1>2 DEF Stat
  <2>2. localErr' \in BOOLEAN
    BY <1>0, <1>2, Zenon DEF Stat
  <2>3. next \in 1 .. Len(Targets)
    BY <1>0, <2>1 DEF LocalTypes
  <2>4. disk[Targets[next]] \in TimeOrNone
    BY <1>0, <2>3, Given
  <2>5. localMtime' \in [Comps -> TimeOrNone]
    BY <1>0, <2>1, <2>4
  <2>6. LocalLoop!TickerTypeOK' /\ localDue' \in Nat
    BY <2>1 DEF LocalTypes
  <2>7. next' \in 1 .. Len(Targets) + 1
    BY <1>0, <2>1, <2>3
  <2> QED
    BY <2>2, <2>5, <2>6, <2>7, Zenon DEF LocalTypes
<1>3. CASE LocalEnd
  <2>1. /\ LocalLoop!EndTick("io") \/ LocalLoop!EndTick("none")
        /\ UNCHANGED <<localDue, next, localErr, localMtime>>
    BY <1>3, Zenon DEF LocalEnd
  <2>2. LocalLoop!TickerTypeOK'
    BY <2>1 DEF LocalTypes, LocalLoop!EndTick
  <2> QED
    BY <2>1, <2>2, Zenon DEF LocalTypes
<1>4. CASE UNCHANGED localVars
  <2>1. LocalLoop!TickerTypeOK'
    BY <1>4 DEF localVars, LocalTypes
  <2> QED
    BY <1>4, <2>1, Zenon DEF localVars, LocalTypes
<1> QED
  BY <1>1, <1>2, <1>3, <1>4, BinarySteps, Zenon DEF WorldStep, Logged, LocalStep, RemoteStep

\* The remote ticker keeps its types.
LEMMA RemoteTyped ==
    ASSUME WorldTypes, RemoteTypes, headErrors \in Nat, BinaryNext, cancelled' \in BOOLEAN
    PROVE  RemoteTypes' /\ headErrors' \in Nat
<1>0. now \in Nat /\ Every \in Nat /\ server \in Times
  BY Given DEF WorldTypes, Times
<1> USE DEF RemoteLoop!TickerTypeOK, RemoteLoop!Kinds, RemoteLoop!NoError, RemoteTypes, TimeOrNone
<1>1. CASE RemoteBegin
  <2>1. /\ RemoteLoop!BeginTick /\ remoteDue' = now + Every
        /\ UNCHANGED <<answer, lastRemote, remoteMtime, remoteOK, headErrors>>
    BY <1>1 DEF RemoteBegin
  <2>2. RemoteLoop!TickerTypeOK'
    BY <2>1, Given DEF RemoteLoop!BeginTick
  <2>3. remoteDue' \in Nat
    BY <1>0, <2>1
  <2> QED
    BY <2>1, <2>2, <2>3
<1>2. CASE HeadVisor
  BY <1>0, <1>2 DEF HeadVisor
<1>3. CASE HeadFailed
  <2>1. /\ RemoteLoop!EndTick("api") /\ answer' = NoAnswer /\ remoteOK' = 0
        /\ remoteMtime' \in {remoteMtime, lastRemote}
        /\ UNCHANGED <<remoteDue, lastRemote, headErrors>>
    BY <1>3 DEF HeadFailed
  <2>2. RemoteLoop!TickerTypeOK'
    BY <2>1 DEF RemoteLoop!EndTick
  <2> QED
    BY <2>1, <2>2
<1>4. CASE HeadSucceeded
  <2>1. /\ RemoteLoop!EndTick("none") /\ answer' = NoAnswer /\ remoteOK' = 1
        /\ answer \in Times /\ remoteMtime' = answer /\ lastRemote' = answer
        /\ UNCHANGED <<remoteDue, headErrors>>
    BY <1>4 DEF HeadSucceeded
  <2>2. RemoteLoop!TickerTypeOK'
    BY <2>1 DEF RemoteLoop!EndTick
  <2> QED
    BY <2>1, <2>2
<1>5. CASE UNCHANGED remoteVars
  <2>1. RemoteTypes'
    BY <1>5 DEF remoteVars
  <2>2. headErrors' \in Nat
    <3>1. headErrors' \in {headErrors, 0} \/ RemoteStep
      BY BinarySteps, Zenon DEF WorldStep, World, Advance, Announce, Install, StartDownload,
         FinishDownload, Logged, LocalStep
    <3>2. CASE RemoteStep
      BY <3>2 DEF RemoteStep, RemoteBegin, HeadVisor, HeadFailed, HeadSucceeded
    <3> QED
      BY <3>1, <3>2
  <2> QED
    BY <2>1, <2>2
<1> QED
  BY <1>1, <1>2, <1>3, <1>4, <1>5, BinarySteps, Zenon DEF WorldStep, Logged, LocalStep, RemoteStep

\* Every step keeps the types.
LEMMA BinaryTyped ==
    FeedInv /\ BinaryTypeOK /\ [BinaryNext]_allVars => BinaryTypeOK'
<1> SUFFICES ASSUME FeedInv, BinaryTypeOK, [BinaryNext]_allVars PROVE BinaryTypeOK'
  OBVIOUS
<1>t. WorldTypes /\ LocalTypes /\ RemoteTypes /\ WatchTypes /\ headErrors \in Nat /\ releases \in Nat
  BY TypesAre
<1>1. CASE BinaryNext
  <2>1. cancelled' \in BOOLEAN
    BY <1>1, LogKeeps DEF FeedInv, TypeOK
  <2>2. WorldTypes' /\ LocalTypes' /\ RemoteTypes' /\ WatchTypes' /\ headErrors' \in Nat
    BY <1>1, <1>t, <2>1, WorldTyped, LocalTyped, RemoteTyped, WatchTyped, BinarySteps
  <2>3. releases' \in {releases, releases + 1}
    BY <1>1, BinarySteps, Zenon DEF WorldStep, World, Advance, Announce, Install, StartDownload,
       FinishDownload, Logged, LocalStep, RemoteStep
  <2>4. releases' \in Nat
    BY <1>t, <2>3
  <2> QED
    BY <2>2, <2>4, Zenon DEF BinaryTypeOK, WorldTypes, LocalTypes, RemoteTypes, WatchTypes
<1>2. CASE UNCHANGED allVars
  BY <1>2, <1>t, Zenon DEF allVars, logVars, feedVars, collectorVars, binaryVars, world,
     localVars, remoteVars, watch, BinaryTypeOK, LocalLoop!TickerTypeOK, RemoteLoop!TickerTypeOK
<1> QED
  BY <1>1, <1>2

(***************************************************************************)
(* Every variable of the binary collector keeps its type: in particular    *)
(* the remote mtime is a time the server gave, whether HEADs fail or not.  *)
(***************************************************************************)
THEOREM BinaryTypes == BinarySpec => []BinaryTypeOK
<1>1. BinaryInit => FeedInv
  BY FeedInitInv DEF BinaryInit
<1> QED
  BY <1>1, BinaryInitTypes, LogKeeps, BinaryTyped, PTL DEF BinarySpec

-----------------------------------------------------------------------------
(* The clock, the files and the server.                                    *)

\* A tick that is due, or under way, keeps the clock where it is.
ClockInv ==
    /\ now <= localDue /\ localDue <= now + Every
    /\ now <= remoteDue /\ remoteDue <= now + Every
    /\ localPhase = "busy" => localDue = now + Every
    /\ remotePhase = "busy" => remoteDue = now + Every
    /\ remotePhase # "busy" => answer = NoAnswer

\* A gauge is never ahead of the file, or of the server, that it tells of.
WorldInv ==
    /\ \A c \in Comps : disk[c] <= now /\ localMtime[c] <= disk[c]
    /\ server <= now
    /\ lastRemote = remoteMtime /\ remoteMtime <= server
    /\ answer \in Times => remoteMtime <= answer /\ answer <= server

\* The numbers among the variables.
LEMMA Numbers ==
    ASSUME BinaryTypeOK
    PROVE  /\ now \in Nat /\ server \in Nat /\ localDue \in Nat /\ remoteDue \in Nat
           /\ next \in Nat /\ headErrors \in Nat /\ answer \in Int
           /\ lastRemote \in Int /\ remoteMtime \in Int
           /\ disk \in [Comps -> Nat] /\ localMtime \in [Comps -> Int]
           /\ \A c \in Comps : since[c] \in Int /\ truth[c] \in Int /\ calm[c] \in Int
           /\ \A t \in Times : t \in Nat
<1>1. \A t \in Times : t \in Nat
  BY Given DEF Times
<1>2. \A t \in TimeOrNone : t \in Int
  BY <1>1 DEF TimeOrNone, NoValue
<1>3. WorldTypes /\ LocalTypes /\ RemoteTypes /\ WatchTypes /\ headErrors \in Nat
  BY TypesAre
<1>4. now \in Nat /\ server \in Nat /\ disk \in [Comps -> Nat]
  BY <1>1, <1>3 DEF WorldTypes
<1>5. localDue \in Nat /\ next \in Nat /\ localMtime \in [Comps -> Int]
  <2>1. localDue \in Nat /\ next \in 1 .. Len(Targets) + 1 /\ localMtime \in [Comps -> TimeOrNone]
    BY <1>3, Zenon DEF LocalTypes
  <2> QED
    BY <1>2, <2>1, Given
<1>6. remoteDue \in Nat /\ answer \in Int /\ lastRemote \in Int /\ remoteMtime \in Int
  BY <1>1, <1>2, <1>3 DEF RemoteTypes, NoAnswer, Failed
<1>7. \A c \in Comps : since[c] \in Int /\ truth[c] \in Int /\ calm[c] \in Int
  BY <1>2, <1>3 DEF WatchTypes
<1> QED
  BY <1>1, <1>3, <1>4, <1>5, <1>6, <1>7

\* No gauge is set, no tick under way, and the first ones are due.
LEMMA BinaryInitWorld == BinaryInit => ClockInv /\ WorldInv
<1> SUFFICES ASSUME BinaryInit PROVE ClockInv /\ WorldInv
  OBVIOUS
<1>1. /\ now = StartTime /\ server = 0 /\ localDue = StartTime /\ remoteDue = StartTime
      /\ localPhase = "start" /\ remotePhase = "start" /\ answer = NoAnswer
      /\ lastRemote = NoValue /\ remoteMtime = NoValue
  BY DEF BinaryInit, LocalLoop!TickerInit, RemoteLoop!TickerInit
<1>2. \A c \in Comps : disk[c] = 0 /\ localMtime[c] = NoValue
  BY DEF BinaryInit
<1>3. ClockInv
  BY <1>1, Given DEF ClockInv
<1>4. WorldInv
  BY <1>1, <1>2, Given DEF WorldInv, NoValue, NoAnswer, Times
<1> QED
  BY <1>3, <1>4

\* Every step keeps the clock within an interval of the ticks.
LEMMA ClockKeeps == ASSUME BinaryTypeOK, ClockInv, BinaryNext PROVE ClockInv'
<1>0. now \in Nat /\ localDue \in Nat /\ remoteDue \in Nat /\ Every \in Nat
  BY Numbers, Given
<1> USE <1>0 DEF ClockInv
<1>1. CASE Advance
  BY <1>1 DEF Advance, localVars, remoteVars
<1>2. CASE WorldStep /\ ~Advance
  <2>1. now' = now /\ UNCHANGED <<localVars, remoteVars>>
    BY <1>2, Zenon DEF WorldStep, World, Announce, Install, StartDownload, FinishDownload
  <2> QED
    BY <2>1 DEF localVars, remoteVars
<1>3. CASE Logged
  BY <1>3 DEF Logged, world, localVars, remoteVars
<1>4. CASE LocalStep
  <2>1. now' = now /\ UNCHANGED remoteVars
    BY <1>4 DEF LocalStep, world
  <2>2. CASE LocalBegin
    BY <2>1, <2>2 DEF LocalBegin, remoteVars
  <2>3. CASE Stat \/ LocalEnd
    BY <2>1, <2>3 DEF Stat, LocalEnd, LocalLoop!EndTick, remoteVars
  <2> QED
    BY <1>4, <2>2, <2>3 DEF LocalStep
<1>5. CASE RemoteStep
  <2>1. now' = now /\ UNCHANGED localVars
    BY <1>5 DEF RemoteStep, world
  <2>2. CASE RemoteBegin
    BY <2>1, <2>2 DEF RemoteBegin, RemoteLoop!BeginTick, localVars
  <2>3. CASE HeadVisor
    BY <2>1, <2>3 DEF HeadVisor, localVars
  <2>4. CASE HeadFailed \/ HeadSucceeded
    BY <2>1, <2>4 DEF HeadFailed, HeadSucceeded, RemoteLoop!EndTick, localVars
  <2> QED
    BY <1>5, <2>2, <2>3, <2>4 DEF RemoteStep
<1> QED
  BY <1>1, <1>2, <1>3, <1>4, <1>5, BinarySteps

\* Every step keeps the gauges behind the files and the server.
LEMMA WorldKeeps == ASSUME BinaryTypeOK, WorldInv, BinaryNext PROVE WorldInv'
<1>0. /\ now \in Nat /\ server \in Nat /\ remoteMtime \in Int
      /\ disk \in [Comps -> Nat] /\ localMtime \in [Comps -> Int]
      /\ \A t \in Times : t \in Nat
      /\ NoAnswer \notin Times /\ Failed \notin Times
  BY Numbers DEF NoAnswer, Failed
<1> USE <1>0 DEF WorldInv
<1>1. CASE WorldStep
  <2>1. UNCHANGED <<localMtime, answer, lastRemote, remoteMtime>>
    BY <1>1 DEF WorldStep, localVars, remoteVars
  <2>2. CASE Advance
    BY <2>1, <2>2 DEF Advance
  <2>3. CASE Announce
    BY <2>1, <2>3 DEF Announce
  <2>4. CASE Install
    BY <2>1, <2>4 DEF Install
  <2>5. ASSUME NEW c \in Downloaded, StartDownload(c) PROVE WorldInv'
    BY <2>1, <2>5 DEF StartDownload
  <2>6. ASSUME NEW c \in Downloaded, FinishDownload(c) PROVE WorldInv'
    BY <2>1, <2>6 DEF FinishDownload
  <2> QED
    BY <1>1, <2>2, <2>3, <2>4, <2>5, <2>6 DEF WorldStep, World
<1>2. CASE Logged
  BY <1>2 DEF Logged, world, localVars, remoteVars
<1>3. CASE LocalStep
  <2>1. UNCHANGED <<now, disk, server, answer, lastRemote, remoteMtime>>
    BY <1>3 DEF LocalStep, world, remoteVars
  <2>2. CASE LocalBegin \/ LocalEnd
    BY <2>1, <2>2 DEF LocalBegin, LocalEnd
  <2>3. CASE Stat
    BY <2>1, <2>3 DEF Stat
  <2> QED
    BY <1>3, <2>2, <2>3 DEF LocalStep
<1>4. CASE RemoteStep
  <2>1. UNCHANGED <<now, disk, server, localMtime>>
    BY <1>4 DEF RemoteStep, world, localVars
  <2>2. CASE RemoteBegin
    BY <2>1, <2>2 DEF RemoteBegin
  <2>3. CASE HeadVisor
    BY <2>1, <2>3 DEF HeadVisor
  <2>4. CASE HeadFailed
    BY <2>1, <2>4 DEF HeadFailed
  <2>5. CASE HeadSucceeded
    BY <2>1, <2>5 DEF HeadSucceeded
  <2> QED
    BY <1>4, <2>2, <2>3, <2>4, <2>5 DEF RemoteStep
<1> QED
  BY <1>1, <1>2, <1>3, <1>4, BinarySteps

\* Since when things are so: they are so now, and since then.
WatchInv ==
    \A c \in Comps :
        /\ since[c] # NoValue <=> Holds(c)
        /\ truth[c] # NoValue <=> True(c)
        /\ calm[c] # NoValue <=> ~True(c)
        /\ since[c] <= now /\ truth[c] <= now /\ calm[c] <= now

\* No rule holds without a sample.
LEMMA BinaryInitWatch == BinaryInit => WatchInv
<1> SUFFICES ASSUME BinaryInit, NEW c \in Comps
             PROVE  /\ since[c] # NoValue <=> Holds(c)
                    /\ truth[c] # NoValue <=> True(c)
                    /\ calm[c] # NoValue <=> ~True(c)
                    /\ since[c] <= now /\ truth[c] <= now /\ calm[c] <= now
  BY Zenon DEF WatchInv
<1>1. /\ since[c] = NoValue /\ truth[c] = NoValue /\ calm[c] = StartTime
      /\ localMtime[c] = NoValue /\ now = StartTime
  BY DEF BinaryInit
<1>2. ~Holds(c)
  BY <1>1, Zenon DEF Holds, Exceeds
<1>3. ~True(c)
  BY <1>1, Zenon DEF True
<1> QED
  BY <1>1, <1>2, <1>3, Given DEF NoValue

\* Every step keeps the times with what they are of.
LEMMA WatchKeeps == ASSUME BinaryTypeOK, WatchInv, BinaryNext PROVE WatchInv'
<1>0. now \in Nat /\ now' \in Nat /\ now <= now'
  <2>1. WorldTypes
    BY TypesAre
  <2>2. now \in Nat /\ now' \in {now, now + 1}
    BY <2>1, Numbers, WorldTyped
  <2> QED
    BY <2>2
<1> SUFFICES ASSUME NEW c \in Comps
             PROVE  /\ since'[c] # NoValue <=> Holds(c)'
                    /\ truth'[c] # NoValue <=> True(c)'
                    /\ calm'[c] # NoValue <=> ~True(c)'
                    /\ since'[c] <= now' /\ truth'[c] <= now' /\ calm'[c] <= now'
  BY Zenon DEF WatchInv
<1> DEFINE H == Holds(c)'
           T == True(c)'
<1>1. /\ since'[c] = IF H THEN (IF since[c] = NoValue THEN now ELSE since[c]) ELSE NoValue
      /\ truth'[c] = IF T THEN (IF truth[c] = NoValue THEN now ELSE truth[c]) ELSE NoValue
      /\ calm'[c] = IF ~T THEN (IF calm[c] = NoValue THEN now ELSE calm[c]) ELSE NoValue
  BY BinarySteps, Watched
<1>2. since[c] <= now /\ truth[c] <= now /\ calm[c] <= now
  BY Zenon DEF WatchInv
<1>3. since[c] \in Int /\ truth[c] \in Int /\ calm[c] \in Int
  BY Numbers
<1> HIDE DEF H, T
<1>4. /\ since'[c] # NoValue <=> H
      /\ truth'[c] # NoValue <=> T
      /\ calm'[c] # NoValue <=> ~T
  BY <1>0, <1>1 DEF NoValue
<1>5. since'[c] <= now' /\ truth'[c] <= now' /\ calm'[c] <= now'
  BY <1>0, <1>1, <1>2, <1>3 DEF NoValue
<1> QED
  BY <1>4, <1>5 DEF H, T

-----------------------------------------------------------------------------
(* The visor's log and the gauges of it.                                   *)

\* The component a match is about, and when its download began.
Of(m) == m.line.comp
Begun(m) == m.line.at

File == due["download"]
Sent == given["download"]
Channel == out["download"]
Restarted == restarts["download"]

\* A file is newer than a download that has ended.
Past(l) ==
    /\ l.comp \in Downloaded
    /\ l.at \in Nat /\ l.at <= now
    /\ l.comp \in downloading \/ disk[l.comp] >= l.at

\* What was written is in order; a file holds a part of it, the first all.
FileInv ==
    /\ \A k \in DOMAIN told : Past(told[k])
    /\ \A j, k \in DOMAIN told : j <= k => told[j].at <= told[k].at
    /\ \A d \in File : d[1] \in DOMAIN told /\ d[2].line = told[d[1]]
    /\ Restarted = 0 => \A k \in DOMAIN told : \E d \in File : d[1] = k

\* What is in the channel, and what a gauge says, was written.
SentInv ==
    /\ \A k \in DOMAIN Channel : \E j \in DOMAIN told : Channel[k].line = told[j]
    /\ \A c \in Children :
          Started(c) = NoValue \/ \E j \in DOMAIN told : told[j].comp = c /\ told[j].at = Started(c)

\* The gauges follow the log in its order, none more than Poll behind.
ChannelSent ==
    \A k \in DOMAIN Channel : \E d \in Sent : d[2] = Channel[k]
GaugesSent ==
    \A c \in Children :
        Started(c) = NoValue \/ \E d \in Sent : Of(d[2]) = c /\ Begun(d[2]) = Started(c)
ChannelSorted ==
    \A j, k \in DOMAIN Channel : j <= k => Begun(Channel[j]) <= Begun(Channel[k])
GaugesBehind ==
    \A c \in Children, k \in DOMAIN Channel : Started(c) <= Begun(Channel[k])
Reached ==
    \A d \in Sent :
        (\E k \in DOMAIN Channel : Channel[k] = d[2]) \/ Begun(d[2]) <= Started(Of(d[2]))
NoneLate ==
    /\ \A d \in File \ Sent : now <= Begun(d[2]) + Poll
    /\ \A k \in DOMAIN Channel : now <= Begun(Channel[k]) + Poll

OrderInv ==
    Restarted = 0 => ChannelSent /\ GaugesSent /\ ChannelSorted /\ GaugesBehind /\ Reached /\ NoneLate

\* By t the local ticker will have read the file of c.
StatBy(c, t) ==
    \/ localDue <= t
    \/ localPhase = "busy" /\ now <= t /\ \E k \in next .. Len(Targets) : Targets[k] = c

\* A rule that holds is met by a stat within the interval of the ticker.
AlertInv ==
    \A c \in Downloaded \ StatFails :
        (since[c] # NoValue /\ c \notin missed) => StatBy(c, since[c] + Every)

CalmInv ==
    \A c \in Comps \ StatFails :
        (calm[c] # NoValue /\ since[c] # NoValue) =>
            StatBy(c, calm[c] + Every) \/ StatBy(c, since[c] + Every)

\* By when a HEAD has told of the release of time t, when n of them failed.
By(t, n) == t + (1 + n) * Every
HeadBy == By(truth[Visor], headErrors)

VisorInv ==
    truth[Visor] # NoValue =>
        \/ remoteMtime - disk[Visor] > Threshold /\ since[Visor] <= HeadBy
        \/ remoteDue <= HeadBy
        \/ remotePhase = "busy" /\ now <= HeadBy /\ answer = NoAnswer
        \/ remotePhase = "busy" /\ now <= HeadBy /\ answer - disk[Visor] > Threshold

ChildInv ==
    Restarted = 0 =>
        \A c \in Comps \ {Visor} :
            truth[c] # NoValue =>
                \E d \in File :
                    /\ Of(d[2]) = c
                    /\ Begun(d[2]) - disk[c] > Threshold
                    /\ Begun(d[2]) <= truth[c]
                    /\ Begun(d[2]) <= Started(c) => since[c] <= truth[c] + Poll

\* What a step does to them: a download is told of, a match is sent, one is
\* taken, a file is started, or nothing.
Tells(c) ==
    /\ told' = Append(told, DownloadLine(c, now))
    /\ File \subseteq File' /\ \E e \in File' : e[1] = Len(told) + 1
    /\ \A e \in File' \ File : e[1] = Len(told) + 1 /\ e[2].line = DownloadLine(c, now)
    /\ UNCHANGED <<Sent, Channel, gauge, Restarted, now, disk>>
    /\ downloading' = downloading \cup {c}

Sends(d) ==
    /\ \A e \in File \ Sent : d[1] <= e[1]
    /\ Sent' = Sent \cup {d}
    /\ Len(Channel) \in Nat /\ DOMAIN Channel = 1 .. Len(Channel)
    /\ DOMAIN Channel' = 1 .. Len(Channel) + 1
    /\ Channel'[Len(Channel) + 1] = d[2]
    /\ \A k \in 1 .. Len(Channel) : Channel'[k] = Channel[k]
    /\ UNCHANGED <<File, gauge, Restarted, world>>

Takes ==
    /\ IsTail(Channel', Channel, Len(Channel))
    /\ \A c \in Children :
          gauge'[<<"download_started", c>>] =
              IF Of(Channel[1]) = c THEN Begun(Channel[1]) ELSE gauge[<<"download_started", c>>]
    /\ UNCHANGED <<File, Sent, Restarted, world>>

Restarts ==
    /\ Restarted' # 0
    /\ \A d \in File' : d[1] \in DOMAIN told /\ d[2].line = told[d[1]]
    /\ UNCHANGED <<Channel, gauge, world>>

Quiet == UNCHANGED <<File, Sent, Channel, gauge, Restarted, told>>

\* A download that begins is told of at the end of the log, now.
LEMMA Telling ==
    ASSUME FeedInv, BinaryTypeOK, NEW c \in Downloaded, StartDownload(c)
    PROVE  Tells(c)
<1> DEFINE l == DownloadLine(c, now)
           n == Len(told) + 1
           lines == [p \in {n} |-> l]
<1>1. /\ Publish("download", lines) /\ Len(told) < MaxLines
      /\ told' = Append(told, l)
      /\ downloading' = downloading \cup {c} /\ UNCHANGED <<now, disk>>
  BY Zenon DEF StartDownload
<1>2. lines \in Texts("download")
  BY <1>1, LogTexts, TypesAre
<1>3. /\ due'["download"] = due["download"] \cup FileOf("download", lines)
      /\ \A e \in FileOf("download", lines) : e[1] \in DOMAIN lines /\ e[2].line = lines[e[1]]
  <2> HIDE DEF lines
  <2> QED
    BY <1>1, <1>2, Given, Published, FileOfIs
<1>4. UNCHANGED <<given, out, collectorVars, history>>
  BY <1>1, Zenon DEF Publish
<1>5. UNCHANGED <<Sent, Channel, gauge, Restarted, now, disk>>
  BY <1>1, <1>4 DEF Sent, Channel, Restarted, collectorVars, history
<1>6. <<n, [line |-> l, pat |-> 1]>> \in FileOf("download", lines)
  <2>1. 1 \in Hits("download", l)
    BY DEF Hits, Patterns, DownloadLine
  <2> HIDE DEF l, n
  <2>2. DOMAIN lines = {n} /\ lines[n] = l
    OBVIOUS
  <2>3. <<n, [line |-> l, pat |-> 1]>> \in LineIn("download", n, l)
    BY <2>1 DEF LineIn
  <2> QED
    BY <2>2, <2>3 DEF FileOf
<1>7. \A e \in FileOf("download", lines) : e[1] = n /\ e[2].line = l
  BY <1>3
<1> HIDE DEF l, n, lines
<1>8. \E e \in File' : e[1] = n
  <2> DEFINE e == <<n, [line |-> l, pat |-> 1]>>
  <2>1. e \in File' /\ e[1] = n
    BY <1>3, <1>6 DEF File
  <2> QED
    BY <2>1
<1>9. /\ File \subseteq File'
      /\ \A e \in File' \ File : e[1] = n /\ e[2].line = l
  BY <1>3, <1>7 DEF File
<1> QED
  BY <1>1, <1>5, <1>8, <1>9 DEF Tells, l, n

\* The tailer sends the first of what it has not sent.
LEMMA Sending ==
    ASSUME FeedInv, Deliver("download"), UNCHANGED <<collectorVars, history, world>>
    PROVE  \E d \in File \ Sent : Sends(d)
<1> DEFINE q == out["download"]
<1>1. PICK d \in due["download"] \ given["download"] :
        /\ \A e \in due["download"] \ given["download"] : d[1] <= e[1]
        /\ given' = [given EXCEPT !["download"] = @ \cup {d}]
        /\ out' = [out EXCEPT !["download"] = Append(@, d[2])]
        /\ d \in (1 .. MaxLines) \X Matches
  BY Given, Delivered
<1>2. /\ given \in [Feeds -> SUBSET ((1 .. MaxLines) \X Matches)]
      /\ out \in [Feeds -> Seq(Matches)]
  BY DEF FeedInv, TypeOK
<1>3. /\ Sent' = Sent \cup {d} /\ Channel' = Append(q, d[2])
      /\ q \in Seq(Matches) /\ d[2] \in Matches
  BY <1>1, <1>2, Given DEF Sent, Channel
<1> HIDE DEF q
<1>4. /\ Len(q) \in Nat /\ DOMAIN q = 1 .. Len(q)
      /\ DOMAIN Append(q, d[2]) = 1 .. Len(q) + 1
      /\ Append(q, d[2])[Len(q) + 1] = d[2]
      /\ \A k \in 1 .. Len(q) : Append(q, d[2])[k] = q[k]
  BY <1>3, AppendProperties
<1>5. UNCHANGED <<File, gauge, Restarted, world>>
  BY DEF Deliver, collectorVars, history, File, Restarted
<1>6. q = Channel
  BY DEF q, Channel
<1>7. \A e \in File \ Sent : d[1] <= e[1]
  BY <1>1 DEF File, Sent
<1>8. d \in File \ Sent
  BY <1>1 DEF File, Sent
<1>9. Sends(d)
  BY <1>3, <1>4, <1>5, <1>6, <1>7, Zenon DEF Sends
<1> QED
  BY <1>8, <1>9

\* The collector sets the gauge of the match it takes: its line has a time.
LEMMA Taking ==
    ASSUME FeedInv, FileInv, SentInv, Take("download"), UNCHANGED world
    PROVE  Takes
<1> DEFINE q == out["download"]
           l == q[1].line
<1>1. /\ q # <<>> /\ out' = [out EXCEPT !["download"] = Tail(@)]
      /\ UNCHANGED <<due, given, history>>
      /\ \E t \in TimesOf(Head(q).line.at) : Classify("download", Head(q).line, t)
  BY DEF Take, Receive
<1>2. /\ Head(q) = q[1] /\ l \in Publishes["download"]
      /\ Len(q) \in Nat \ {0} /\ DOMAIN q = 1 .. Len(q)
      /\ DOMAIN Tail(q) = 1 .. Len(q) - 1
      /\ \A k \in 1 .. Len(q) - 1 : Tail(q)[k] = q[k + 1]
  BY <1>1, Given, Taken
<1>3. out \in [Feeds -> Seq(Matches)] /\ gauge \in [Gauges -> Int]
  BY DEF FeedInv, TypeOK
<1>4. Channel' = Tail(q) /\ Channel = q
  BY <1>1, <1>3, Given DEF Channel
<1>t. l.at \in Nat
  <2>1. 1 \in DOMAIN Channel
    BY <1>2, <1>4
  <2>2. \E j \in DOMAIN told : l = told[j]
    BY <1>4, <2>1, Zenon DEF SentInv
  <2> QED
    BY <2>2, Zenon DEF FileInv, Past
<1>5. Classify("download", l, l.at)
  <2>1. PICK t \in TimesOf(l.at) : Classify("download", l, t)
    BY <1>1, <1>2
  <2> HIDE DEF l
  <2>2. t = l.at
    BY <1>t DEF TimesOf, NoStamp
  <2> QED
    BY <2>1, <2>2
<1>s. l.at \in TimesOf(l.at)
  BY <1>t DEF TimesOf, NoStamp
<1> HIDE DEF l
<1>6. ASSUME NEW c \in Children
      PROVE  gauge'[<<"download_started", c>>] =
                 IF l.comp = c THEN l.at ELSE gauge[<<"download_started", c>>]
  <2> DEFINE g == <<"download_started", c>>
  <2>1. g \in Gauges
    BY Given DEF Gauges
  <2>2. FeedOf(g) = "download" /\ (Sets(g, l) <=> l.comp = c)
    BY DEF FeedOf, Sets
  <2> HIDE DEF g
  <2>3. gauge'[g] = IF FeedOf(g) = "download" /\ Sets(g, l) THEN l.at ELSE gauge[g]
    BY <1>2, <1>3, <1>5, <1>s, <2>1, Given, ClassifySets
  <2> QED
    BY <2>2, <2>3 DEF g
<1>7. IsTail(Channel', Channel, Len(Channel))
  <2> HIDE DEF q
  <2> QED
    BY <1>2, <1>4, Zenon DEF IsTail
<1>8. UNCHANGED <<File, Sent, Restarted, world>>
  BY <1>1 DEF File, Sent, Restarted, history
<1>9. l = Channel[1].line
  BY DEF l, Channel
<1> QED
  BY <1>6, <1>7, <1>8, <1>9, Zenon DEF Takes, Of, Begun

\* A file that is started holds lines the visor has written.
LEMMA Restarting ==
    ASSUME FeedInv, BinaryTypeOK, StartLog, UNCHANGED world
    PROVE  Restarts
<1>1. PICK P \in SUBSET DOMAIN told : StartFile("download", Restrict(told, P))
  BY Zenon DEF StartLog
<1> DEFINE lines == Restrict(told, P)
<1>2. lines \in Texts("download")
  BY LogTexts, TypesAre
<1>3. \A p \in DOMAIN lines : p \in DOMAIN told /\ lines[p] = told[p]
  BY DEF Restrict
<1> HIDE DEF lines
<1>4. /\ due' = [due EXCEPT !["download"] = FileOf("download", lines)]
      /\ UNCHANGED <<out, collectorVars>>
  BY <1>1, Zenon DEF StartFile, lines
<1>5. File' = FileOf("download", lines)
  BY <1>4, Given DEF FeedInv, TypeOK, File
<1>6. \A d \in File' : d[1] \in DOMAIN told /\ d[2].line = told[d[1]]
  BY <1>2, <1>3, <1>5, Given, FileOfIs
<1>7. Restarted' # 0
  BY <1>1, <1>2, Given, StartInv DEF lines, Restarted
<1> QED
  BY <1>4, <1>6, <1>7 DEF Restarts, Channel, collectorVars

\* Every step is one of them.
LEMMA LogSteps ==
    ASSUME FeedInv, BinaryTypeOK, FileInv, SentInv, BinaryNext
    PROVE  \/ \E c \in Downloaded : Tells(c)
           \/ \E d \in File \ Sent : Sends(d)
           \/ Takes \/ Restarts
           \/ Quiet
<1> USE DEF Quiet, File, Sent, Channel, Restarted, history
<1>1. CASE \E c \in Downloaded : StartDownload(c)
  BY <1>1, Telling
<1>2. CASE WorldStep /\ ~ \E c \in Downloaded : StartDownload(c)
  <2>1. UNCHANGED <<logVars, told>>
    BY <1>2, Zenon DEF WorldStep, World, Advance, Announce, Install, FinishDownload
  <2> QED
    BY <2>1 DEF logVars, feedVars, collectorVars
<1>3. CASE Logged
  <2>1. UNCHANGED world /\ LogStep
    BY <1>3, Zenon DEF Logged
  <2>w. UNCHANGED told
    BY <2>1 DEF world
  <2>2. ASSUME NEW f \in Feeds, Collector[f] = "download_logs" PROVE f = "download"
    BY <2>2, FeedIs DEF Collector
  <2>3. CASE Send("download")
    BY <2>1, <2>3, Sending DEF Send
  <2>e. CASE End("download")
    BY <2>w, <2>e DEF End, Close, collectorVars
  <2>4. CASE Step("download_logs")
    <3>1. CASE Take("download")
      BY <2>1, <3>1, Taking
    <3>2. CASE SeeClosed("download") \/ SeeDone("download_logs")
      BY <2>w, <3>2 DEF SeeClosed, SeeDone, feedVars
    <3> QED
      BY <2>2, <2>4, <3>1, <3>2, Zenon DEF Step
  <2>5. CASE StartLog
    BY <2>1, <2>5, Restarting
  <2> QED
    BY <2>1, <2>3, <2>e, <2>4, <2>5, Zenon DEF LogStep
<1>4. CASE LocalStep \/ RemoteStep
  <2>1. UNCHANGED <<logVars, world>>
    BY <1>4, Zenon DEF LocalStep, RemoteStep
  <2> QED
    BY <2>1 DEF logVars, feedVars, collectorVars, world
<1> QED
  BY <1>1, <1>2, <1>3, <1>4, BinarySteps

\* What a step does to the clock and the files.
LEMMA WorldMoves ==
    ASSUME BinaryTypeOK, WorldInv, BinaryNext
    PROVE  /\ now \in Nat /\ now' \in Nat /\ now <= now' /\ (now' # now => Advance)
           /\ \A c \in Comps : disk[c] \in Nat /\ disk'[c] \in Nat /\ disk[c] <= disk'[c]
           /\ \A c \in downloading \ downloading' : disk'[c] = now
           /\ \A c \in Comps \ {Visor} : disk'[c] # disk[c] => c \notin downloading'
           /\ disk'[Visor] # disk[Visor] => server <= disk'[Visor] /\ server' = server
<1>1. WorldTypes /\ Visor \in Comps /\ Downloaded \subseteq Comps
      /\ downloading \subseteq Downloaded
  BY TypesAre, Given DEF WorldTypes
<1>2. /\ now \in Nat /\ disk \in [Comps -> Nat] /\ server <= now
      /\ \A c \in Comps : disk[c] <= now
  BY Numbers DEF WorldInv
<1>3. CASE Advance
  BY <1>2, <1>3 DEF Advance
<1>4. CASE Announce \/ \E c \in Downloaded : StartDownload(c)
  <2>1. UNCHANGED <<now, disk>> /\ downloading \subseteq downloading'
    BY <1>4 DEF Announce, StartDownload
  <2> QED
    BY <1>2, <2>1
<1>5. CASE Install
  <2>1. disk' = [disk EXCEPT ![Visor] = now] /\ UNCHANGED <<now, server, downloading>>
    BY <1>5 DEF Install
  <2> QED
    BY <1>1, <1>2, <2>1
<1>6. ASSUME NEW c \in Downloaded, FinishDownload(c)
      PROVE  /\ now \in Nat /\ now' \in Nat /\ now <= now' /\ (now' # now => Advance)
             /\ \A b \in Comps : disk[b] \in Nat /\ disk'[b] \in Nat /\ disk[b] <= disk'[b]
             /\ \A b \in downloading \ downloading' : disk'[b] = now
             /\ \A b \in Comps \ {Visor} : disk'[b] # disk[b] => b \notin downloading'
             /\ disk'[Visor] # disk[Visor] => server <= disk'[Visor] /\ server' = server
  <2>1. /\ c \in downloading /\ downloading' = downloading \ {c}
        /\ disk' = [disk EXCEPT ![c] = now] /\ UNCHANGED <<now, server>>
    BY <1>6 DEF FinishDownload
  <2> QED
    BY <1>1, <1>2, <2>1
<1>7. CASE Logged \/ LocalStep \/ RemoteStep
  <2>1. UNCHANGED world
    BY <1>7, Zenon DEF Logged, LocalStep, RemoteStep
  <2> QED
    BY <1>2, <2>1 DEF world
<1> QED
  BY <1>3, <1>4, <1>5, <1>6, <1>7, BinarySteps DEF WorldStep, World

\* Every step keeps files newer than the downloads that have ended.
LEMMA FileKeeps ==
    ASSUME FeedInv, BinaryTypeOK, WorldInv, FileInv, SentInv, BinaryNext
    PROVE  FileInv'
<1>1. /\ now \in Nat /\ now' \in Nat /\ now <= now'
      /\ \A c \in Comps : disk[c] \in Nat /\ disk'[c] \in Nat /\ disk[c] <= disk'[c]
      /\ \A c \in downloading \ downloading' : disk'[c] = now
  BY WorldMoves
<1>2. /\ \A k \in DOMAIN told : Past(told[k])
      /\ \A j, k \in DOMAIN told : j <= k => told[j].at <= told[k].at
      /\ \A d \in File : d[1] \in DOMAIN told /\ d[2].line = told[d[1]]
      /\ Restarted = 0 => \A k \in DOMAIN told : \E d \in File : d[1] = k
  BY Zenon DEF FileInv
<1>3. ASSUME NEW l, Past(l)
      PROVE  /\ l.comp \in Downloaded
             /\ l.at \in Nat /\ l.at <= now'
             /\ l.comp \in downloading' \/ disk'[l.comp] >= l.at
  <2>1. l.comp \in Comps
    BY <1>3, Given DEF Past
  <2> QED
    BY <1>1, <1>3, <2>1 DEF Past
<1> DEFINE Then(l) == /\ l.comp \in Downloaded
                      /\ l.at \in Nat /\ l.at <= now'
                      /\ l.comp \in downloading' \/ disk'[l.comp] >= l.at
<1>4. \A l : Past(l) => Then(l)
  BY <1>3
<1> HIDE DEF Then
<1>f. ASSUME \A k \in DOMAIN told' : Then(told'[k]),
             \A j, k \in DOMAIN told' : j <= k => told'[j].at <= told'[k].at,
             \A d \in File' : d[1] \in DOMAIN told' /\ d[2].line = told'[d[1]],
             Restarted' = 0 => \A k \in DOMAIN told' : \E d \in File' : d[1] = k
      PROVE  FileInv'
  BY <1>f, Zenon DEF FileInv, Past, Then
<1>5. ASSUME NEW c \in Downloaded, Tells(c) PROVE FileInv'
  <2> DEFINE l == DownloadLine(c, now)
             n == Len(told) + 1
  <2>1. /\ told' = Append(told, l)
        /\ File \subseteq File' /\ \E e \in File' : e[1] = n
        /\ \A e \in File' \ File : e[1] = n /\ e[2].line = l
        /\ UNCHANGED <<Restarted, now>>
        /\ downloading' = downloading \cup {c}
    BY <1>5, Zenon DEF Tells
  <2>2. /\ told \in Seq(Publishes["download"]) /\ l \in Publishes["download"]
    BY LogTexts, TypesAre DEF WorldTypes
  <2>3. l.comp = c /\ l.at = now
    BY DEF DownloadLine
  <2> HIDE DEF l
  <2>4. /\ DOMAIN told = 1 .. n - 1 /\ DOMAIN told' = 1 .. n /\ n \in Nat \ {0}
        /\ told'[n] = l /\ \A k \in 1 .. n - 1 : told'[k] = told[k]
    BY <2>1, <2>2, AppendProperties
  <2> HIDE DEF n
  <2>5. \A k \in 1 .. n : k \in 1 .. n - 1 \/ k = n
    BY <2>4
  <2>6. Then(l)
    BY <1>1, <2>1, <2>3 DEF Then
  <2>7. ASSUME NEW k \in DOMAIN told' PROVE Then(told'[k])
    BY <1>2, <1>4, <2>4, <2>5, <2>6, Zenon
  <2>8. ASSUME NEW j \in DOMAIN told', NEW k \in DOMAIN told', j <= k
        PROVE  told'[j].at <= told'[k].at
    <3>1. CASE k \in 1 .. n - 1
      <4>1. j \in 1 .. n - 1
        BY <2>4, <2>8, <3>1
      <4> QED
        BY <1>2, <2>4, <2>8, <3>1, <4>1
    <3>2. CASE j \in 1 .. n - 1 /\ k = n
      <4>1. told[j].at <= now
        BY <1>2, <2>4, <3>2 DEF Past
      <4> QED
        BY <2>3, <2>4, <3>2, <4>1
    <3>3. CASE j = n /\ k = n
      BY <1>1, <2>3, <2>4, <3>3
    <3> QED
      BY <2>4, <2>5, <2>8, <3>1, <3>2, <3>3
  <2>9. ASSUME NEW d \in File' PROVE d[1] \in DOMAIN told' /\ d[2].line = told'[d[1]]
    <3>1. CASE d \in File
      <4>1. d[1] \in 1 .. n - 1 /\ d[2].line = told[d[1]]
        BY <1>2, <2>4, <3>1
      <4> QED
        BY <2>4, <4>1
    <3>2. CASE d \notin File
      BY <2>1, <2>4, <3>2
    <3> QED
      BY <3>1, <3>2
  <2>10. ASSUME Restarted' = 0, NEW k \in DOMAIN told' PROVE \E d \in File' : d[1] = k
    BY <1>2, <2>1, <2>4, <2>5, <2>10
  <2> QED
    BY <1>f, <2>7, <2>8, <2>9, <2>10, Zenon
<1>6. CASE Restarts
  <2>1. /\ Restarted' # 0 /\ UNCHANGED told
        /\ \A d \in File' : d[1] \in DOMAIN told /\ d[2].line = told[d[1]]
    BY <1>6 DEF Restarts, world
  <2> QED
    BY <1>2, <1>4, <1>f, <2>1, Zenon
<1>7. CASE UNCHANGED <<File, told, Restarted>>
  BY <1>2, <1>4, <1>7, <1>f, Zenon
<1>8. (\E d \in File \ Sent : Sends(d)) \/ Takes \/ Quiet => UNCHANGED <<File, told, Restarted>>
  BY DEF Sends, Takes, Quiet, world
<1> QED
  BY <1>5, <1>6, <1>7, <1>8, LogSteps

\* The numbers of the log.
LEMMA LogNumbers ==
    ASSUME FeedInv, FileInv, SentInv
    PROVE  /\ \A k \in DOMAIN Channel : Of(Channel[k]) \in Downloaded /\ Begun(Channel[k]) \in Nat
           /\ \A d \in File : /\ Of(d[2]) \in Downloaded
                              /\ Begun(d[2]) \in Nat /\ Begun(d[2]) <= now
           /\ \A c \in Children : Started(c) \in Int /\ NoValue <= Started(c)
           /\ Sent \subseteq File
           /\ \A d \in Sent, e \in File \ Sent : Begun(d[2]) <= Begun(e[2])
<1>0. \A k \in DOMAIN told :
          told[k].comp \in Downloaded /\ told[k].at \in Nat /\ told[k].at <= now
  BY Zenon DEF FileInv, Past
<1>1. \A d \in File :
          Of(d[2]) \in Downloaded /\ Begun(d[2]) \in Nat /\ Begun(d[2]) <= now
  BY <1>0, Zenon DEF FileInv, Of, Begun
<1>2. \A k \in DOMAIN Channel : Of(Channel[k]) \in Downloaded /\ Begun(Channel[k]) \in Nat
  BY <1>0, Zenon DEF SentInv, Of, Begun
<1>3. \A c \in Children : Started(c) \in Int /\ NoValue <= Started(c)
  BY <1>0 DEF SentInv, NoValue
<1>4. Sent \subseteq File /\ \A d \in Sent, e \in File \ Sent : d[1] <= e[1]
  BY Given, Zenon DEF FeedInv, SentOK, Sent, File
<1>5. \A d \in Sent, e \in File \ Sent : Begun(d[2]) <= Begun(e[2])
  <2>1. \A d, e \in File : d[1] <= e[1] => Begun(d[2]) <= Begun(e[2])
    BY Zenon DEF FileInv, Begun
  <2> QED
    BY <1>4, <2>1, Zenon
<1> QED
  BY <1>1, <1>2, <1>3, <1>4, <1>5

\* Every step keeps channel and gauges with what was written.
LEMMA SentKeeps ==
    ASSUME FeedInv, BinaryTypeOK, FileInv, SentInv, BinaryNext
    PROVE  SentInv'
<1> DEFINE Written(l) == \E j \in DOMAIN told : l = told[j]
           Dated(c, v) == v = NoValue \/ \E j \in DOMAIN told : told[j].comp = c /\ told[j].at = v
           WrittenThen(l) == \E j \in DOMAIN told' : l = told'[j]
           DatedThen(c, v) == v = NoValue \/ \E j \in DOMAIN told' : told'[j].comp = c /\ told'[j].at = v
<1>1. /\ \A k \in DOMAIN Channel : Written(Channel[k].line)
      /\ \A c \in Children : Dated(c, Started(c))
  BY Zenon DEF SentInv
<1>2. ASSUME \A k \in DOMAIN Channel' : WrittenThen(Channel'[k].line),
             \A c \in Children : DatedThen(c, Started(c)')
      PROVE  SentInv'
  BY <1>2, Zenon DEF SentInv
<1>3. ASSUME NEW c \in Downloaded, Tells(c) PROVE SentInv'
  <2>1. told' = Append(told, DownloadLine(c, now)) /\ UNCHANGED <<Channel, gauge>>
    BY <1>3, Zenon DEF Tells
  <2>2. told \in Seq(Publishes["download"]) /\ DownloadLine(c, now) \in Publishes["download"]
    BY LogTexts, TypesAre DEF WorldTypes
  <2>3. \A j \in DOMAIN told : j \in DOMAIN told' /\ told'[j] = told[j]
    BY <2>1, <2>2
  <2>4. ASSUME NEW k \in DOMAIN Channel' PROVE WrittenThen(Channel'[k].line)
    <3>1. PICK j \in DOMAIN told : Channel[k].line = told[j]
      BY <1>1, <2>1
    <3> QED
      BY <2>1, <2>3, <3>1
  <2>5. ASSUME NEW d \in Children PROVE DatedThen(d, Started(d)')
    <3>1. Started(d)' = Started(d)
      BY <2>1, Zenon DEF Started
    <3>2. ASSUME Started(d) # NoValue PROVE DatedThen(d, Started(d))
      <4>1. PICK j \in DOMAIN told : told[j].comp = d /\ told[j].at = Started(d)
        BY <1>1, <3>2, Zenon
      <4>2. j \in DOMAIN told' /\ told'[j] = told[j]
        BY <2>3
      <4> QED
        BY <4>1, <4>2, Zenon
    <3> QED
      BY <3>1, <3>2, Zenon
  <2> QED
    BY <1>2, <2>4, <2>5, Zenon
<1>4. CASE Restarts \/ Quiet
  <2>1. UNCHANGED <<Channel, gauge, told>>
    BY <1>4 DEF Restarts, Quiet, world
  <2> QED
    BY <1>1, <1>2, <2>1, Zenon DEF Started
<1>5. ASSUME NEW d \in File \ Sent, Sends(d) PROVE SentInv'
  <2>1. \A k \in DOMAIN Channel' : \/ k \in DOMAIN Channel /\ Channel'[k] = Channel[k]
                                  \/ Channel'[k] = d[2]
    BY <1>5 DEF Sends
  <2>2. UNCHANGED <<told, gauge>>
    BY <1>5 DEF Sends, world
  <2>3. Written(d[2].line)
    BY <1>5, Zenon DEF FileInv
  <2>4. ASSUME NEW k \in DOMAIN Channel' PROVE WrittenThen(Channel'[k].line)
    <3>1. CASE k \in DOMAIN Channel /\ Channel'[k] = Channel[k]
      <4>1. PICK j \in DOMAIN told : Channel[k].line = told[j]
        BY <1>1, <3>1
      <4> QED
        BY <2>2, <3>1, <4>1
    <3>2. CASE Channel'[k] = d[2]
      <4>1. PICK j \in DOMAIN told : d[2].line = told[j]
        BY <2>3
      <4> QED
        BY <2>2, <3>2, <4>1
    <3> QED
      BY <2>1, <3>1, <3>2
  <2>5. \A c \in Children : DatedThen(c, Started(c)')
    BY <1>1, <2>2, Zenon DEF Started
  <2> QED
    BY <1>2, <2>4, <2>5, Zenon
<1>6. CASE Takes
  <2>1. /\ UNCHANGED told /\ 1 \in DOMAIN Channel
        /\ \A k \in DOMAIN Channel' : k + 1 \in DOMAIN Channel /\ Channel'[k] = Channel[k + 1]
    BY <1>6 DEF Takes, IsTail, world
  <2>2. ASSUME NEW k \in DOMAIN Channel' PROVE WrittenThen(Channel'[k].line)
    <3>1. k + 1 \in DOMAIN Channel /\ Channel'[k] = Channel[k + 1]
      BY <2>1
    <3>2. PICK j \in DOMAIN told : Channel[k + 1].line = told[j]
      BY <1>1, <3>1
    <3> QED
      BY <2>1, <3>1, <3>2
  <2>3. ASSUME NEW c \in Children PROVE DatedThen(c, Started(c)')
    <3>1. Started(c)' = IF Of(Channel[1]) = c THEN Begun(Channel[1]) ELSE Started(c)
      BY <1>6, Zenon DEF Takes, Started
    <3>2. PICK j \in DOMAIN told : Channel[1].line = told[j]
      BY <1>1, <2>1, Zenon
    <3> QED
      BY <1>1, <2>1, <3>1, <3>2, Zenon DEF Of, Begun
  <2> QED
    BY <1>2, <2>2, <2>3, Zenon
<1> QED
  BY <1>3, <1>4, <1>5, <1>6, LogSteps, Zenon

\* A new line is the last, and not late.
LEMMA OrderTells ==
    ASSUME BinaryTypeOK, OrderInv, Restarted = 0, NEW c \in Downloaded, Tells(c)
    PROVE  OrderInv'
<1>l. DownloadLine(c, now).at = now
  BY DEF DownloadLine
<1>1. /\ ChannelSent /\ GaugesSent /\ ChannelSorted /\ GaugesBehind /\ Reached /\ NoneLate
      /\ UNCHANGED <<Sent, Channel, gauge, now>>
      /\ \A e \in File' \ File : Begun(e[2]) = now
  BY <1>l, Zenon DEF OrderInv, Tells, Begun
<1>2. ChannelSent' /\ GaugesSent' /\ ChannelSorted' /\ GaugesBehind' /\ Reached'
  BY <1>1, Zenon DEF ChannelSent, GaugesSent, ChannelSorted, GaugesBehind, Reached, Started, Of, Begun
<1>3. NoneLate'
  <2>1. now \in Nat /\ Poll \in Nat
    BY Numbers, Given
  <2>2. ASSUME NEW e \in File' \ Sent PROVE now <= Begun(e[2]) + Poll
    <3>1. CASE e \in File
      BY <1>1, <3>1, Zenon DEF NoneLate
    <3>2. CASE e \notin File
      BY <1>1, <2>1, <3>2
    <3> QED
      BY <3>1, <3>2
  <2> QED
    BY <1>1, <2>2, Zenon DEF NoneLate, Begun
<1> QED
  BY <1>2, <1>3, Zenon DEF OrderInv

\* What is sent is not before anything that was sent.
LEMMA OrderSends ==
    ASSUME FeedInv, FileInv, SentInv, OrderInv, Restarted = 0,
           NEW d \in File \ Sent, Sends(d)
    PROVE  OrderInv'
<1> DEFINE n == Len(Channel)
<1>1. /\ n \in Nat /\ DOMAIN Channel = 1 .. n /\ DOMAIN Channel' = 1 .. n + 1
      /\ Channel'[n + 1] = d[2] /\ \A k \in 1 .. n : Channel'[k] = Channel[k]
      /\ Sent' = Sent \cup {d}
      /\ UNCHANGED <<File, gauge, now>>
  BY DEF Sends, world
<1>2. ChannelSent /\ GaugesSent /\ ChannelSorted /\ GaugesBehind /\ Reached /\ NoneLate
  BY Zenon DEF OrderInv
<1>3. /\ \A k \in 1 .. n : Begun(Channel[k]) \in Nat
      /\ \A e \in File : Of(e[2]) \in Downloaded /\ Begun(e[2]) \in Nat
      /\ \A c \in Children : Started(c) \in Int
      /\ \A e \in Sent : Begun(e[2]) <= Begun(d[2])
  BY <1>1, LogNumbers
<1> HIDE DEF n
<1>4. \A k \in 1 .. n + 1 : k \in 1 .. n \/ k = n + 1
  BY <1>1
<1>5. ChannelSent'
  BY <1>1, <1>2, <1>4, Zenon DEF ChannelSent
<1>6. GaugesSent'
  BY <1>1, <1>2, Zenon DEF GaugesSent, Started, Of, Begun
<1>7. ChannelSorted'
  <2>1. \A j \in 1 .. n : Begun(Channel[j]) <= Begun(d[2])
    BY <1>1, <1>2, <1>3, Zenon DEF ChannelSent
  <2>2. ASSUME NEW j \in 1 .. n + 1, NEW k \in 1 .. n + 1, j <= k
        PROVE  Begun(Channel'[j]) <= Begun(Channel'[k])
    <3>1. CASE k \in 1 .. n
      <4>1. j \in 1 .. n
        BY <1>1, <2>2, <3>1
      <4> QED
        BY <1>1, <1>2, <2>2, <3>1, <4>1 DEF ChannelSorted
    <3>2. CASE j \in 1 .. n /\ k = n + 1
      BY <1>1, <2>1, <3>2
    <3>3. CASE j = n + 1 /\ k = n + 1
      BY <1>1, <1>3, <3>3
    <3> QED
      BY <1>4, <3>1, <3>2, <3>3
  <2> QED
    BY <1>1, <2>2, Zenon DEF ChannelSorted, Begun
<1>8. GaugesBehind'
  <2>1. ASSUME NEW c \in Children PROVE Started(c) <= Begun(d[2])
    <3>1. CASE Started(c) = NoValue
      BY <1>3, <3>1 DEF NoValue
    <3>2. CASE Started(c) # NoValue
      BY <1>2, <1>3, <3>2, Zenon DEF GaugesSent
    <3> QED
      BY <3>1, <3>2
  <2>2. ASSUME NEW c \in Children, NEW k \in 1 .. n + 1 PROVE Started(c) <= Begun(Channel'[k])
    <3>1. CASE k \in 1 .. n
      BY <1>1, <1>2, <3>1 DEF GaugesBehind
    <3>2. CASE k = n + 1
      BY <1>1, <2>1, <3>2
    <3> QED
      BY <1>4, <3>1, <3>2
  <2> QED
    BY <1>1, <2>2, Zenon DEF GaugesBehind, Started, Begun
<1>9. Reached'
  <2>1. ASSUME NEW e \in Sent'
        PROVE  (\E k \in 1 .. n + 1 : Channel'[k] = e[2]) \/ Begun(e[2]) <= Started(Of(e[2]))
    <3>1. CASE e = d
      BY <1>1, <3>1
    <3>2. CASE e \in Sent
      <4>1. (\E k \in 1 .. n : Channel[k] = e[2]) \/ Begun(e[2]) <= Started(Of(e[2]))
        BY <1>1, <1>2, <3>2, Zenon DEF Reached
      <4>2. \A k \in 1 .. n : k \in 1 .. n + 1
        BY <1>1
      <4> QED
        BY <1>1, <4>1, <4>2, Zenon
    <3> QED
      BY <1>1, <3>1, <3>2
  <2> QED
    BY <1>1, <2>1, Zenon DEF Reached, Started, Of, Begun
<1>10. NoneLate'
  <2>1. ASSUME NEW k \in 1 .. n + 1 PROVE now <= Begun(Channel'[k]) + Poll
    BY <1>1, <1>2, <1>4, Zenon DEF NoneLate
  <2>2. \A e \in File \ Sent' : now <= Begun(e[2]) + Poll
    BY <1>1, <1>2, Zenon DEF NoneLate
  <2> QED
    BY <1>1, <2>1, <2>2, Zenon DEF NoneLate, Begun
<1> QED
  BY <1>5, <1>6, <1>7, <1>8, <1>9, <1>10, Zenon DEF OrderInv

\* What is taken is not after anything that waits.
LEMMA OrderTakes ==
    ASSUME FeedInv, FileInv, SentInv, OrderInv, Restarted = 0, Takes
    PROVE  OrderInv'
<1> DEFINE n == Len(Channel)
           m == Channel[1]
<1>1. /\ n \in Nat \ {0} /\ DOMAIN Channel = 1 .. n /\ DOMAIN Channel' = 1 .. n - 1
      /\ \A k \in 1 .. n - 1 : Channel'[k] = Channel[k + 1]
      /\ UNCHANGED <<File, Sent, now>>
  BY DEF Takes, IsTail, world
<1>2. ChannelSent /\ GaugesSent /\ ChannelSorted /\ GaugesBehind /\ Reached /\ NoneLate
  BY Zenon DEF OrderInv
<1>3. /\ \A k \in 1 .. n : Of(Channel[k]) \in Downloaded /\ Begun(Channel[k]) \in Nat
      /\ \A e \in File : Of(e[2]) \in Downloaded /\ Begun(e[2]) \in Nat
      /\ \A c \in Children : Started(c) \in Int
      /\ Sent \subseteq File
  BY <1>1, LogNumbers
<1>4. \A c \in Children : Started(c)' = IF Of(m) = c THEN Begun(m) ELSE Started(c)
  BY Zenon DEF Takes, Started
<1>5. /\ 1 \in 1 .. n
      /\ \A k \in 1 .. n - 1 : k + 1 \in 1 .. n /\ 1 <= k + 1
      /\ \A k \in 1 .. n : k = 1 \/ (k - 1 \in 1 .. n - 1 /\ (k - 1) + 1 = k)
  BY <1>1
<1>6. Of(m) \in Downloaded /\ Of(m) \in Children /\ Begun(m) \in Nat
  BY <1>3, <1>5, Given
<1> HIDE DEF n
<1>7. ChannelSent'
  <2>1. ASSUME NEW k \in 1 .. n - 1 PROVE \E d \in Sent : d[2] = Channel'[k]
    <3>1. k + 1 \in DOMAIN Channel /\ Channel'[k] = Channel[k + 1]
      BY <1>1, <1>5
    <3> QED
      BY <1>2, <3>1, Zenon DEF ChannelSent
  <2> QED
    BY <1>1, <2>1, Zenon DEF ChannelSent
<1>8. GaugesSent'
  <2>1. PICK d \in Sent : d[2] = m
    BY <1>1, <1>2, <1>5, Zenon DEF ChannelSent
  <2>2. ASSUME NEW c \in Children
        PROVE  Started(c)' = NoValue \/ \E e \in Sent : Of(e[2]) = c /\ Begun(e[2]) = Started(c)'
    <3>1. CASE Of(m) = c
      BY <1>4, <2>1, <3>1, Zenon
    <3>2. CASE Of(m) # c
      BY <1>2, <1>4, <3>2, Zenon DEF GaugesSent
    <3> QED
      BY <3>1, <3>2
  <2> QED
    BY <1>1, <2>2, Zenon DEF GaugesSent, Of, Begun
<1>9. ChannelSorted'
  <2>1. ASSUME NEW j \in 1 .. n - 1, NEW k \in 1 .. n - 1, j <= k
        PROVE  Begun(Channel'[j]) <= Begun(Channel'[k])
    <3>1. j + 1 \in DOMAIN Channel /\ k + 1 \in DOMAIN Channel /\ j + 1 <= k + 1
      BY <1>1, <1>5, <2>1
    <3> QED
      BY <1>1, <1>2, <3>1, Zenon DEF ChannelSorted
  <2> QED
    BY <1>1, <2>1, Zenon DEF ChannelSorted, Begun
<1>10. GaugesBehind'
  <2>1. ASSUME NEW c \in Children, NEW k \in 1 .. n - 1 PROVE Started(c)' <= Begun(Channel'[k])
    <3>1. Begun(m) <= Begun(Channel[k + 1]) /\ Started(c) <= Begun(Channel[k + 1])
      BY <1>1, <1>2, <1>5, Zenon DEF ChannelSorted, GaugesBehind
    <3> QED
      BY <1>1, <1>4, <3>1, Zenon
  <2> QED
    BY <1>1, <2>1, Zenon DEF GaugesBehind, Begun
<1>11. Reached'
  <2>0. \A c \in Children : Started(c) <= Started(c)'
    <3>1. ASSUME NEW c \in Children PROVE Started(c) <= Begun(m)
      BY <1>1, <1>2, <1>5, Zenon DEF GaugesBehind
    <3> QED
      BY <1>3, <1>4, <3>1
  <2>1. ASSUME NEW d \in Sent
        PROVE  (\E k \in 1 .. n - 1 : Channel'[k] = d[2]) \/ Begun(d[2]) <= Started(Of(d[2]))'
    <3>0. Of(d[2]) \in Children /\ Begun(d[2]) \in Nat
      BY <1>3, Given
    <3>1. CASE Begun(d[2]) <= Started(Of(d[2]))
      <4> DEFINE c == Of(d[2])
      <4>1. Started(c)' \in Int
        BY <1>3, <1>4, <1>6, <3>0
      <4>2. Started(c) <= Started(c)' /\ Started(c) \in Int /\ Begun(d[2]) <= Started(c)
        BY <1>3, <2>0, <3>0, <3>1
      <4> HIDE DEF c
      <4>3. Begun(d[2]) <= Started(c)'
        BY <3>0, <4>1, <4>2
      <4> QED
        BY <4>3 DEF c
    <3>2. ASSUME NEW k \in 1 .. n, Channel[k] = d[2], k # 1
          PROVE  \E j \in 1 .. n - 1 : Channel'[j] = d[2]
      <4>1. k - 1 \in 1 .. n - 1 /\ Channel'[k - 1] = Channel[(k - 1) + 1] /\ (k - 1) + 1 = k
        BY <1>1, <1>5, <3>2
      <4> QED
        BY <3>2, <4>1, Zenon
    <3>3. CASE m = d[2]
      <4>1. Started(Of(d[2]))' = Begun(d[2])
        BY <1>4, <3>0, <3>3, Zenon
      <4> QED
        BY <3>0, <4>1
    <3> QED
      BY <1>1, <1>2, <3>1, <3>2, <3>3, Zenon DEF Reached
  <2> QED
    BY <1>1, <2>1, Zenon DEF Reached, Of, Begun
<1>12. NoneLate'
  <2>1. ASSUME NEW k \in 1 .. n - 1 PROVE now <= Begun(Channel'[k]) + Poll
    BY <1>1, <1>2, <1>5, Zenon DEF NoneLate
  <2> QED
    BY <1>1, <1>2, <2>1, Zenon DEF NoneLate, Begun
<1> QED
  BY <1>7, <1>8, <1>9, <1>10, <1>11, <1>12, Zenon DEF OrderInv

\* Every step keeps the order, and the clock waits for what is late.
LEMMA OrderKeeps ==
    ASSUME FeedInv, BinaryTypeOK, WorldInv, FileInv, SentInv, OrderInv, BinaryNext
    PROVE  OrderInv'
<1> SUFFICES ASSUME Restarted' = 0 PROVE OrderInv'
  BY Zenon DEF OrderInv
<1>1. CASE Quiet
  <2>1. Restarted = 0 /\ UNCHANGED <<File, Sent, Channel, gauge>>
    BY <1>1, Zenon DEF Quiet
  <2>2. ChannelSent /\ GaugesSent /\ ChannelSorted /\ GaugesBehind /\ Reached /\ NoneLate
    BY <2>1, Zenon DEF OrderInv
  <2>3. ChannelSent' /\ GaugesSent' /\ ChannelSorted' /\ GaugesBehind' /\ Reached'
    BY <2>1, <2>2, Zenon DEF ChannelSent, GaugesSent, ChannelSorted, GaugesBehind, Reached,
       Started, Of, Begun
  <2>4. CASE now' = now
    <3>1. NoneLate'
      BY <2>1, <2>2, <2>4, Zenon DEF NoneLate, Begun
    <3> QED
      BY <2>3, <3>1, Zenon DEF OrderInv
  <2>5. CASE now' # now
    <3>1. Advance
      BY <2>5, WorldMoves
    <3>2. now' = now + 1 /\ \A t \in Waiting : now < t + Poll
      BY <3>1 DEF Advance
    <3>3. /\ now \in Nat /\ Poll \in Nat
          /\ \A k \in DOMAIN Channel : Begun(Channel[k]) \in Nat
          /\ \A d \in File : Begun(d[2]) \in Nat
      BY Numbers, Given, LogNumbers
    <3>4. \A d \in File \ Sent : Begun(d[2]) \in Waiting
      BY DEF Waiting, File, Sent, Begun
    <3>5. \A k \in DOMAIN Channel : Begun(Channel[k]) \in Waiting
      BY DEF Waiting, Channel, Begun
    <3>6. \A d \in File \ Sent : now' <= Begun(d[2]) + Poll
      BY <3>2, <3>3, <3>4
    <3>7. \A k \in DOMAIN Channel : now' <= Begun(Channel[k]) + Poll
      BY <3>2, <3>3, <3>5
    <3>8. NoneLate'
      BY <2>1, <3>6, <3>7, Zenon DEF NoneLate, Begun
    <3> QED
      BY <2>3, <3>8, Zenon DEF OrderInv
  <2> QED
    BY <2>4, <2>5
<1>2. CASE Takes
  BY <1>2, OrderTakes DEF Takes
<1>3. ASSUME NEW d \in File \ Sent, Sends(d) PROVE OrderInv'
  BY <1>3, OrderSends DEF Sends
<1>4. ASSUME NEW c \in Downloaded, Tells(c) PROVE OrderInv'
  BY <1>4, OrderTells DEF Tells
<1>5. ~Restarts
  BY DEF Restarts
<1> QED
  BY <1>1, <1>2, <1>3, <1>4, <1>5, LogSteps

-----------------------------------------------------------------------------
(* The stats, and the rules they may end.                                  *)

\* The last download of c that lines tell of.
Latest(q, c) ==
    LET S == {q[k].at : k \in {j \in DOMAIN q : q[j].comp = c}}
    IN  IF S = {} THEN NoValue ELSE Max(S)

\* It is the largest of their times, if there are any.
LEMMA LatestIs ==
    ASSUME NEW q, NEW c, NEW m \in Nat, \A k \in DOMAIN q : q[k].at \in Nat /\ q[k].at <= m
    PROVE  /\ \A k \in DOMAIN q : q[k].comp = c => q[k].at <= Latest(q, c)
           /\ Latest(q, c) # NoValue =>
                 \E k \in DOMAIN q : q[k].comp = c /\ q[k].at = Latest(q, c)
           /\ Latest(q, c) \in Int
<1> DEFINE S == {q[k].at : k \in {j \in DOMAIN q : q[j].comp = c}}
<1>1. \A k \in DOMAIN q : q[k].comp = c => q[k].at \in S
  OBVIOUS
<1>2. \A t \in S : \E k \in DOMAIN q : q[k].comp = c /\ q[k].at = t
  OBVIOUS
<1>3. Latest(q, c) = IF S = {} THEN NoValue ELSE Max(S)
  BY Zenon DEF Latest
<1> HIDE DEF S
<1>4. S \in SUBSET (0 .. m) /\ S \in SUBSET Nat
  BY <1>2
<1>5. CASE S = {}
  BY <1>1, <1>3, <1>5 DEF NoValue
<1>6. CASE S # {}
  <2>1. PICK t \in S : \A u \in S : u <= t
    BY <1>4, <1>6, LargestOf
  <2>2. Latest(q, c) = t
    BY <1>3, <1>4, <1>6, <2>1, MaxIs
  <2> QED
    BY <1>1, <1>2, <1>4, <2>1, <2>2
<1> QED
  BY <1>5, <1>6

\* What the model calls LastLine is that of what was written.
LEMMA LastLineIs == \A c : LastLine(c) = Latest(told, c)
BY Zenon DEF LastLine, Latest

\* A gauge tells of a file that is not older only during the download.
LEMMA OnTheWay ==
    ASSUME FeedInv, BinaryTypeOK, FileInv, SentInv, NEW c \in Comps,
           Exceeds(Started(c), disk[c])
    PROVE  c \in Downloaded /\ c \in downloading /\ LastLine(c) - disk[c] > Threshold
<1>1. Started(c) # NoValue /\ Started(c) - disk[c] > Threshold
  BY Zenon DEF Exceeds
<1>2. c \in Children
  BY <1>1, Zenon DEF Started
<1>3. PICK j \in DOMAIN told : told[j].comp = c /\ told[j].at = Started(c)
  BY <1>1, <1>2, Zenon DEF SentInv
<1>4. /\ c \in Downloaded /\ told[j].at \in Nat
      /\ c \in downloading \/ disk[c] >= told[j].at
  BY <1>3, Zenon DEF FileInv, Past
<1>5. disk[c] \in Nat /\ Threshold \in Nat /\ now \in Nat
  BY Numbers, Given
<1>6. \A k \in DOMAIN told : told[k].at \in Nat /\ told[k].at <= now
  BY Zenon DEF FileInv, Past
<1>7. told[j].at <= LastLine(c) /\ LastLine(c) \in Int
  BY <1>3, <1>5, <1>6, LatestIs, LastLineIs
<1> QED
  BY <1>1, <1>3, <1>4, <1>5, <1>7

\* StatBy after a step.
StatByThen(c, t) ==
    \/ localDue' <= t
    \/ localPhase' = "busy" /\ now' <= t /\ \E k \in next' .. Len(Targets) : Targets[k] = c

StatOf(c) == Stat /\ Targets[next] = c

\* A stat that was to come is still to come, unless it is this one.
LEMMA StatStays ==
    ASSUME BinaryTypeOK, ClockInv, BinaryNext, NEW c \in Comps, NEW t \in Int,
           StatBy(c, t), ~StatOf(c)
    PROVE  StatByThen(c, t)
<1>0. /\ now \in Nat /\ localDue \in Nat /\ next \in Nat /\ Len(Targets) \in Nat
      /\ \E k \in 1 .. Len(Targets) : Targets[k] = c
      /\ now <= localDue
  BY Numbers, Given DEF ClockInv
<1>1. CASE Advance
  <2>1. localPhase = "select" /\ UNCHANGED localVars
    BY <1>1 DEF Advance
  <2> QED
    BY <2>1, Zenon DEF localVars, StatBy, StatByThen
<1>2. CASE UNCHANGED localVars /\ now' = now
  BY <1>2, Zenon DEF localVars, StatBy, StatByThen
<1>3. CASE LocalStep
  <2>1. now' = now
    BY <1>3 DEF LocalStep, world
  <2>2. CASE LocalBegin
    <3>1. now >= localDue /\ localPhase \in {"start", "select"} /\ localPhase' = "busy" /\ next' = 1
      BY <2>2 DEF LocalBegin, LocalLoop!BeginTick
    <3> QED
      BY <1>0, <2>1, <3>1 DEF StatBy, StatByThen
  <2>3. CASE Stat
    <3>1. /\ localPhase = "busy" /\ next' = next + 1 /\ UNCHANGED <<localPhase, localDue>>
          /\ Targets[next] # c
      BY <2>3 DEF Stat, StatOf
    <3>2. \A k \in next .. Len(Targets) : Targets[k] = c => k \in next + 1 .. Len(Targets)
      BY <1>0, <3>1
    <3> QED
      BY <2>1, <3>1, <3>2, Zenon DEF StatBy, StatByThen
  <2>4. CASE LocalEnd
    <3>1. next > Len(Targets) /\ UNCHANGED localDue
      BY <2>4 DEF LocalEnd
    <3>2. ~ \E k \in next .. Len(Targets) : Targets[k] = c
      BY <1>0, <3>1
    <3> QED
      BY <3>1, <3>2, Zenon DEF StatBy, StatByThen
  <2> QED
    BY <1>3, <2>2, <2>3, <2>4 DEF LocalStep
<1>4. WorldStep /\ ~Advance => UNCHANGED localVars /\ now' = now
  BY Zenon DEF WorldStep, World, Announce, Install, StartDownload, FinishDownload
<1>5. Logged \/ RemoteStep => UNCHANGED localVars /\ now' = now
  BY DEF Logged, RemoteStep, world
<1> QED
  BY <1>1, <1>2, <1>3, <1>4, <1>5, BinarySteps, Zenon

\* The next tick is an interval away at most.
LEMMA StatSoon ==
    ASSUME BinaryTypeOK, ClockInv, BinaryNext, now' = now, NEW c
    PROVE  StatByThen(c, now + Every)
BY ClockKeeps DEF ClockInv, StatByThen

\* The stat of a component that can be read.
LEMMA StatReads ==
    ASSUME BinaryTypeOK, NEW c \in Comps \ StatFails, StatOf(c)
    PROVE  /\ localMtime'[c] = disk[c] /\ localMtime'[c] # NoValue
           /\ next' > next /\ c = Targets[next]
           /\ UNCHANGED <<world, logVars, remoteVars>>
<1>1. /\ localMtime' = [localMtime EXCEPT ![c] = disk[c]]
      /\ next' = next + 1 /\ Targets[next] = c /\ UNCHANGED <<world, logVars, remoteVars>>
  BY DEF StatOf, Stat, LocalKeeps
<1>2. localMtime \in [Comps -> Int] /\ disk[c] \in Nat /\ next \in Nat
  BY Numbers
<1> QED
  BY <1>1, <1>2 DEF NoValue

\* Every step keeps it: the stat that comes finds the download unfinished,
\* or ends the alert.
LEMMA AlertKeeps ==
    ASSUME FeedInv, BinaryTypeOK, ClockInv, WorldInv, WatchInv, FileInv, SentInv, AlertInv,
           BinaryNext
    PROVE  AlertInv'
<1> SUFFICES ASSUME NEW c \in Downloaded \ StatFails, since'[c] # NoValue, c \notin missed'
             PROVE  StatByThen(c, since'[c] + Every)
  BY Zenon DEF AlertInv, StatBy, StatByThen
<1>0. /\ c \in Comps /\ c # Visor /\ Every \in Nat /\ Threshold \in Nat
      /\ since[c] \in Int /\ now \in Nat /\ now' \in Nat
      /\ (now' # now => Advance)
  BY Given, Numbers, WorldMoves
<1> DEFINE H == Holds(c)'
<1>1. since'[c] = IF H THEN (IF since[c] = NoValue THEN now ELSE since[c]) ELSE NoValue
  BY <1>0, BinarySteps, Watched
<1>2. H /\ ~(c \in missed \/ (next' > next /\ c = Targets[next] /\ c \in downloading))
  <2>1. H
    BY <1>1, Zenon
  <2>2. missed' = {b \in Downloaded :
            Holds(b)' /\ (b \in missed \/ (next' > next /\ b = Targets[next] /\ b \in downloading))}
    BY BinarySteps, Zenon DEF Watch
  <2> QED
    BY <2>1, <2>2, Zenon
<1>3. CASE since[c] = NoValue
  <2>1. since'[c] = now
    BY <1>1, <1>2, <1>3, Zenon
  <2>2. now' = now
    <3>1. ASSUME Advance PROVE FALSE
      <4>1. UNCHANGED <<gauge, localMtime, remoteMtime>>
        BY <3>1 DEF Advance, logVars, collectorVars, localVars, remoteVars
      <4>2. Holds(c)
        BY <1>2, <4>1, Zenon DEF Holds, Exceeds, Started
      <4> QED
        BY <1>0, <1>3, <4>2, Zenon DEF WatchInv
    <3> QED
      BY <1>0, <3>1
  <2> QED
    BY <2>1, <2>2, StatSoon
<1>4. CASE since[c] # NoValue
  <2>1. since'[c] = since[c]
    BY <1>1, <1>2, <1>4, Zenon
  <2>2. StatBy(c, since[c] + Every)
    BY <1>2, <1>4, Zenon DEF AlertInv
  <2>3. ~StatOf(c)
    <3> SUFFICES ASSUME StatOf(c) PROVE FALSE
      OBVIOUS
    <3>1. /\ localMtime'[c] = disk[c] /\ next' > next /\ c = Targets[next]
          /\ UNCHANGED <<world, logVars, remoteVars>>
      BY <1>0, StatReads
    <3>2. UNCHANGED gauge
      BY <3>1 DEF logVars, collectorVars
    <3>3. Exceeds(Started(c), disk[c])
      BY <1>0, <1>2, <3>1, <3>2, Zenon DEF Holds, Exceeds, Started
    <3>4. c \in downloading
      BY <1>0, <3>3, OnTheWay
    <3> QED
      BY <1>2, <3>1, <3>4, Zenon
  <2> HIDE DEF H
  <2>4. StatByThen(c, since[c] + Every)
    BY <1>0, <2>2, <2>3, StatStays
  <2> QED
    BY <2>1, <2>4
<1> QED
  BY <1>3, <1>4

\* A rule that holds for longer than the interval has met its stat.
LEMMA MissedWhenLong ==
    ASSUME BinaryTypeOK, ClockInv, AlertInv, Every <= For, Downloaded \cap StatFails = {}
    PROVE  AlertMeansMissed
<1> SUFFICES ASSUME NEW c \in Downloaded, since[c] # NoValue, now - since[c] > For,
                    c \notin missed
             PROVE  FALSE
  BY Zenon DEF AlertMeansMissed
<1>1. StatBy(c, since[c] + Every)
  BY Zenon DEF AlertInv
<1>2. now <= localDue /\ now \in Nat /\ localDue \in Nat /\ since[c] \in Int
  BY Given, Numbers DEF ClockInv
<1> QED
  BY <1>1, <1>2, Given DEF StatBy

\* What a component's rule and its truth are after a stat of it.
LEMMA StatTells ==
    ASSUME FeedInv, BinaryTypeOK, WorldInv, FileInv, SentInv,
           NEW c \in Comps \ StatFails, StatOf(c), Holds(c)'
    PROVE  True(c)'
<1>1. /\ localMtime'[c] = disk[c] /\ localMtime'[c] # NoValue
      /\ UNCHANGED <<world, logVars, remoteVars>>
  BY StatReads
<1>2. UNCHANGED <<told, gauge, remoteMtime, disk, server, downloading>>
  BY <1>1 DEF world, logVars, feedVars, collectorVars, remoteVars
<1>3. CASE c = Visor
  <2>1. Exceeds(remoteMtime, disk[Visor])
    BY <1>1, <1>2, <1>3, Zenon DEF Holds, Exceeds
  <2>2. /\ remoteMtime \in Int /\ server \in Nat /\ disk[Visor] \in Nat /\ Threshold \in Nat
        /\ remoteMtime <= server
    BY Numbers, Given DEF WorldInv
  <2>3. server - disk[Visor] > Threshold
    BY <2>1, <2>2 DEF Exceeds
  <2> QED
    BY <1>1, <1>2, <1>3, <2>3, Zenon DEF True
<1>4. CASE c # Visor
  <2>1. Exceeds(Started(c), disk[c])
    BY <1>1, <1>2, <1>4, Zenon DEF Holds, Exceeds, Started
  <2>2. c \in downloading /\ LastLine(c) - disk[c] > Threshold
    BY <2>1, OnTheWay
  <2>3. LastLine(c)' = LastLine(c)
    BY <1>2, Zenon DEF LastLine
  <2> QED
    BY <1>1, <1>2, <1>4, <2>2, <2>3, Zenon DEF True
<1> QED
  BY <1>3, <1>4

\* Every step keeps it: the stat of a normal component ends its rule.
LEMMA CalmKeeps ==
    ASSUME FeedInv, BinaryTypeOK, ClockInv, WorldInv, WatchInv, FileInv, SentInv, CalmInv,
           BinaryNext
    PROVE  CalmInv'
<1> SUFFICES ASSUME NEW c \in Comps \ StatFails, calm'[c] # NoValue, since'[c] # NoValue
             PROVE  StatByThen(c, calm'[c] + Every) \/ StatByThen(c, since'[c] + Every)
  BY Zenon DEF CalmInv, StatBy, StatByThen
<1>0. /\ c \in Comps /\ Every \in Nat
      /\ since[c] \in Int /\ calm[c] \in Int /\ now \in Nat /\ now' \in Nat
      /\ (now' # now => Advance)
  BY Given, Numbers, WorldMoves
<1> DEFINE H == Holds(c)'
           T == True(c)'
<1>1. /\ since'[c] = IF H THEN (IF since[c] = NoValue THEN now ELSE since[c]) ELSE NoValue
      /\ calm'[c] = IF ~T THEN (IF calm[c] = NoValue THEN now ELSE calm[c]) ELSE NoValue
  BY <1>0, BinarySteps, Watched
<1>2. H /\ ~T
  BY <1>1, Zenon
<1>3. CASE now' # now
  <2>1. UNCHANGED <<told, gauge, localMtime, remoteMtime, server, disk, downloading>>
    BY <1>0, <1>3 DEF Advance, logVars, feedVars, collectorVars, localVars, remoteVars
  <2>2. Holds(c) /\ ~True(c)
    <3>1. Holds(c)
      BY <1>2, <2>1, Zenon DEF Holds, Exceeds, Started
    <3>2. True(c) => T
      BY <2>1, Zenon DEF True, LastLine
    <3> QED
      BY <1>2, <3>1, <3>2
  <2>3. since[c] # NoValue /\ calm[c] # NoValue
    BY <1>0, <2>2, Zenon DEF WatchInv
  <2>4. since'[c] = since[c] /\ calm'[c] = calm[c]
    BY <1>1, <1>2, <2>3, Zenon
  <2>5. StatBy(c, calm[c] + Every) \/ StatBy(c, since[c] + Every)
    BY <2>3, Zenon DEF CalmInv
  <2>6. ~StatOf(c)
    BY <1>0, <1>3, StatReads DEF world
  <2> HIDE DEF H, T
  <2>7. StatByThen(c, calm[c] + Every) \/ StatByThen(c, since[c] + Every)
    BY <1>0, <2>5, <2>6, StatStays
  <2> QED
    BY <2>4, <2>7
<1>4. CASE now' = now /\ since[c] = NoValue
  <2>1. since'[c] = now
    BY <1>1, <1>2, <1>4, Zenon
  <2> QED
    BY <1>4, <2>1, StatSoon
<1>5. CASE now' = now /\ calm[c] = NoValue
  <2>1. calm'[c] = now
    BY <1>1, <1>2, <1>5, Zenon
  <2> QED
    BY <1>5, <2>1, StatSoon
<1>6. CASE since[c] # NoValue /\ calm[c] # NoValue
  <2>1. since'[c] = since[c] /\ calm'[c] = calm[c]
    BY <1>1, <1>2, <1>6, Zenon
  <2>2. StatBy(c, calm[c] + Every) \/ StatBy(c, since[c] + Every)
    BY <1>6, Zenon DEF CalmInv
  <2>3. ~StatOf(c)
    BY <1>2, StatTells
  <2> HIDE DEF H, T
  <2>4. StatByThen(c, calm[c] + Every) \/ StatByThen(c, since[c] + Every)
    BY <1>0, <2>2, <2>3, StatStays
  <2> QED
    BY <2>1, <2>4
<1> QED
  BY <1>3, <1>4, <1>5, <1>6

\* A component normal for an interval has had its stat.
LEMMA CalmAfterStat ==
    ASSUME BinaryTypeOK, ClockInv, CalmInv, Every <= For
    PROVE  ResolvedInTime
<1> SUFFICES ASSUME NEW c \in Comps \ StatFails,
                    calm[c] # NoValue, now - calm[c] >= Every, LocalDone, Firing(c)
             PROVE  FALSE
  BY Zenon DEF ResolvedInTime
<1>1. since[c] # NoValue /\ now - since[c] >= For
  BY Zenon DEF Firing
<1>2. StatBy(c, calm[c] + Every) \/ StatBy(c, since[c] + Every)
  BY <1>1, Zenon DEF CalmInv
<1>3. /\ now \in Nat /\ localDue \in Nat /\ since[c] \in Int /\ calm[c] \in Int
      /\ localPhase = "select" /\ localDue > now
      /\ Every \in Nat /\ For \in Nat
  BY Numbers, Given DEF LocalDone
<1>4. calm[c] + Every <= now /\ since[c] + Every <= now
  BY <1>1, <1>3
<1>5. localDue <= calm[c] + Every \/ localDue <= since[c] + Every
  BY <1>2, <1>3, Zenon DEF StatBy
<1> QED
  BY <1>3, <1>4, <1>5

-----------------------------------------------------------------------------
(* The detection budget.                                                   *)

\* One more failed HEAD is one more interval.
LEMMA ByIs ==
    ASSUME NEW t \in Int, NEW n \in Nat
    PROVE  By(t, n) \in Int /\ t + Every <= By(t, n) /\ By(t, n + 1) = By(t, n) + Every
<1>1. Every \in Nat
  BY Given
<1>2. (1 + n) * Every = Every + n * Every /\ n * Every \in Nat
  BY <1>1
<1>3. (1 + (n + 1)) * Every = (1 + n) * Every + Every
  BY <1>1
<1> QED
  BY <1>1, <1>2, <1>3 DEF By

\* What a remote tick does: it begins, gets its answer, or stores it.
LEMMA RemoteMoves ==
    ASSUME BinaryTypeOK, ClockInv, WorldInv, RemoteStep
    PROVE  /\ UNCHANGED <<logVars, world, localVars>>
           /\ \/ /\ remoteDue <= now /\ answer = NoAnswer
                 /\ remotePhase' = "busy" /\ UNCHANGED <<answer, remoteMtime, headErrors>>
              \/ /\ remotePhase = "busy" /\ answer = NoAnswer /\ remoteDue = now + Every
                 /\ UNCHANGED <<remotePhase, remoteDue, remoteMtime>>
                 /\ \/ answer' = server /\ UNCHANGED headErrors
                    \/ headErrors' = headErrors + 1
              \/ answer = Failed /\ UNCHANGED <<remoteDue, remoteMtime, headErrors>>
              \/ /\ answer \in Times /\ remoteMtime <= answer /\ remoteMtime' = answer
                 /\ UNCHANGED <<remoteDue, headErrors>>
<1>0. UNCHANGED <<logVars, world, localVars>>
  BY Zenon DEF RemoteStep
<1>1. CASE RemoteBegin
  BY <1>0, <1>1, Numbers DEF RemoteBegin, RemoteLoop!BeginTick, ClockInv
<1>2. CASE HeadVisor
  BY <1>0, <1>2 DEF HeadVisor, ClockInv
<1>3. CASE HeadFailed
  BY <1>0, <1>3 DEF HeadFailed, WorldInv
<1>4. CASE HeadSucceeded
  BY <1>0, <1>4 DEF HeadSucceeded, WorldInv
<1> QED
  BY <1>1, <1>2, <1>3, <1>4 DEF RemoteStep

\* The failed HEADs are counted from the announcement on.
LEMMA ErrorsSince ==
    ASSUME BinaryNext, ~RemoteStep, truth[Visor] # NoValue
    PROVE  UNCHANGED headErrors
BY BinarySteps, Zenon DEF WorldStep, World, Advance, Announce, Install, StartDownload,
   FinishDownload, Logged, LocalStep

\* A gauge ahead of the file is ahead of what the local ticker knows of it.
LEMMA AheadOfFile ==
    ASSUME BinaryTypeOK, WorldInv, WatchInv, NEW c \in Comps, truth[c] # NoValue,
           NEW v \in Int, v - disk[c] > Threshold
    PROVE  Exceeds(v, localMtime[c])
<1>1. True(c) /\ localMtime[c] <= disk[c]
  BY Zenon DEF WatchInv, WorldInv
<1>2. localMtime[c] # NoValue
  BY <1>1, Zenon DEF True
<1>3. localMtime[c] \in Int /\ disk[c] \in Nat /\ Threshold \in Nat
  BY Numbers, Given
<1> QED
  BY <1>1, <1>2, <1>3 DEF Exceeds, NoValue

\* Every step keeps it: a HEAD that fails delays by an interval, one that
\* succeeds makes the rule hold.
LEMMA VisorKeeps ==
    ASSUME FeedInv, BinaryTypeOK, ClockInv, WorldInv, WatchInv, VisorInv, BinaryNext
    PROVE  VisorInv'
<1> SUFFICES ASSUME truth'[Visor] # NoValue PROVE VisorInv'
  BY Zenon DEF VisorInv
<1> DEFINE H == Holds(Visor)'
           T == True(Visor)'
           d == disk[Visor]
           b == By(truth[Visor], headErrors)
<1>0. /\ Visor \in Comps /\ Every \in Nat /\ Threshold \in Nat
      /\ since[Visor] \in Int /\ truth[Visor] \in Int
      /\ now \in Nat /\ now' \in Nat /\ (now' # now => Advance)
      /\ headErrors \in Nat /\ headErrors' \in Nat /\ server \in Nat /\ remoteDue \in Nat
      /\ d \in Nat /\ remoteMtime \in Int /\ answer \in Int
  <2>1. headErrors' \in Nat
    <3>1. BinaryTypeOK'
      BY BinaryTyped
    <3> QED
      BY <3>1 DEF BinaryTypeOK
  <2> QED
    BY <2>1, Given, Numbers, WorldMoves
<1>1. /\ since'[Visor] = IF H THEN (IF since[Visor] = NoValue THEN now ELSE since[Visor]) ELSE NoValue
      /\ truth'[Visor] = IF T THEN (IF truth[Visor] = NoValue THEN now ELSE truth[Visor]) ELSE NoValue
  BY <1>0, BinarySteps, Watched
<1>2. T
  BY <1>1, Zenon
<1>3. /\ localMtime'[Visor] # NoValue /\ server' - disk'[Visor] > Threshold
      /\ localMtime'[Visor] <= disk'[Visor] /\ disk'[Visor] \in Nat /\ localMtime'[Visor] \in Int
      /\ remoteMtime' \in Int
  <2>1. BinaryTypeOK' /\ WorldInv'
    BY BinaryTyped, WorldKeeps
  <2>2. localMtime'[Visor] <= disk'[Visor]
    BY <1>0, <2>1 DEF WorldInv
  <2>3. /\ disk' \in [Comps -> Times] /\ localMtime' \in [Comps -> TimeOrNone]
        /\ remoteMtime' \in TimeOrNone
    BY <2>1 DEF BinaryTypeOK
  <2>4. \A t \in TimeOrNone : t \in Int
    BY Numbers DEF TimeOrNone, NoValue
  <2>5. localMtime'[Visor] # NoValue /\ server' - disk'[Visor] > Threshold
    BY <1>2, Zenon DEF True
  <2> QED
    BY <1>0, <2>2, <2>3, <2>4, <2>5, Numbers
<1>4. disk'[Visor] = d
  BY <1>0, <1>3, WorldMoves
<1>5. remoteMtime' - d > Threshold => H
  <2>1. ASSUME remoteMtime' - d > Threshold
        PROVE  Exceeds(remoteMtime', localMtime'[Visor])
    BY <1>0, <1>3, <1>4, <2>1 DEF Exceeds, NoValue
  <2> QED
    BY <2>1, Zenon DEF Holds, Exceeds
<1>6. since[Visor] <= now
  BY <1>0, Zenon DEF WatchInv
<1> HIDE DEF H, T, d
<1>7. CASE truth[Visor] = NoValue
  <2>1. truth'[Visor] = now
    BY <1>1, <1>2, <1>7, Zenon
  <2>2. now' = now
    <3>1. ASSUME Advance PROVE FALSE
      <4>1. UNCHANGED <<told, localMtime, server, disk, downloading>>
        BY <3>1 DEF Advance, logVars, feedVars, localVars
      <4>2. True(Visor)
        BY <1>2, <4>1, Zenon DEF T, True, LastLine
      <4> QED
        BY <1>0, <1>7, <4>2, Zenon DEF WatchInv
    <3> QED
      BY <1>0, <3>1
  <2>3. remoteDue' <= now + Every /\ remoteDue' \in Nat
    <3>1. ClockInv' /\ BinaryTypeOK'
      BY ClockKeeps, BinaryTyped
    <3> QED
      BY <2>2, <3>1 DEF ClockInv, BinaryTypeOK
  <2>4. HeadBy' \in Int /\ now + Every <= HeadBy'
    BY <1>0, <2>1, ByIs DEF HeadBy
  <2>5. remoteDue' <= HeadBy'
    BY <1>0, <2>3, <2>4
  <2> QED
    BY <2>5, Zenon DEF VisorInv
<1>8. CASE truth[Visor] # NoValue
  <2>1. truth'[Visor] = truth[Visor]
    BY <1>1, <1>2, <1>8, Zenon
  <2>2. \/ remoteMtime - d > Threshold /\ since[Visor] <= b
        \/ remoteDue <= b
        \/ remotePhase = "busy" /\ now <= b /\ answer = NoAnswer
        \/ remotePhase = "busy" /\ now <= b /\ answer - d > Threshold
    BY <1>8, Zenon DEF VisorInv, HeadBy, d
  <2>3. /\ b \in Int
        /\ headErrors' = headErrors => HeadBy' = b
        /\ headErrors' = headErrors + 1 => HeadBy' = b + Every
    BY <1>0, <2>1, ByIs DEF HeadBy
  <2>4. remoteMtime - d > Threshold => since[Visor] # NoValue
    <3>1. ASSUME remoteMtime - d > Threshold PROVE Exceeds(remoteMtime, localMtime[Visor])
      BY <1>0, <1>8, <3>1, AheadOfFile DEF d
    <3>2. ASSUME remoteMtime - d > Threshold PROVE Holds(Visor)
      BY <3>1, <3>2, Zenon DEF Holds, Exceeds
    <3> QED
      BY <1>0, <3>2, Zenon DEF WatchInv
  <2>5. VisorInv' <=> \/ remoteMtime' - d > Threshold /\ since'[Visor] <= HeadBy'
                      \/ remoteDue' <= HeadBy'
                      \/ remotePhase' = "busy" /\ now' <= HeadBy' /\ answer' = NoAnswer
                      \/ remotePhase' = "busy" /\ now' <= HeadBy' /\ answer' - d > Threshold
    BY <1>4, Zenon DEF VisorInv, d
  <2> HIDE DEF b
  <2>6. CASE ~RemoteStep
    <3>1. HeadBy' = b
      BY <1>8, <2>3, <2>6, ErrorsSince
    <3>2. UNCHANGED remoteVars
      BY <2>6, BinarySteps, Zenon DEF WorldStep, Logged, LocalStep
    <3>3. UNCHANGED <<remoteMtime, remoteDue, remotePhase, answer>>
      BY <3>2 DEF remoteVars
    <3>4. remoteMtime - d > Threshold => since'[Visor] = since[Visor]
      BY <1>1, <1>5, <2>4, <3>3, Zenon
    <3>5. remotePhase = "busy" => now' = now
      <4>1. Advance => remotePhase = "select"
        BY Zenon DEF Advance
      <4> QED
        BY <1>0, <4>1
    <3> QED
      BY <2>2, <2>5, <3>1, <3>3, <3>4, <3>5, Zenon
  <2>7. CASE RemoteStep
    <3>1. now' = now
      BY <2>7 DEF RemoteStep, world
    <3>2. since'[Visor] \in Int /\ (H => since'[Visor] <= now)
      BY <1>0, <1>1, <1>6 DEF NoValue
    <3>3. ASSUME remoteMtime - d > Threshold, since[Visor] <= b, remoteMtime <= remoteMtime',
                 headErrors' \in {headErrors, headErrors + 1}
          PROVE  VisorInv'
      <4>1. remoteMtime' - d > Threshold
        <5>1. {d, Threshold, remoteMtime, remoteMtime'} \subseteq Int
          BY <1>0, <1>3
        <5> HIDE DEF d
        <5> QED
          BY <3>3, <5>1
      <4>2. since'[Visor] = since[Visor]
        BY <1>1, <1>5, <2>4, <3>3, <4>1, Zenon
      <4>3. since'[Visor] <= HeadBy'
        BY <1>0, <2>3, <3>3, <4>2
      <4> QED
        BY <2>5, <4>1, <4>3
    <3>4. CASE /\ remoteDue <= now /\ answer = NoAnswer
               /\ remotePhase' = "busy" /\ UNCHANGED <<answer, remoteMtime, headErrors>>
      <4>1. CASE remoteMtime - d > Threshold /\ since[Visor] <= b
        BY <1>0, <3>3, <3>4, <4>1
      <4>2. CASE now <= b
        BY <2>3, <2>5, <3>1, <3>4, <4>2
      <4>3. remoteDue <= b => now <= b
        BY <1>0, <2>3 DEF ClockInv
      <4> QED
        BY <2>2, <4>1, <4>2, <4>3
    <3>5. CASE /\ remotePhase = "busy" /\ answer = NoAnswer /\ remoteDue = now + Every
               /\ UNCHANGED <<remotePhase, remoteDue, remoteMtime>>
               /\ \/ answer' = server /\ UNCHANGED headErrors
                  \/ headErrors' = headErrors + 1
      <4>1. CASE remoteMtime - d > Threshold /\ since[Visor] <= b
        BY <1>0, <3>3, <3>5, <4>1
      <4>2. CASE remoteDue <= b
        BY <1>0, <2>3, <2>5, <3>5, <4>2
      <4>3. CASE now <= b /\ headErrors' = headErrors + 1
        BY <1>0, <2>3, <2>5, <3>5, <4>3
      <4>4. CASE now <= b /\ answer' = server /\ UNCHANGED headErrors
        <5>1. server - d > Threshold
          BY <1>3, <1>4, <2>7 DEF RemoteStep, world
        <5> QED
          BY <2>3, <2>5, <3>1, <3>5, <4>4, <5>1
      <4> QED
        BY <2>2, <3>5, <4>1, <4>2, <4>3, <4>4
    <3>6. CASE answer = Failed /\ UNCHANGED <<remoteDue, remoteMtime, headErrors>>
      <4>1. ~(answer = NoAnswer) /\ ~(answer - d > Threshold)
        BY <1>0, <3>6 DEF Failed, NoAnswer
      <4>2. CASE remoteMtime - d > Threshold /\ since[Visor] <= b
        BY <1>0, <3>3, <3>6, <4>2
      <4>3. CASE remoteDue <= b
        BY <2>3, <2>5, <3>6, <4>3
      <4> QED
        BY <2>2, <4>1, <4>2, <4>3
    <3>7. CASE /\ answer \in Times /\ remoteMtime <= answer /\ remoteMtime' = answer
               /\ UNCHANGED <<remoteDue, headErrors>>
      <4>1. CASE remoteMtime - d > Threshold /\ since[Visor] <= b
        BY <3>3, <3>7, <4>1
      <4>2. CASE remoteDue <= b
        BY <2>3, <2>5, <3>7, <4>2
      <4>3. answer # NoAnswer
        BY <3>7, Numbers DEF NoAnswer
      <4>4. CASE now <= b /\ answer - d > Threshold
        <5>1. remoteMtime' - d > Threshold
          BY <3>7, <4>4
        <5>2. since'[Visor] <= HeadBy'
          BY <1>0, <1>5, <2>3, <3>2, <3>7, <4>4, <5>1
        <5> QED
          BY <2>5, <5>1, <5>2
      <4> QED
        BY <2>2, <4>1, <4>2, <4>3, <4>4
    <3> QED
      BY <2>7, <3>4, <3>5, <3>6, <3>7, RemoteMoves, Zenon
  <2> QED
    BY <2>6, <2>7
<1> QED
  BY <1>7, <1>8

\* Every step keeps it: the line of the download reaches the gauge within Poll.
LEMMA ChildKeeps ==
    ASSUME FeedInv, BinaryTypeOK, ClockInv, WorldInv, WatchInv, FileInv, SentInv, OrderInv,
           ChildInv, BinaryNext
    PROVE  ChildInv'
<1> SUFFICES ASSUME Restarted' = 0, NEW c \in Comps \ {Visor}, truth'[c] # NoValue
             PROVE  \E d \in File' :
                       /\ Of(d[2]) = c
                       /\ Begun(d[2]) - disk'[c] > Threshold
                       /\ Begun(d[2]) <= truth'[c]
                       /\ Begun(d[2]) <= Started(c)' => since'[c] <= truth'[c] + Poll
  BY Zenon DEF ChildInv, Of, Begun
<1>0. /\ c \in Comps /\ c # Visor /\ Threshold \in Nat /\ Poll \in Nat
      /\ since[c] \in Int /\ truth[c] \in Int /\ since[c] <= now
      /\ now \in Nat /\ now' \in Nat /\ (now' # now => Advance)
  BY Given, Numbers, WorldMoves DEF WatchInv
<1> DEFINE H == Holds(c)'
           T == True(c)'
           s == Started(c)'
           local == localMtime'[c]
           file == disk'[c]
           last == LastLine(c)'
<1>n. BinaryTypeOK' /\ WorldInv' /\ FileInv' /\ SentInv' /\ FeedInv'
  BY BinaryTyped, WorldKeeps, FileKeeps, SentKeeps, LogKeeps
<1>1. /\ since'[c] = IF H THEN (IF since[c] = NoValue THEN now ELSE since[c]) ELSE NoValue
      /\ truth'[c] = IF T THEN (IF truth[c] = NoValue THEN now ELSE truth[c]) ELSE NoValue
  BY <1>0, BinarySteps, Watched
<1>2. T
  BY <1>1, Zenon
<1>3. local # NoValue /\ c \in downloading' /\ last - file > Threshold
  BY <1>0, <1>2, Zenon DEF True
<1>4. file = disk[c] /\ file \in Nat
  BY <1>0, <1>3, WorldMoves
<1>5. local \in Int /\ local <= file /\ c \in Downloaded /\ c \in Children
  <2>1. local <= file
    BY <1>0, <1>n DEF WorldInv
  <2>2. localMtime' \in [Comps -> TimeOrNone] /\ downloading' \in SUBSET Downloaded
    BY <1>n DEF BinaryTypeOK
  <2>3. \A t \in TimeOrNone : t \in Int
    BY Numbers DEF TimeOrNone, NoValue
  <2> QED
    BY <1>0, <1>3, <2>1, <2>2, <2>3, Given
<1>6. s \in Int
  BY <1>5, <1>n DEF SentInv, FileInv, Past, NoValue, Started
<1>7. ASSUME NEW a \in Nat, a - file > Threshold, a <= s PROVE H
  <2>1. Exceeds(s, local)
    BY <1>0, <1>3, <1>4, <1>5, <1>6, <1>7 DEF Exceeds, NoValue
  <2> QED
    BY <1>0, <2>1, Zenon DEF Holds, Exceeds
<1>8. Restarted = 0 /\ File \subseteq File'
  <2>1. ~Restarts
    BY DEF Restarts
  <2> QED
    BY <2>1, LogSteps, Zenon DEF Tells, Sends, Takes, Quiet
<1> HIDE DEF H, T, s, local, file, last
<1>9. CASE truth[c] = NoValue
  <2>1. truth'[c] = now
    BY <1>1, <1>2, <1>9, Zenon
  <2>2. now' = now
    <3>1. ASSUME Advance PROVE FALSE
      <4>1. UNCHANGED <<told, localMtime, server, disk, downloading>>
        BY <3>1 DEF Advance, logVars, feedVars, localVars
      <4>2. True(c)
        BY <1>2, <4>1, Zenon DEF T, True, LastLine
      <4> QED
        BY <1>0, <1>9, <4>2, Zenon DEF WatchInv
    <3> QED
      BY <1>0, <3>1
  <2>3. \A k \in DOMAIN told' : told'[k].at \in Nat /\ told'[k].at <= now
    BY <1>n, <2>2, Zenon DEF FileInv, Past
  <2>4. last = Latest(told', c)
    BY Zenon DEF last, LastLine, Latest
  <2>5. last # NoValue
    BY <1>0, <1>3, <1>4 DEF NoValue
  <2>6. PICK k \in DOMAIN told' : told'[k].comp = c /\ told'[k].at = last
    BY <1>0, <2>3, <2>4, <2>5, LatestIs
  <2>7. PICK d \in File' : d[1] = k
    BY <1>n, Zenon DEF FileInv
  <2>d. Of(d[2]) = c /\ Begun(d[2]) = last
    BY <1>n, <2>6, <2>7, Zenon DEF FileInv, Of, Begun
  <2>e. Begun(d[2]) - file > Threshold /\ Begun(d[2]) \in Nat /\ Begun(d[2]) <= now
    BY <1>3, <2>3, <2>6, <2>d
  <2>8. Begun(d[2]) <= s => since'[c] <= now + Poll
    BY <1>0, <1>1, <1>7, <2>e DEF NoValue
  <2> QED
    BY <2>1, <2>d, <2>e, <2>8, Zenon DEF file, s
<1>10. CASE truth[c] # NoValue
  <2>1. truth'[c] = truth[c]
    BY <1>1, <1>2, <1>10, Zenon
  <2>2. PICK d \in File :
           /\ Of(d[2]) = c
           /\ Begun(d[2]) - disk[c] > Threshold
           /\ Begun(d[2]) <= truth[c]
           /\ Begun(d[2]) <= Started(c) => since[c] <= truth[c] + Poll
    BY <1>0, <1>8, <1>10, Zenon DEF ChildInv
  <2>3. /\ Begun(d[2]) \in Nat /\ Started(c) \in Int
        /\ \A k \in DOMAIN Channel : Begun(Channel[k]) \in Nat
    BY <1>5, LogNumbers
  <2>4. Reached /\ NoneLate
    BY <1>8, Zenon DEF OrderInv
  <2>5. Begun(d[2]) <= Started(c) \/ now <= Begun(d[2]) + Poll
    <3>1. CASE d \in Sent
      BY <2>2, <2>4, <3>1, Zenon DEF Reached, NoneLate
    <3>2. CASE d \notin Sent
      BY <2>4, <3>2, Zenon DEF NoneLate
    <3> QED
      BY <3>1, <3>2
  <2>6. ASSUME Begun(d[2]) <= s PROVE since'[c] <= truth[c] + Poll
    <3>1. H
      BY <1>4, <1>7, <2>2, <2>3, <2>6
    <3>2. since'[c] = IF since[c] = NoValue THEN now ELSE since[c]
      BY <1>1, <3>1, Zenon
    <3>3. CASE now <= Begun(d[2]) + Poll
      BY <1>0, <2>2, <2>3, <3>2, <3>3
    <3>4. CASE Begun(d[2]) <= Started(c)
      <4>1. Exceeds(Started(c), localMtime[c])
        <5>1. Started(c) - disk[c] > Threshold
          BY <1>0, <1>4, <2>2, <2>3, <3>4
        <5> QED
          BY <1>0, <1>10, <2>3, <5>1, AheadOfFile
      <4>2. Holds(c)
        BY <1>0, <4>1, Zenon DEF Holds, Exceeds
      <4>3. since[c] # NoValue
        BY <1>0, <4>2, Zenon DEF WatchInv
      <4> QED
        BY <2>2, <3>2, <3>4, <4>3
    <3> QED
      BY <2>5, <3>3, <3>4
  <2> QED
    BY <1>4, <1>8, <2>1, <2>2, <2>6, Zenon DEF file, s
<1> QED
  BY <1>9, <1>10

\* After the budget the rule has held for as long as its "for".
LEMMA KnownInTime ==
    ASSUME FeedInv, BinaryTypeOK, ClockInv, WorldInv, WatchInv, FileInv, SentInv, OrderInv,
           VisorInv, ChildInv
    PROVE  ReportedInTime
<1> SUFFICES ASSUME NEW c \in Comps, truth[c] # NoValue, now - truth[c] > Budget(c),
                    c = Visor \/ ~(Restarted > 0)
             PROVE  since[c] # NoValue /\ now - since[c] >= For
  BY Zenon DEF ReportedInTime, Firing, Restarted
<1>0. /\ now \in Nat /\ since[c] \in Int /\ truth[c] \in Int /\ headErrors \in Nat
      /\ remoteDue \in Nat /\ remoteMtime \in Int
      /\ For \in Nat /\ Poll \in Nat /\ Threshold \in Nat /\ now <= remoteDue
      /\ Holds(c) => since[c] # NoValue
  BY Given, Numbers DEF ClockInv, WatchInv
<1>1. CASE c = Visor
  <2> DEFINE b == By(truth[Visor], headErrors)
  <2>1. b \in Int
    BY <1>0, <1>1, ByIs
  <2>2. b = truth[Visor] + (1 + headErrors) * Every
    BY Zenon DEF By
  <2>3. HeadBy = b
    BY DEF HeadBy
  <2> DEFINE e == (1 + headErrors) * Every
  <2>4. e \in Int
    BY <1>0, Given
  <2>5. Budget(c) = For + e
    BY <1>1, Zenon DEF Budget
  <2> HIDE DEF b, e
  <2>6. now - b > For
    BY <1>0, <1>1, <2>1, <2>2, <2>4, <2>5 DEF e
  <2>7. remoteMtime - disk[Visor] > Threshold /\ since[Visor] <= b
    BY <1>0, <1>1, <2>1, <2>3, <2>6 DEF VisorInv
  <2>8. Exceeds(remoteMtime, localMtime[c])
    BY <1>0, <1>1, <2>7, AheadOfFile
  <2>9. Holds(c)
    BY <1>1, <2>8, Zenon DEF Holds, Exceeds
  <2> QED
    BY <1>0, <1>1, <2>1, <2>6, <2>7, <2>9
<1>2. CASE c # Visor
  <2>1. Restarted = 0
    <3>1. Restarted \in Nat
      BY Given, LogCollectorsAssumption DEF LogCollectorsAssumption, FeedInv, TypeOK, Restarted
    <3> QED
      BY <1>2, <3>1
  <2>2. PICK d \in File :
           /\ Of(d[2]) = c
           /\ Begun(d[2]) - disk[c] > Threshold
           /\ Begun(d[2]) <= truth[c]
           /\ Begun(d[2]) <= Started(c) => since[c] <= truth[c] + Poll
    BY <1>2, <2>1, Zenon DEF ChildInv
  <2>3. now - truth[c] > For + Poll
    BY <1>2, Zenon DEF Budget
  <2>4. /\ Begun(d[2]) \in Nat /\ c \in Children /\ Started(c) \in Int /\ disk[c] \in Nat
        /\ \A k \in DOMAIN Channel : Begun(Channel[k]) \in Nat
    BY <2>2, Given, Numbers, LogNumbers
  <2>5. Begun(d[2]) <= Started(c)
    <3>1. Reached /\ NoneLate
      BY <2>1, Zenon DEF OrderInv
    <3>2. ~(now <= Begun(d[2]) + Poll)
      BY <1>0, <2>2, <2>3, <2>4
    <3>3. d \in Sent
      BY <3>1, <3>2, Zenon DEF NoneLate
    <3> QED
      BY <2>2, <3>1, <3>2, <3>3, Zenon DEF Reached, NoneLate
  <2>6. Exceeds(Started(c), localMtime[c])
    <3>1. Started(c) - disk[c] > Threshold
      BY <1>0, <2>2, <2>4, <2>5
    <3> QED
      BY <2>4, <3>1, AheadOfFile
  <2>7. Holds(c)
    BY <1>2, <2>6, Zenon DEF Holds, Exceeds
  <2> QED
    BY <1>0, <2>2, <2>3, <2>5, <2>7
<1> QED
  BY <1>1, <1>2

-----------------------------------------------------------------------------
(* The invariant, and what follows of it.                                  *)

BinaryInv ==
    /\ FeedInv /\ BinaryTypeOK /\ ClockInv /\ WorldInv /\ WatchInv
    /\ FileInv /\ SentInv /\ OrderInv
    /\ AlertInv /\ CalmInv /\ VisorInv /\ ChildInv

\* Nothing has happened.
LEMMA BinaryInitInv == BinaryInit => BinaryInv
<1> SUFFICES ASSUME BinaryInit PROVE BinaryInv
  OBVIOUS
<1>1. FeedInv
  BY FeedInitInv DEF BinaryInit
<1>2. BinaryTypeOK /\ ClockInv /\ WorldInv /\ WatchInv
  BY BinaryInitTypes, BinaryInitWorld, BinaryInitWatch
<1>3. File = {} /\ Sent = {} /\ Channel = <<>> /\ told = <<>>
  BY Given DEF BinaryInit, Init, FeedInit, File, Sent, Channel
<1>4. \A c \in Children : Started(c) = NoValue
  <2>1. \A c \in Children : <<"download_started", c>> \in Gauges
    BY Given DEF Gauges
  <2> QED
    BY <2>1 DEF BinaryInit, Init, Unset, Started
<1>5. \A c \in Comps : since[c] = NoValue /\ truth[c] = NoValue
  BY DEF BinaryInit
<1>6. FileInv /\ SentInv
  BY <1>3, <1>4 DEF FileInv, SentInv
<1>7. OrderInv
  BY <1>3, <1>4 DEF OrderInv, ChannelSent, GaugesSent, ChannelSorted, GaugesBehind, Reached, NoneLate
<1>8. AlertInv /\ CalmInv /\ VisorInv /\ ChildInv
  BY <1>5, Given, Zenon DEF AlertInv, CalmInv, VisorInv, ChildInv
<1> QED
  BY <1>1, <1>2, <1>6, <1>7, <1>8, Zenon DEF BinaryInv

\* Every step keeps every part.
LEMMA BinaryNextInv == BinaryInv /\ [BinaryNext]_allVars => BinaryInv'
<1> SUFFICES ASSUME BinaryInv, [BinaryNext]_allVars PROVE BinaryInv'
  OBVIOUS
<1>1. CASE BinaryNext
  <2>1. FeedInv' /\ BinaryTypeOK' /\ ClockInv' /\ WorldInv' /\ WatchInv'
    BY <1>1, LogKeeps, BinaryTyped, ClockKeeps, WorldKeeps, WatchKeeps DEF BinaryInv
  <2>2. FileInv' /\ SentInv' /\ OrderInv'
    BY <1>1, FileKeeps, SentKeeps, OrderKeeps DEF BinaryInv
  <2>3. AlertInv' /\ CalmInv' /\ VisorInv' /\ ChildInv'
    BY <1>1, AlertKeeps, CalmKeeps, VisorKeeps, ChildKeeps DEF BinaryInv
  <2> QED
    BY <2>1, <2>2, <2>3, Zenon DEF BinaryInv
<1>2. CASE UNCHANGED allVars
  <2>0. /\ UNCHANGED <<due, given, out, gauge, restarts>>
        /\ UNCHANGED <<now, disk, server, downloading, told>>
        /\ UNCHANGED <<localPhase, localDue, next, localMtime>>
        /\ UNCHANGED <<remotePhase, remoteDue, answer, lastRemote, remoteMtime, headErrors>>
        /\ UNCHANGED <<since, truth, calm, missed>>
    BY <1>2 DEF allVars, logVars, feedVars, collectorVars, history, binaryVars, world,
       localVars, remoteVars, watch
  <2>1. FeedInv' /\ BinaryTypeOK'
    BY LogKeeps, BinaryTyped DEF BinaryInv
  <2>2. ClockInv'
    BY <2>0, Zenon DEF BinaryInv, ClockInv
  <2>3. WorldInv'
    BY <2>0, Zenon DEF BinaryInv, WorldInv
  <2>4. WatchInv'
    <3>1. \A c \in Comps : (Holds(c)' <=> Holds(c)) /\ (True(c)' <=> True(c))
      BY <2>0, Zenon DEF Holds, Exceeds, Started, True, LastLine
    <3> QED
      BY <2>0, <3>1, Zenon DEF BinaryInv, WatchInv
  <2>5. FileInv' /\ SentInv' /\ OrderInv'
    BY <2>0, Zenon DEF BinaryInv, FileInv, SentInv, OrderInv, ChannelSent, GaugesSent,
       ChannelSorted, GaugesBehind, Reached, NoneLate, Started, File, Sent, Channel, Restarted,
       Past, Of, Begun
  <2>6. AlertInv' /\ CalmInv'
    BY <2>0, Zenon DEF BinaryInv, AlertInv, CalmInv, StatBy
  <2>7. VisorInv' /\ ChildInv'
    BY <2>0, Zenon DEF BinaryInv, VisorInv, ChildInv, HeadBy, By, Started, File, Restarted, Of, Begun
  <2> QED
    BY <2>1, <2>2, <2>3, <2>4, <2>5, <2>6, <2>7, Zenon DEF BinaryInv
<1> QED
  BY <1>1, <1>2

(***************************************************************************)
(* The detection budget of the comment above BinaryCollector: with failed  *)
(* HEADs (a failure takes nothing back) and with failed stats, whatever    *)
(* the intervals are, an announced visor and a download that does not end  *)
(* are reported in time.                                                   *)
(***************************************************************************)
THEOREM ReportsInTime == BinarySpec => []ReportedInTime
<1>1. BinaryInv => ReportedInTime
  BY KnownInTime DEF BinaryInv
<1> QED
  BY <1>1, BinaryInitInv, BinaryNextInv, PTL DEF BinarySpec

(***************************************************************************)
(* After a local tick no rule fires for a component that has been normal   *)
(* for an interval, when the "for" of the rules is no shorter than that.   *)
(***************************************************************************)
THEOREM ResolvesInTime == ASSUME Every <= For PROVE BinarySpec => []ResolvedInTime
<1>1. BinaryInv => ResolvedInTime
  BY CalmAfterStat DEF BinaryInv
<1> QED
  BY <1>1, BinaryInitInv, BinaryNextInv, PTL DEF BinarySpec

(***************************************************************************)
(* A download alert that goes on firing was confirmed by a tick during the *)
(* download, when the files can be read and the "for" of the rule is no    *)
(* shorter than the interval.                                              *)
(***************************************************************************)
THEOREM AlertsConfirmed ==
    ASSUME Every <= For, Downloaded \cap StatFails = {}
    PROVE  BinarySpec => []AlertMeansMissed
<1>1. BinaryInv => AlertMeansMissed
  BY MissedWhenLong DEF BinaryInv
<1> QED
  BY <1>1, BinaryInitInv, BinaryNextInv, PTL DEF BinarySpec
=============================================================================
