----------------------------- MODULE BridgeState -----------------------------
(***************************************************************************)
(* The bridge state collector (internal/collectors/bridge_state.go): every *)
(* tick stats the publisher's state file, opens it and decodes the cursor  *)
(* of each explorer, while the publisher saves the file, in place or by a  *)
(* rename.  The file can change between any two of those calls.            *)
(***************************************************************************)
EXTENDS RunTicker, FiniteSets, FiniteSetsExt

CONSTANTS
    Explorers,  \* the explorers the publisher scans with
    MaxBlock,   \* bound: highest block scanned
    MaxWrites,  \* bound: changes of the file; they are its clock too
    PerSecond   \* changes a second: as many share their mtime

ASSUME BridgeStateAssumption ==
    /\ MaxBlock \in Nat /\ MaxWrites \in Nat
    /\ PerSecond \in Nat \ {0}

\* "doc": the expected shape; "other": JSON without cursors; "torn": cut
\* short; "huge": more than maxStateFileSize.
Contents == {"missing", "doc", "other", "torn", "huge"}
Blocks == 0 .. MaxBlock
Cursors == UNION {[S -> Blocks] : S \in SUBSET Explorers}
NoCursors == [e \in {} |-> 0]
File == [kind : Contents, cursors : Cursors, at : 0 .. MaxWrites]

\* ModTime().Unix() cuts the time to seconds.
Unix(t) == t \div PerSecond

VARIABLES
    file,       \* the state file
    held,       \* the file the tick has open
    shared,     \* held is still the file of that name
    scan,       \* explorer -> the publisher's cursor
    lost,       \* history: an explorer has gone from the file
    step,       \* the call of the tick that comes next
    result,     \* the error the tick returns
    lastBlock, mtime, explorerCursor,   \* the series
    versions    \* history: what has been in the file during this tick

publisherVars == <<file, shared, scan, lost>>
series == <<lastBlock, mtime, explorerCursor>>
tickVars == <<step, result>>
vars == <<tickerVars, publisherVars, held, series, tickVars, versions>>

TypeOK ==
    /\ TickerTypeOK
    /\ file \in File /\ held \in File /\ versions \subseteq File
    /\ shared \in BOOLEAN /\ lost \in BOOLEAN
    /\ scan \in [Explorers -> Blocks]
    /\ step \in {"stat", "open", "decode", "end"}
    /\ result \in Kinds \cup {NoError}
    /\ lastBlock \in Blocks
    /\ mtime \in Nat
    /\ explorerCursor \in Cursors

Missing(t) == [kind |-> "missing", cursors |-> NoCursors, at |-> t]

Init ==
    /\ TickerInit
    /\ file = Missing(0) /\ held = Missing(0) /\ versions = {}
    /\ shared = FALSE /\ lost = FALSE
    /\ scan = [e \in Explorers |-> 0]
    /\ step = "stat" /\ result = NoError
    /\ lastBlock = 0 /\ mtime = 0 /\ explorerCursor = NoCursors

-----------------------------------------------------------------------------
(* The publisher.                                                          *)

\* A file rewritten in place changes under the tick that has it open; one
\* replaced by a rename, or deleted, does not.
Put(kind, cursors, inPlace) ==
    /\ file.at < MaxWrites
    /\ file' = [kind |-> kind, cursors |-> cursors, at |-> file.at + 1]
    /\ shared' = (shared /\ inPlace)
    /\ held' = IF shared' THEN file' ELSE held
    /\ versions' = IF phase = "busy" THEN versions \cup {file'} ELSE versions
    /\ UNCHANGED <<tickerVars, series, tickVars>>

\* It saves what it has scanned, by a rename or into the file it has
\* truncated; an explorer may be taken out of the set.
Save ==
    \E e \in Explorers, S \in (SUBSET Explorers) \ {{}}, inPlace \in BOOLEAN :
        /\ inPlace => file.kind = "torn"
        /\ scan[e] < MaxBlock
        /\ scan' = [scan EXCEPT ![e] = @ + 1]
        /\ Put("doc", [x \in S |-> scan'[x]], inPlace)
        /\ lost' = (lost \/ S # Explorers)

\* It truncates the file to write it anew.
Tear ==
    /\ file.kind # "missing"
    /\ Put("torn", NoCursors, TRUE)
    /\ UNCHANGED <<scan, lost>>

\* Another format, a runaway file, no file.
Spoil ==
    /\ \E kind \in {"other", "huge", "missing"}, inPlace \in BOOLEAN :
          /\ inPlace => kind # "missing" /\ file.kind # "missing"
          /\ Put(kind, NoCursors, inPlace)
    /\ UNCHANGED <<scan, lost>>

Publisher == Save \/ Tear \/ Spoil

-----------------------------------------------------------------------------
(* The tick.                                                               *)

Begin ==
    /\ BeginTick
    /\ step' = "stat"
    /\ result' = NoError
    /\ versions' = {file}
    /\ UNCHANGED <<publisherVars, held, series>>

Fail(kind) ==
    /\ result' = kind
    /\ step' = "end"

\* The size that is checked is that of the file stat saw.
Stat ==
    /\ phase = "busy" /\ step = "stat"
    /\ \/ /\ file.kind = "missing"
          /\ Fail("io")
          /\ UNCHANGED mtime
       \/ /\ file.kind = "huge"
          /\ mtime' = Unix(file.at)
          /\ Fail("io")
       \/ /\ file.kind \notin {"missing", "huge"}
          /\ mtime' = Unix(file.at)
          /\ step' = "open"
          /\ UNCHANGED result
    /\ UNCHANGED <<tickerVars, publisherVars, held, lastBlock, explorerCursor, versions>>

Open ==
    /\ phase = "busy" /\ step = "open"
    /\ \/ /\ file.kind = "missing"
          /\ Fail("io")
          /\ UNCHANGED <<held, shared>>
       \/ /\ file.kind # "missing"
          /\ held' = file /\ shared' = TRUE
          /\ step' = "decode"
          /\ UNCHANGED result
    /\ UNCHANGED <<tickerVars, file, scan, lost, series, versions>>

\* Mutant of Decode: a document without cursors is one with the block 0.
DecodeZero ==
    /\ phase = "busy" /\ step = "decode"
    /\ \/ /\ held.kind \notin {"doc", "other"}
          /\ Fail("parse")
          /\ UNCHANGED series
       \/ /\ held.kind \in {"doc", "other"}
          /\ lastBlock' = Max({0} \cup {held.cursors[e] : e \in DOMAIN held.cursors})
          /\ step' = "end"
          /\ UNCHANGED <<mtime, explorerCursor, result>>
    /\ shared' = FALSE
    /\ UNCHANGED <<tickerVars, file, scan, lost, held, versions>>

\* Mutant of Decode: the cursors are added up.
DecodeSum ==
    /\ phase = "busy" /\ step = "decode"
    /\ held.kind = "doc"
    /\ explorerCursor' = [e \in DOMAIN explorerCursor \cup DOMAIN held.cursors |->
          IF e \in DOMAIN held.cursors THEN held.cursors[e] ELSE explorerCursor[e]]
    /\ lastBlock' = MapThenSumSet(LAMBDA e : held.cursors[e], DOMAIN held.cursors)
    /\ step' = "end"
    /\ shared' = FALSE
    /\ UNCHANGED <<tickerVars, file, scan, lost, held, versions, mtime, result>>

\* Mutant of Decode: the block is the highest of the vector, which keeps the
\* explorers that have gone from the file.
DecodeVector ==
    /\ phase = "busy" /\ step = "decode"
    /\ held.kind = "doc"
    /\ explorerCursor' = [e \in DOMAIN explorerCursor \cup DOMAIN held.cursors |->
          IF e \in DOMAIN held.cursors THEN held.cursors[e] ELSE explorerCursor[e]]
    /\ lastBlock' = Max({explorerCursor'[e] : e \in DOMAIN explorerCursor'})
    /\ step' = "end"
    /\ shared' = FALSE
    /\ UNCHANGED <<tickerVars, file, scan, lost, held, versions, mtime, result>>

\* What is not a whole document of the expected shape is a parse error; a
\* file grown huge since stat is cut off by the LimitReader.
Decode ==
    /\ phase = "busy" /\ step = "decode"
    /\ \/ /\ held.kind # "doc"
          /\ Fail("parse")
          /\ UNCHANGED series
       \/ /\ held.kind = "doc"
          /\ explorerCursor' = [e \in DOMAIN explorerCursor \cup DOMAIN held.cursors |->
                IF e \in DOMAIN held.cursors THEN held.cursors[e] ELSE explorerCursor[e]]
          /\ lastBlock' = Max({held.cursors[e] : e \in DOMAIN held.cursors})
          /\ step' = "end"
          /\ UNCHANGED <<mtime, result>>
    /\ shared' = FALSE
    /\ UNCHANGED <<tickerVars, file, scan, lost, held, versions>>

End ==
    /\ step = "end"
    /\ EndTick(result)
    /\ versions' = {}
    /\ UNCHANGED <<publisherVars, held, series, tickVars>>

Stop ==
    /\ Return \/ CancelTicker
    /\ UNCHANGED <<publisherVars, held, series, tickVars, versions>>

Tick == Stat \/ Open \/ Decode \/ End

Next == Publisher \/ Begin \/ Tick \/ Stop

Spec == Init /\ [][Next]_vars

-----------------------------------------------------------------------------
(***************************************************************************)
(* As long as the publisher lists every explorer, last_scanned_block never *)
(* goes back, whatever the file goes through while it is read: a gauge     *)
(* that fell would count as progress to VpubBridgeStateStuck, which fires  *)
(* on delta == 0.                                                          *)
(***************************************************************************)
NeverGoesBack == [][lost \/ lastBlock' >= lastBlock]_vars

\* The mtime is that of one version of the file, and the block and the cursors
\* are all of another, the same or a later one.
Fresh ==
    \E f, g \in versions :
        /\ f.at <= g.at
        /\ mtime = Unix(f.at)
        /\ g.kind = "doc"
        /\ lastBlock = Max({g.cursors[e] : e \in DOMAIN g.cursors})
        /\ \A e \in DOMAIN g.cursors :
              e \in DOMAIN explorerCursor /\ explorerCursor[e] = g.cursors[e]

(***************************************************************************)
(* A tick that returns no error has reported what was in the file during   *)
(* this tick, explorers lost or not: the block and the cursors of one      *)
(* version, never a mixture of two, and an mtime that is not from a later  *)
(* one.  Stat, open and decode look at the path one after the other.       *)
(***************************************************************************)
TickIsFresh == [][phase = "busy" /\ phase' = "select" /\ errors' = errors => Fresh]_vars

-----------------------------------------------------------------------------
(* What both rest on.  Below(f, g): each cursor of f is in g, not lower.   *)

Below(f, g) == \A e \in DOMAIN f : e \in DOMAIN g /\ f[e] <= g[e]

\* Only a document has cursors, and it has at least one.
OnlyDocsHaveCursors ==
    \A f \in {file, held} : f.kind = "doc" <=> DOMAIN f.cursors # {}

\* A document is what the publisher had scanned when it was saved.
Reached(block, f) == block = 0 \/ \E e \in DOMAIN f : block <= f[e]

CursorsGrow ==
    ~lost =>
        /\ file.kind = "doc" => file.cursors = scan
        /\ held.kind = "doc" => DOMAIN held.cursors = Explorers /\ Below(held.cursors, scan)
        /\ Reached(lastBlock, scan)
        /\ step = "decode" /\ held.kind = "doc" => Reached(lastBlock, held.cursors)

\* mtime was read from a version not later than t.
StatOf(t) == \E f \in versions : f.at <= t /\ mtime = Unix(f.at)

\* What the calls made so far have left of the tick.
TimesInOrder ==
    /\ shared => held = file
    /\ step # "end" => result = NoError
    /\ phase = "busy" =>
          /\ file \in versions
          /\ step = "open" => StatOf(file.at)
          /\ step = "decode" => held \in versions /\ StatOf(held.at)

(***************************************************************************)
(* A document has what was scanned when it was saved, cursors only grow    *)
(* while no explorer is lost, and what a tick has read so far is of        *)
(* versions of this tick, in their order: from this NeverGoesBack and      *)
(* TickIsFresh follow.                                                     *)
(***************************************************************************)
IInv ==
    /\ TypeOK
    /\ OnlyDocsHaveCursors
    /\ CursorsGrow
    /\ TimesInOrder
    /\ phase = "busy" /\ step = "end" /\ result = NoError => Fresh
=============================================================================
