--------------------------- MODULE BridgeStateProofs ---------------------------
(***************************************************************************)
(* What holds of the bridge state collector for any set of explorers, any  *)
(* blocks and any number of saves: last_scanned_block never goes back, and *)
(* a tick without an error has reported one version the file had during it.*)
(***************************************************************************)
EXTENDS BridgeState, TLAPS, BoundedSets

USE RunTickerAssumption, BridgeStateAssumption
    DEF RunTickerAssumption, BridgeStateAssumption, Kinds, NoError, Blocks

-----------------------------------------------------------------------------
(* Cursors and their maximum.                                              *)

\* Cursors without the union.
LEMMA CursorsAre ==
    ASSUME NEW f
    PROVE  f \in Cursors <=> (DOMAIN f \in SUBSET Explorers /\ f \in [DOMAIN f -> Blocks])
<1>1. ASSUME f \in Cursors PROVE DOMAIN f \in SUBSET Explorers /\ f \in [DOMAIN f -> Blocks]
  <2>1. PICK S \in SUBSET Explorers : f \in [S -> Blocks]
    BY <1>1 DEF Cursors
  <2>2. DOMAIN f = S
    BY <2>1
  <2> QED
    BY <2>1, <2>2
<1>2. ASSUME DOMAIN f \in SUBSET Explorers, f \in [DOMAIN f -> Blocks] PROVE f \in Cursors
  BY <1>2 DEF Cursors
<1> QED
  BY <1>1, <1>2

\* A document without explorers is one.
LEMMA NoneIsCursors == NoCursors \in Cursors /\ DOMAIN NoCursors = {}
<1>1. DOMAIN NoCursors = {} /\ NoCursors \in [{} -> Blocks]
  BY DEF NoCursors
<1> QED
  BY <1>1, CursorsAre

\* The block of a document is that of one of its cursors, and none is higher.
LEMMA MaxOfCursors ==
    ASSUME NEW f \in Cursors, DOMAIN f # {}
    PROVE  LET m == Max({f[e] : e \in DOMAIN f})
           IN  /\ m \in Blocks
               /\ \E e \in DOMAIN f : m = f[e]
               /\ \A e \in DOMAIN f : f[e] <= m
<1> DEFINE S == {f[e] : e \in DOMAIN f}
<1>1. f \in [DOMAIN f -> Blocks]
  BY CursorsAre
<1>2. S \in SUBSET (0 .. MaxBlock) /\ S # {}
  BY <1>1
<1>3. PICK x \in S : \A y \in S : y <= x
  BY <1>2, LargestOf
<1>4. \A y \in S : x >= y
  BY <1>2, <1>3
<1>5. Max(S) \in S /\ \A y \in S : Max(S) >= y
  <2> HIDE DEF S
  <2> QED
    BY <1>4 DEF Max
<1>6. \A y \in S : y <= Max(S)
  <2> HIDE DEF S
  <2> QED
    BY <1>2, <1>5
<1>7. \E e \in DOMAIN f : Max(S) = f[e]
  BY <1>5
<1>8. Max(S) \in Blocks
  BY <1>2, <1>5
<1> QED
  BY <1>6, <1>7, <1>8

-----------------------------------------------------------------------------
(* Types, in the parts one step changes.                                   *)

FileTypeOK ==
    /\ file \in File /\ held \in File
    /\ scan \in [Explorers -> Blocks]
FlagTypeOK == shared \in BOOLEAN /\ lost \in BOOLEAN
TickTypeOK ==
    /\ step \in {"stat", "open", "decode", "end"}
    /\ result \in Kinds \cup {NoError}
    /\ lastBlock \in Blocks
    /\ mtime \in Nat
    /\ explorerCursor \in Cursors
VersionsTypeOK == versions \subseteq File

\* The type invariant, by whose variables its parts are of.
LEMMA TypeParts ==
    TypeOK <=> TickerTypeOK /\ FileTypeOK /\ FlagTypeOK /\ TickTypeOK /\ VersionsTypeOK
  BY Zenon DEF TypeOK, FileTypeOK, FlagTypeOK, TickTypeOK, VersionsTypeOK

\* Seconds are numbers.
LEMMA UnixType == \A t \in 0 .. MaxWrites : Unix(t) \in Nat
  BY DEF Unix

\* A file is what its fields are.
LEMMA FileIs ==
    ASSUME NEW kind \in Contents, NEW cursors \in Cursors, NEW t \in 0 .. MaxWrites
    PROVE  [kind |-> kind, cursors |-> cursors, at |-> t] \in File
  BY DEF File

\* What a file is made of.
LEMMA FileFields ==
    ASSUME NEW f \in File
    PROVE  /\ f.kind \in Contents /\ f.cursors \in Cursors /\ f.at \in 0 .. MaxWrites
           /\ DOMAIN f.cursors \in SUBSET Explorers
           /\ f.cursors \in [DOMAIN f.cursors -> Blocks]
  BY CursorsAre DEF File

\* What a save puts into the file.
LEMMA PutTypes ==
    ASSUME TypeOK, NEW kind \in Contents, NEW cursors \in Cursors,
           NEW inPlace \in BOOLEAN, Put(kind, cursors, inPlace)
    PROVE  /\ file' \in File /\ held' \in File
           /\ shared' \in BOOLEAN
           /\ TickerTypeOK' /\ TickTypeOK' /\ VersionsTypeOK'
<1>1. file' \in File
  <2>1. file.at + 1 \in 0 .. MaxWrites
    BY FileFields DEF TypeOK, Put
  <2> QED
    BY <2>1, FileIs DEF Put
<1>2. shared' \in BOOLEAN
  <2>1. shared' = (shared /\ inPlace)
    BY Zenon DEF Put
  <2> QED
    BY <2>1, Zenon
<1>3. held' = file' \/ held' = held
  BY Zenon DEF Put
<1>4. held' \in File
  BY <1>1, <1>3, Zenon DEF TypeOK
<1>5. UNCHANGED <<tickerVars, series, tickVars>>
  BY Zenon DEF Put
<1>6. TickerTypeOK'
  BY <1>5, Zenon DEF TypeOK, TickerTypeOK, tickerVars
<1>7. TickTypeOK'
  BY <1>5, Zenon DEF TypeOK, TickTypeOK, series, tickVars
<1>8. VersionsTypeOK'
  <2>1. versions' \subseteq versions \cup {file'}
    BY DEF Put
  <2> QED
    BY <1>1, <2>1 DEF TypeOK, VersionsTypeOK
<1> QED
  BY <1>1, <1>2, <1>4, <1>6, <1>7, <1>8

\* What the publisher does is: a scan goes up and the document is what has been
\* scanned by those it lists, or it is left alone and there is no document.
Saves(S, inPlace) ==
    /\ S # {}
    /\ S \in SUBSET Explorers
    /\ scan' \in [Explorers -> Blocks]
    /\ \A e \in Explorers : scan[e] <= scan'[e]
    /\ [x \in S |-> scan'[x]] \in Cursors
    /\ Put("doc", [x \in S |-> scan'[x]], inPlace)
    /\ lost' = (lost \/ S # Explorers)
Spoils(kind, inPlace) ==
    /\ kind # "doc"
    /\ Put(kind, NoCursors, inPlace)
    /\ UNCHANGED <<scan, lost>>

\* The publisher saves a document, or writes something else.
LEMMA PublisherIs ==
    ASSUME TypeOK, Publisher
    PROVE  \E inPlace \in BOOLEAN :
              \/ \E S \in SUBSET Explorers : Saves(S, inPlace)
              \/ \E kind \in Contents : Spoils(kind, inPlace)
<1>1. CASE Save
  <2>1. PICK e \in Explorers, S \in (SUBSET Explorers) \ {{}}, inPlace \in BOOLEAN :
           /\ scan[e] < MaxBlock
           /\ scan' = [scan EXCEPT ![e] = @ + 1]
           /\ Put("doc", [x \in S |-> scan'[x]], inPlace)
           /\ lost' = (lost \/ S # Explorers)
    BY <1>1, Zenon DEF Save
  <2>2. scan' \in [Explorers -> Blocks] /\ \A x \in Explorers : scan[x] <= scan'[x]
    BY <2>1 DEF TypeOK
  <2>3. S \in SUBSET Explorers /\ S # {}
    OBVIOUS
  <2>4. [x \in S |-> scan'[x]] \in Cursors
    BY <2>2, <2>3 DEF Cursors
  <2>5. Saves(S, inPlace)
    BY <2>1, <2>2, <2>3, <2>4, Zenon DEF Saves
  <2> QED
    BY <2>3, <2>5, Zenon
<1>2. CASE Tear
  <2>1. Spoils("torn", TRUE)
    BY <1>2, "torn" # "doc", Zenon DEF Tear, Spoils
  <2> QED
    BY <2>1, "torn" \in Contents, Zenon DEF Contents
<1>3. CASE Spoil
  <2>1. PICK kind \in {"other", "huge", "missing"}, inPlace \in BOOLEAN :
           Put(kind, NoCursors, inPlace) /\ UNCHANGED <<scan, lost>>
    BY <1>3, Zenon DEF Spoil
  <2>2. kind # "doc" /\ kind \in Contents
    BY DEF Contents
  <2> QED
    BY <2>1, <2>2, Zenon DEF Spoils
<1> QED
  BY <1>1, <1>2, <1>3, Zenon DEF Publisher

\* The vector takes over the cursors of the document.
LEMMA VectorTypes ==
    ASSUME NEW old \in Cursors, NEW f \in Cursors
    PROVE  [e \in DOMAIN old \cup DOMAIN f |-> IF e \in DOMAIN f THEN f[e] ELSE old[e]] \in Cursors
<1> DEFINE g == [e \in DOMAIN old \cup DOMAIN f |-> IF e \in DOMAIN f THEN f[e] ELSE old[e]]
<1>1. /\ DOMAIN old \in SUBSET Explorers /\ old \in [DOMAIN old -> Blocks]
      /\ DOMAIN f \in SUBSET Explorers /\ f \in [DOMAIN f -> Blocks]
  BY CursorsAre
<1>2. DOMAIN g = DOMAIN old \cup DOMAIN f
  OBVIOUS
<1>3. g \in [DOMAIN old \cup DOMAIN f -> Blocks]
  BY <1>1
<1>4. DOMAIN g \in SUBSET Explorers /\ g \in [DOMAIN g -> Blocks]
  BY <1>1, <1>2, <1>3
<1> HIDE DEF g
<1>5. g \in Cursors
  BY <1>4, CursorsAre
<1> QED
  BY <1>5 DEF g

\* The steps of the ticker loop keep its types.
LEMMA TickerTypes ==
    ASSUME TickerTypeOK, BeginTick \/ (\E k \in Kinds \cup {NoError} : EndTick(k)) \/ Return \/ CancelTicker
    PROVE  TickerTypeOK'
<1> USE DEF TickerTypeOK
<1>1. CASE BeginTick
  BY <1>1 DEF BeginTick
<1>2. CASE \E k \in Kinds \cup {NoError} : EndTick(k)
  <2>1. errors' \in [Kinds -> Nat]
    BY <1>2 DEF EndTick
  <2> QED
    BY <1>2, <2>1 DEF EndTick
<1>3. CASE Return \/ CancelTicker
  BY <1>3 DEF Return, CancelTicker
<1> QED
  BY <1>1, <1>2, <1>3

\* What decoding a document does to the block.
LEMMA DecodeMax ==
    ASSUME TypeOK, OnlyDocsHaveCursors, held.kind = "doc",
           lastBlock' = Max({held.cursors[e] : e \in DOMAIN held.cursors})
    PROVE  /\ lastBlock' \in Blocks
           /\ \E e \in DOMAIN held.cursors : lastBlock' = held.cursors[e]
           /\ \A e \in DOMAIN held.cursors : held.cursors[e] <= lastBlock'
<1>1. held.cursors \in Cursors
  BY FileFields DEF TypeOK
<1>2. DOMAIN held.cursors # {}
  BY Zenon DEF OnlyDocsHaveCursors
<1> QED
  BY <1>1, <1>2, MaxOfCursors

\* No step breaks the types: that the block of a document is one needs that it
\* has a cursor.
LEMMA NextTypes == IInv /\ [Next]_vars => TypeOK'
<1> SUFFICES ASSUME IInv, [Next]_vars PROVE TypeOK'
  OBVIOUS
<1>0. /\ TypeOK /\ OnlyDocsHaveCursors
      /\ TickerTypeOK /\ FileTypeOK /\ FlagTypeOK /\ TickTypeOK /\ VersionsTypeOK
  BY TypeParts DEF IInv
<1>1. CASE Publisher
  <2>1. CASE \E inPlace \in BOOLEAN, S \in SUBSET Explorers : Saves(S, inPlace)
    <3>1. PICK inPlace \in BOOLEAN, S \in SUBSET Explorers : Saves(S, inPlace)
      BY <2>1
    <3>2. /\ scan' \in [Explorers -> Blocks]
          /\ [x \in S |-> scan'[x]] \in Cursors
          /\ Put("doc", [x \in S |-> scan'[x]], inPlace)
          /\ lost' = (lost \/ S # Explorers)
      BY <3>1, Zenon DEF Saves
    <3>3. lost' \in BOOLEAN
      BY <3>2, Zenon
    <3>4. "doc" \in Contents
      BY DEF Contents
    <3>5. /\ file' \in File /\ held' \in File /\ shared' \in BOOLEAN
          /\ TickerTypeOK' /\ TickTypeOK' /\ VersionsTypeOK'
      BY <1>0, <3>2, <3>4, PutTypes
    <3> QED
      BY <3>2, <3>3, <3>5, TypeParts, Zenon DEF TypeOK, TickTypeOK, VersionsTypeOK
  <2>2. CASE \E inPlace \in BOOLEAN, kind \in Contents : Spoils(kind, inPlace)
    <3>1. PICK inPlace \in BOOLEAN, kind \in Contents : Spoils(kind, inPlace)
      BY <2>2
    <3>2. Put(kind, NoCursors, inPlace) /\ UNCHANGED <<scan, lost>>
      BY <3>1, Zenon DEF Spoils
    <3>3. /\ file' \in File /\ held' \in File /\ shared' \in BOOLEAN
          /\ TickerTypeOK' /\ TickTypeOK' /\ VersionsTypeOK'
      BY <1>0, <3>2, NoneIsCursors, PutTypes
    <3>4. lost' \in BOOLEAN /\ scan' \in [Explorers -> Blocks]
      BY <1>0, <3>2, Zenon DEF TypeOK
    <3> QED
      BY <3>3, <3>4, Zenon DEF TypeOK, TickTypeOK, VersionsTypeOK
  <2> QED
    BY <1>0, <1>1, <2>1, <2>2, PublisherIs, Zenon
<1>2. CASE Begin
  <2>1. UNCHANGED <<publisherVars, held, series>>
    BY <1>2, Zenon DEF Begin
  <2>2. FileTypeOK' /\ FlagTypeOK'
    BY <1>0, <2>1, Zenon DEF publisherVars, FileTypeOK, FlagTypeOK
  <2>3. TickTypeOK'
    BY <1>0, <1>2 DEF Begin, series, FileTypeOK, TickTypeOK
  <2>4. TickerTypeOK'
    BY <1>0, <1>2, TickerTypes, Zenon DEF Begin
  <2>5. VersionsTypeOK'
    BY <1>0, <1>2 DEF Begin, FileTypeOK, VersionsTypeOK
  <2> QED
    BY <2>2, <2>3, <2>4, <2>5, TypeParts, Zenon DEF TypeOK, FileTypeOK, FlagTypeOK, TickTypeOK, VersionsTypeOK
<1>3. CASE Stat
  <2>1. UNCHANGED <<tickerVars, publisherVars, held, versions>>
    BY <1>3, Zenon DEF Stat
  <2>2. FileTypeOK' /\ FlagTypeOK' /\ TickerTypeOK' /\ VersionsTypeOK'
    BY <1>0, <2>1, Zenon
       DEF publisherVars, tickerVars, FileTypeOK, FlagTypeOK, TickerTypeOK, VersionsTypeOK
  <2>3. Unix(file.at) \in Nat
    BY <1>0, FileFields, UnixType DEF FileTypeOK
  <2>4. TickTypeOK'
    BY <1>0, <1>3, <2>3 DEF Stat, Fail, TickTypeOK
  <2> QED
    BY <2>2, <2>4, Zenon DEF TypeOK, FileTypeOK, FlagTypeOK, TickTypeOK, VersionsTypeOK
<1>4. CASE Open
  <2>1. UNCHANGED <<tickerVars, file, scan, lost, series, versions>>
    BY <1>4, Zenon DEF Open
  <2>2. TickerTypeOK' /\ VersionsTypeOK'
    BY <1>0, <2>1, Zenon DEF tickerVars, TickerTypeOK, VersionsTypeOK
  <2>3. held' = held \/ held' = file
    BY <1>4, Zenon DEF Open
  <2>4. FileTypeOK'
    BY <1>0, <2>1, <2>3, Zenon DEF FileTypeOK
  <2>5. shared' = shared \/ shared' = TRUE
    BY <1>4, Zenon DEF Open
  <2>6. FlagTypeOK'
    BY <1>0, <2>1, <2>5, Zenon DEF FlagTypeOK
  <2>7. TickTypeOK'
    BY <1>0, <1>4 DEF Open, Fail, TickTypeOK, series
  <2> QED
    BY <2>2, <2>4, <2>6, <2>7, Zenon DEF TypeOK, FileTypeOK, FlagTypeOK, TickTypeOK, VersionsTypeOK
<1>5. CASE Decode
  <2>1. UNCHANGED <<tickerVars, file, scan, lost, held, versions>> /\ shared' = FALSE
    BY <1>5, Zenon DEF Decode
  <2>2. TickerTypeOK' /\ FileTypeOK' /\ FlagTypeOK' /\ VersionsTypeOK'
    BY <1>0, <2>1, Zenon DEF tickerVars, TickerTypeOK, FileTypeOK, FlagTypeOK, VersionsTypeOK
  <2>3. held.cursors \in Cursors
    BY <1>0, FileFields DEF FileTypeOK
  <2>4. CASE Fail("parse") /\ UNCHANGED series
    <3>1. TickTypeOK'
      BY <1>0, <2>1, <2>4 DEF Fail, series, TickTypeOK
    <3> QED
      BY <2>2, <3>1, Zenon DEF TypeOK, FileTypeOK, FlagTypeOK, TickTypeOK, VersionsTypeOK
  <2>5. CASE /\ held.kind = "doc"
             /\ explorerCursor' = [e \in DOMAIN explorerCursor \cup DOMAIN held.cursors |->
                  IF e \in DOMAIN held.cursors THEN held.cursors[e] ELSE explorerCursor[e]]
             /\ lastBlock' = Max({held.cursors[e] : e \in DOMAIN held.cursors})
             /\ step' = "end"
             /\ UNCHANGED <<mtime, result>>
    <3>1. explorerCursor' \in Cursors
      BY <1>0, <2>3, <2>5, VectorTypes, Zenon DEF TickTypeOK
    <3>2. lastBlock' \in Blocks
      BY <1>0, <2>5, DecodeMax
    <3>3. TickTypeOK'
      BY <1>0, <2>1, <2>5, <3>1, <3>2 DEF TickTypeOK
    <3> QED
      BY <2>2, <3>3, Zenon DEF TypeOK, FileTypeOK, FlagTypeOK, TickTypeOK, VersionsTypeOK
  <2> QED
    BY <1>5, <2>4, <2>5, Zenon DEF Decode
<1>6. CASE End \/ Stop
  <2>1. UNCHANGED <<publisherVars, held, series, tickVars>>
    BY <1>6, Zenon DEF End, Stop
  <2>5. versions' = versions \/ versions' = {}
    BY <1>6, Zenon DEF End, Stop
  <2>6. VersionsTypeOK'
    BY <1>0, <2>5 DEF VersionsTypeOK
  <2>2. FileTypeOK' /\ FlagTypeOK' /\ TickTypeOK'
    BY <1>0, <2>1, Zenon
       DEF publisherVars, series, tickVars, FileTypeOK, FlagTypeOK, TickTypeOK
  <2>3. result \in Kinds \cup {NoError}
    BY <1>0 DEF TickTypeOK
  <2>4. TickerTypeOK'
    BY <1>0, <1>6, <2>3, TickerTypes, Zenon DEF End, Stop
  <2> QED
    BY <2>2, <2>4, <2>6, Zenon DEF TypeOK, FileTypeOK, FlagTypeOK, TickTypeOK, VersionsTypeOK
<1>7. CASE UNCHANGED vars
  BY <1>0, <1>7, Zenon
     DEF vars, publisherVars, tickerVars, series, tickVars, TypeOK, TickerTypeOK
<1> QED
  BY <1>1, <1>2, <1>3, <1>4, <1>5, <1>6, <1>7, Zenon DEF Next, Tick

-----------------------------------------------------------------------------
(* The inductive invariant.                                                *)

TickDone == phase = "busy" /\ step = "end" /\ result = NoError => Fresh

\* Nothing is scanned, and nothing reported.
LEMMA InitInv == Init => IInv
<1> SUFFICES ASSUME Init PROVE IInv
  OBVIOUS
<1>1. Missing(0) \in File /\ Missing(0).cursors = NoCursors
  BY NoneIsCursors, FileIs DEF Missing, Contents
<1>2. FileTypeOK /\ TickTypeOK /\ VersionsTypeOK
  BY <1>1, NoneIsCursors DEF Init, FileTypeOK, TickTypeOK, VersionsTypeOK
<1>3. FlagTypeOK
  BY Zenon DEF Init, FlagTypeOK
<1>4. TickerTypeOK
  <2>1. ticks \in 0 .. MaxTicks
    BY DEF Init, TickerInit
  <2>2. errors \in [Kinds -> Nat]
    BY DEF Init, TickerInit
  <2>3. phase \in {"start", "busy", "select", "returned"} /\ cancelled \in BOOLEAN
    BY Zenon DEF Init, TickerInit
  <2> QED
    BY <2>1, <2>2, <2>3 DEF TickerTypeOK
<1>5. OnlyDocsHaveCursors
  BY NoneIsCursors DEF Init, OnlyDocsHaveCursors, Missing
<1>6. CursorsGrow
  BY NoneIsCursors DEF Init, CursorsGrow, Missing, Below, Reached
<1>7. TimesInOrder
  BY DEF Init, TickerInit, TimesInOrder
<1>8. TickDone
  BY DEF Init, TickerInit, TickDone
<1> QED
  BY <1>2, <1>3, <1>4, <1>5, <1>6, <1>7, <1>8, TypeParts, Zenon DEF IInv, TickDone

\* A document has what was scanned; whatever else is put has no cursors. The
\* clock goes on.
LEMMA PutIs ==
    ASSUME TypeOK, NEW kind, NEW cursors, NEW inPlace, Put(kind, cursors, inPlace)
    PROVE  /\ file'.kind = kind /\ file'.cursors = cursors /\ file'.at = file.at + 1
           /\ held' = file' \/ held' = held
           /\ held' # held => shared
           /\ shared' => shared /\ held' = file'
           /\ versions \subseteq versions'
           /\ phase = "busy" => file' \in versions'
           /\ UNCHANGED <<tickerVars, series, tickVars>>
<1>1. file'.kind = kind /\ file'.cursors = cursors /\ file'.at = file.at + 1
  BY DEF Put
<1>2. versions \subseteq versions' /\ (phase = "busy" => file' \in versions')
  BY DEF Put
<1> QED
  BY <1>1, <1>2, Zenon DEF Put

\* The version mtime was read from stays one of the tick.
LEMMA StatOfKept ==
    ASSUME TypeOK, NEW t \in Nat, NEW u \in Nat, t <= u, StatOf(t),
           versions \subseteq versions', mtime' = mtime
    PROVE  \E f \in versions' : f.at <= u /\ mtime' = Unix(f.at)
<1>1. PICK f \in versions : f.at <= t /\ mtime = Unix(f.at)
  BY Zenon DEF StatOf
<1>2. f \in versions' /\ mtime' = Unix(f.at)
  BY <1>1, Zenon
<1>3. f.at \in Nat
  BY <1>1, FileFields DEF TypeOK
<1>4. f.at <= u
  BY <1>1, <1>3
<1> QED
  BY <1>2, <1>4, Zenon

\* What was of a version of the tick stays so.
LEMMA FreshKept ==
    ASSUME Fresh, versions \subseteq versions', UNCHANGED series
    PROVE  Fresh'
<1>1. UNCHANGED <<mtime, lastBlock, explorerCursor>>
  BY Zenon DEF series
<1> QED
  BY <1>1, Zenon DEF Fresh

\* What the publisher does keeps what is not of the collector alone.
LEMMA PublisherInv == IInv /\ Publisher => OnlyDocsHaveCursors' /\ CursorsGrow' /\ TimesInOrder' /\ TickDone'
<1> SUFFICES ASSUME IInv, Publisher
             PROVE  OnlyDocsHaveCursors' /\ CursorsGrow' /\ TimesInOrder' /\ TickDone'
  OBVIOUS
<1>0. TypeOK /\ TypeOK' /\ OnlyDocsHaveCursors /\ CursorsGrow /\ TimesInOrder /\ TickDone
  BY NextTypes, Zenon DEF IInv, TickDone, Next
<1>1. PICK kind, cursors, inPlace :
        /\ Put(kind, cursors, inPlace)
        /\ kind = "doc" <=> DOMAIN cursors # {}
        /\ lost => lost'
        /\ ~lost' /\ kind = "doc" => cursors = scan'
        /\ \A e \in Explorers : scan[e] <= scan'[e]
  <2>1. PICK b \in BOOLEAN :
          \/ \E S \in SUBSET Explorers : Saves(S, b)
          \/ \E kind \in Contents : Spoils(kind, b)
    BY <1>0, PublisherIs
  <2>2. CASE \E S \in SUBSET Explorers : Saves(S, b)
    <3>1. PICK S \in SUBSET Explorers : Saves(S, b)
      BY <2>2
    <3> DEFINE c == [x \in S |-> scan'[x]]
    <3>2. DOMAIN c # {}
      BY <3>1 DEF Saves
    <3>3. ~lost' => S = Explorers /\ ~lost
      BY <3>1, Zenon DEF Saves
    <3>4. ~lost' => c = scan'
      BY <3>1, <3>3 DEF Saves
    <3>5. Put("doc", c, b) /\ \A e \in Explorers : scan[e] <= scan'[e]
      BY <3>1, Zenon DEF Saves
    <3> HIDE DEF c
    <3> QED
      BY <3>2, <3>3, <3>4, <3>5, Zenon
  <2>3. CASE \E kind \in Contents : Spoils(kind, b)
    <3>1. PICK kind \in Contents : Spoils(kind, b)
      BY <2>3
    <3>2. kind # "doc" /\ Put(kind, NoCursors, b) /\ UNCHANGED <<scan, lost>>
      BY <3>1, Zenon DEF Spoils
    <3>3. \A e \in Explorers : scan[e] <= scan'[e]
      BY <1>0, <3>2 DEF TypeOK
    <3> QED
      BY <3>2, <3>3, NoneIsCursors, Zenon
  <2> QED
    BY <2>1, <2>2, <2>3
<1>2. /\ file'.kind = kind /\ file'.cursors = cursors /\ file'.at = file.at + 1
      /\ held' = file' \/ held' = held
      /\ held' # held => shared
      /\ shared' => shared /\ held' = file'
      /\ versions \subseteq versions'
      /\ phase = "busy" => file' \in versions'
      /\ UNCHANGED <<tickerVars, series, tickVars>>
  BY <1>0, <1>1, PutIs
<1>3. OnlyDocsHaveCursors'
  BY <1>0, <1>1, <1>2, Zenon DEF OnlyDocsHaveCursors, tickVars
<1>4. CursorsGrow'
  <2> SUFFICES ASSUME ~lost' PROVE CursorsGrow'
    BY Zenon DEF CursorsGrow
  <2>1. ~lost
    BY <1>1, Zenon
  <2>2. scan \in [Explorers -> Blocks] /\ scan' \in [Explorers -> Blocks]
    BY <1>0 DEF TypeOK
  <2>3. kind = "doc" => cursors = scan'
    BY <1>1, Zenon
  <2>4. ASSUME NEW f, DOMAIN f \subseteq Explorers, f \in [DOMAIN f -> Blocks], Below(f, scan)
        PROVE  Below(f, scan')
    BY <1>1, <2>2, <2>4 DEF Below
  <2>5. lastBlock \in Nat /\ UNCHANGED <<lastBlock, step>>
    BY <1>0, <1>2 DEF TypeOK, series, tickVars
  <2>6. Reached(lastBlock', scan')
    BY <1>0, <1>1, <2>1, <2>2, <2>5 DEF CursorsGrow, Reached
  <2>8. file.kind' = "doc" => file.cursors' = scan'
    BY <1>2, <2>3
  <2>9. CASE held' = file'
    <3>1. held.kind' = "doc" => held.cursors' = scan'
      BY <2>8, <2>9
    <3>2. Below(scan', scan') /\ DOMAIN scan' = Explorers
      BY <2>2 DEF Below
    <3>3. held.kind' = "doc" => Reached(lastBlock', held.cursors')
      BY <2>6, <3>1
    <3> QED
      BY <2>6, <2>8, <3>1, <3>2, <3>3, Zenon DEF CursorsGrow
  <2>10. CASE held' = held
    <3>1. held.kind = "doc" => DOMAIN held.cursors = Explorers /\ Below(held.cursors, scan)
      BY <1>0, <2>1, Zenon DEF CursorsGrow
    <3>2. held \in File
      BY <1>0, Zenon DEF TypeOK
    <3>3. held.kind = "doc" => Below(held.cursors, scan')
      BY <2>4, <3>1, <3>2, FileFields
    <3>4. step = "decode" /\ held.kind = "doc" => Reached(lastBlock, held.cursors)
      BY <1>0, <2>1, Zenon DEF CursorsGrow
    <3>5. held.kind' = held.kind /\ held.cursors' = held.cursors
      BY <2>10
    <3>6. held.kind' = "doc" => DOMAIN held.cursors' = Explorers /\ Below(held.cursors', scan')
      BY <3>1, <3>3, <3>5
    <3>7. step' = "decode" /\ held.kind' = "doc" => Reached(lastBlock', held.cursors')
      BY <2>5, <3>4, <3>5
    <3> QED
      BY <2>6, <2>8, <3>6, <3>7, Zenon DEF CursorsGrow
  <2> QED
    BY <1>2, <2>9, <2>10
<1>5. /\ file.at \in Nat /\ held.at \in Nat /\ file.at' \in Nat /\ held.at' \in Nat
      /\ UNCHANGED <<phase, mtime, lastBlock, explorerCursor, step, result>>
      /\ held.at <= held.at' /\ file.at <= file.at'
      /\ phase = "busy" /\ step = "decode" => held' \in versions'
  <2>1. /\ file.at \in Nat /\ held.at \in Nat /\ file.at' \in Nat /\ held.at' \in Nat
    BY <1>0, FileFields DEF TypeOK
  <2>2. UNCHANGED <<phase, mtime, lastBlock, explorerCursor, step, result>>
    BY <1>2 DEF tickerVars, series, tickVars
  <2>3. held' # held => held = file /\ held' = file'
    BY <1>0, <1>2, Zenon DEF TimesInOrder
  <2>4. held.at <= held.at' /\ file.at <= file.at'
    BY <1>2, <2>1, <2>3
  <2>5. phase = "busy" /\ step = "decode" => held' \in versions'
    BY <1>0, <1>2, Zenon DEF TimesInOrder
  <2> QED
    BY <2>1, <2>2, <2>4, <2>5
<1>6. TimesInOrder'
  <2>1. shared' => held' = file'
    BY <1>2, Zenon
  <2>2. step' # "end" => result' = NoError
    BY <1>0, <1>5, Zenon DEF TimesInOrder
  <2>3. phase = "busy" /\ step = "open" => StatOf(file.at)'
    BY <1>0, <1>2, <1>5, StatOfKept, Zenon DEF TimesInOrder, StatOf
  <2>4. phase = "busy" /\ step = "decode" => StatOf(held.at)'
    BY <1>0, <1>2, <1>5, StatOfKept, Zenon DEF TimesInOrder, StatOf
  <2> QED
    BY <1>2, <1>5, <2>1, <2>2, <2>3, <2>4, Zenon DEF TimesInOrder
<1>7. TickDone'
  BY <1>0, <1>2, <1>5, FreshKept, Zenon DEF TickDone
<1> QED
  BY <1>3, <1>4, <1>6, <1>7

\* Begin, Stat and Open: each brings the times one step further, and Open the
\* cursors of the file.
LEMMA BeforeDecodeInv ==
    IInv /\ (Begin \/ Stat \/ Open) =>
        OnlyDocsHaveCursors' /\ CursorsGrow' /\ TimesInOrder' /\ TickDone'
<1> SUFFICES ASSUME IInv, Begin \/ Stat \/ Open
             PROVE  OnlyDocsHaveCursors' /\ CursorsGrow' /\ TimesInOrder' /\ TickDone'
  OBVIOUS
<1>0. TypeOK /\ OnlyDocsHaveCursors /\ CursorsGrow /\ TimesInOrder /\ TickDone
  BY Zenon DEF IInv, TickDone
<1>1. file.at \in Nat /\ scan \in [Explorers -> Blocks]
  BY <1>0, FileFields DEF TypeOK
<1>2. CASE Begin
  <2>1. /\ step' = "stat" /\ result' = NoError /\ versions' = {file}
        /\ UNCHANGED <<file, shared, scan, lost, held, lastBlock>>
    BY <1>2, Zenon DEF Begin, publisherVars, series
  <2>2. OnlyDocsHaveCursors'
    BY <1>0, <2>1, Zenon DEF OnlyDocsHaveCursors
  <2>4. CursorsGrow'
    BY <1>0, <2>1 DEF CursorsGrow
  <2>5. TimesInOrder' /\ TickDone'
    BY <1>0, <2>1 DEF TimesInOrder, TickDone
  <2> QED
    BY <2>2, <2>4, <2>5
<1>3. CASE Stat
  <2>1. /\ UNCHANGED <<file, shared, scan, lost, held, lastBlock, versions, phase>>
        /\ phase = "busy" /\ step = "stat"
    BY <1>3, Zenon DEF Stat, publisherVars, tickerVars
  <2>2. \/ step' = "end" /\ result' # NoError
        \/ step' = "open" /\ mtime' = Unix(file.at) /\ result' = result
    BY <1>3 DEF Stat, Fail
  <2>3. OnlyDocsHaveCursors'
    BY <1>0, <2>1, Zenon DEF OnlyDocsHaveCursors
  <2>4. CursorsGrow'
    BY <1>0, <2>1, <2>2 DEF CursorsGrow
  <2>5. file \in versions
    BY <1>0, <2>1, Zenon DEF TimesInOrder
  <2>6. mtime' = Unix(file.at) => StatOf(file.at)'
    BY <1>1, <2>1, <2>5 DEF StatOf
  <2>7. TimesInOrder' /\ TickDone'
    BY <1>0, <2>1, <2>2, <2>5, <2>6 DEF TimesInOrder, TickDone
  <2> QED
    BY <2>3, <2>4, <2>7
<1>4. CASE Open
  <2>1. /\ UNCHANGED <<file, scan, lost, lastBlock, versions, mtime, phase>>
        /\ phase = "busy" /\ step = "open"
    BY <1>4, Zenon DEF Open, series, tickerVars
  <2>2. \/ step' = "end" /\ result' # NoError /\ UNCHANGED <<held, shared>>
        \/ step' = "decode" /\ held' = file /\ shared' = TRUE /\ result' = result
    BY <1>4 DEF Open, Fail
  <2>3. OnlyDocsHaveCursors'
    BY <1>0, <2>1, <2>2, Zenon DEF OnlyDocsHaveCursors
  <2>4. CursorsGrow'
    <3>1. CASE step' = "end" /\ held' = held
      BY <1>0, <2>1, <3>1 DEF CursorsGrow
    <3>2. CASE held' = file
      <4> SUFFICES ASSUME ~lost PROVE CursorsGrow'
        BY <2>1, Zenon DEF CursorsGrow
      <4>1. /\ file.kind = "doc" => file.cursors = scan
            /\ Reached(lastBlock, scan)
        BY <1>0, Zenon DEF CursorsGrow
      <4>2. Below(scan, scan) /\ DOMAIN scan = Explorers
        BY <1>1 DEF Below
      <4> QED
        BY <2>1, <3>2, <4>1, <4>2 DEF CursorsGrow
    <3> QED
      BY <2>2, <3>1, <3>2
  <2>5. file \in versions /\ StatOf(file.at)
    BY <1>0, <2>1, Zenon DEF TimesInOrder
  <2>6. held' = file => StatOf(held.at)'
    BY <2>1, <2>5 DEF StatOf
  <2>7. TimesInOrder' /\ TickDone'
    BY <1>0, <2>1, <2>2, <2>5, <2>6 DEF TimesInOrder, TickDone
  <2> QED
    BY <2>3, <2>4, <2>7
<1> QED
  BY <1>2, <1>3, <1>4

\* Decode: the maximum of cursors that are all not lower than the block shown
\* so far, and that of the version that is open.
LEMMA DecodeInv ==
    IInv /\ Decode =>
        /\ OnlyDocsHaveCursors' /\ CursorsGrow' /\ TimesInOrder' /\ TickDone'
        /\ lost \/ lastBlock' >= lastBlock
<1> SUFFICES ASSUME IInv, Decode
             PROVE  /\ OnlyDocsHaveCursors' /\ CursorsGrow' /\ TimesInOrder' /\ TickDone'
                    /\ lost \/ lastBlock' >= lastBlock
  OBVIOUS
<1>0. TypeOK /\ OnlyDocsHaveCursors /\ CursorsGrow /\ TimesInOrder /\ TickDone
  BY Zenon DEF IInv, TickDone
<1>1. /\ UNCHANGED <<file, scan, lost, held, versions, mtime, phase>>
      /\ phase = "busy" /\ step = "decode" /\ step' = "end" /\ shared' = FALSE
  BY <1>0 DEF Decode, Fail, series, tickerVars
<1>2. OnlyDocsHaveCursors'
  BY <1>0, <1>1, Zenon DEF OnlyDocsHaveCursors
<1>3. /\ lastBlock \in Nat
      /\ scan \in [Explorers -> Blocks]
      /\ held.cursors \in [DOMAIN held.cursors -> Blocks]
  BY <1>0, FileFields DEF TypeOK
<1>4. TimesInOrder'
  BY <1>0, <1>1 DEF TimesInOrder
<1>5. CASE Fail("parse") /\ UNCHANGED series
  <2>1. lastBlock' = lastBlock /\ result' # NoError
    BY <1>5 DEF Fail, series
  <2>2. CursorsGrow'
    BY <1>0, <1>1, <2>1 DEF CursorsGrow
  <2> QED
    BY <1>2, <1>3, <1>4, <2>1, <2>2 DEF TickDone
<1>6. CASE /\ held.kind = "doc"
           /\ explorerCursor' = [e \in DOMAIN explorerCursor \cup DOMAIN held.cursors |->
                IF e \in DOMAIN held.cursors THEN held.cursors[e] ELSE explorerCursor[e]]
           /\ lastBlock' = Max({held.cursors[e] : e \in DOMAIN held.cursors})
           /\ step' = "end"
           /\ UNCHANGED <<mtime, result>>
  <2>1. /\ lastBlock' \in Nat
        /\ \E e \in DOMAIN held.cursors : lastBlock' = held.cursors[e]
        /\ \A e \in DOMAIN held.cursors : held.cursors[e] <= lastBlock'
    <3>1. /\ lastBlock' \in Blocks
          /\ \E e \in DOMAIN held.cursors : lastBlock' = held.cursors[e]
          /\ \A e \in DOMAIN held.cursors : held.cursors[e] <= lastBlock'
      <4>1. held.kind = "doc" /\ lastBlock' = Max({held.cursors[e] : e \in DOMAIN held.cursors})
        BY <1>6
      <4> QED
        BY <1>0, <4>1, DecodeMax
    <3> QED
      BY <3>1
  <2>2. ~lost => /\ DOMAIN held.cursors = Explorers
                 /\ Below(held.cursors, scan)
                 /\ Reached(lastBlock, held.cursors)
    BY <1>0, <1>1, <1>6, Zenon DEF CursorsGrow
  <2>3. lost \/ lastBlock' >= lastBlock
    BY <1>3, <2>1, <2>2 DEF Reached
  <2>4. ~lost => Reached(lastBlock', scan)
    <3> SUFFICES ASSUME ~lost PROVE Reached(lastBlock', scan)
      OBVIOUS
    <3>1. PICK e \in DOMAIN held.cursors : lastBlock' = held.cursors[e]
      BY <2>1
    <3>2. e \in DOMAIN scan /\ held.cursors[e] <= scan[e]
      BY <2>2 DEF Below
    <3> QED
      BY <3>1, <3>2 DEF Reached
  <2>5. CursorsGrow'
    BY <1>0, <1>1, <2>2, <2>4 DEF CursorsGrow
  <2>6. Fresh'
    <3>1. held \in versions /\ StatOf(held.at)
      BY <1>0, <1>1, Zenon DEF TimesInOrder
    <3>2. PICK f \in versions : f.at <= held.at /\ mtime = Unix(f.at)
      BY <3>1, Zenon DEF StatOf
    <3>3. \A e \in DOMAIN held.cursors :
             e \in DOMAIN explorerCursor' /\ explorerCursor'[e] = held.cursors[e]
      BY <1>6
    <3>4. held.kind = "doc" /\ lastBlock' = Max({held.cursors[e] : e \in DOMAIN held.cursors})
      BY <1>6
    <3> QED
      BY <1>1, <3>1, <3>2, <3>3, <3>4, Zenon DEF Fresh
  <2> QED
    BY <1>2, <1>4, <2>3, <2>5, <2>6 DEF TickDone
<1> QED
  BY <1>5, <1>6, Zenon DEF Decode

\* The rest changes neither file, nor cursors, nor what the tick has read.
LEMMA QuietInv ==
    IInv /\ (End \/ Stop \/ UNCHANGED vars) =>
        /\ OnlyDocsHaveCursors' /\ CursorsGrow' /\ TimesInOrder' /\ TickDone'
        /\ lastBlock' = lastBlock
<1> SUFFICES ASSUME IInv, End \/ Stop \/ UNCHANGED vars
             PROVE  /\ OnlyDocsHaveCursors' /\ CursorsGrow' /\ TimesInOrder' /\ TickDone'
                    /\ lastBlock' = lastBlock
  OBVIOUS
<1>0. TypeOK /\ OnlyDocsHaveCursors /\ CursorsGrow /\ TimesInOrder /\ TickDone
  BY Zenon DEF IInv, TickDone
<1>1. UNCHANGED <<publisherVars, held, series, tickVars>>
  BY Zenon DEF End, Stop, vars
<1>2. (phase' = phase /\ versions' = versions) \/ phase' # "busy"
  BY DEF End, Stop, vars, tickerVars, EndTick, Return, CancelTicker
<1> USE <1>1 DEF publisherVars, series, tickVars
<1>3. OnlyDocsHaveCursors'
  BY <1>0, Zenon DEF OnlyDocsHaveCursors
<1>4. CursorsGrow'
  BY <1>0 DEF CursorsGrow
<1>5. TimesInOrder'
  BY <1>0, <1>2 DEF TimesInOrder, StatOf
<1>6. TickDone'
  BY <1>0, <1>2 DEF TickDone, Fresh
<1> QED
  BY <1>3, <1>4, <1>5, <1>6

\* Every step keeps the invariant.
LEMMA NextInv == IInv /\ [Next]_vars => IInv'
<1> SUFFICES ASSUME IInv, [Next]_vars PROVE IInv'
  OBVIOUS
<1>1. TypeOK'
  BY NextTypes
<1>2. OnlyDocsHaveCursors' /\ CursorsGrow' /\ TimesInOrder' /\ TickDone'
  BY PublisherInv, BeforeDecodeInv, DecodeInv, QuietInv, Zenon DEF Next, Tick
<1> QED
  BY <1>1, <1>2, Zenon DEF IInv, TickDone

-----------------------------------------------------------------------------
(***************************************************************************)
(* Between its calls the tick holds only what was in the file since it     *)
(* began, and no cursors below the block it shows while no explorer was    *)
(* dropped, whatever happens to the file (the inductive invariant).        *)
(***************************************************************************)
THEOREM StateInvariant == Spec => []IInv
  BY InitInv, NextInv, PTL DEF Spec

(***************************************************************************)
(* While the publisher lists every explorer, no file it ever writes, and   *)
(* no moment at which it is read, makes last_scanned_block go back.        *)
(***************************************************************************)
THEOREM BlockNeverGoesBack == Spec => NeverGoesBack
<1>1. IInv /\ [Next]_vars => [lost \/ lastBlock' >= lastBlock]_vars
  <2> SUFFICES ASSUME IInv, Next PROVE lost \/ lastBlock' >= lastBlock
    BY Zenon
  <2>1. CASE Decode
    BY <2>1, DecodeInv
  <2>2. CASE ~Decode
    <3>1. lastBlock' = lastBlock
      <4>1. CASE Publisher
        BY <4>1, Zenon DEF Publisher, Save, Tear, Spoil, Put, series
      <4>2. CASE Begin \/ Stat \/ Open \/ End \/ Stop
        BY <4>2, Zenon DEF Begin, Stat, Open, End, Stop, series
      <4> QED
        BY <2>2, <4>1, <4>2, Zenon DEF Next, Tick
    <3>2. lastBlock \in Nat
      BY DEF IInv, TypeOK
    <3> QED
      BY <3>1, <3>2
  <2> QED
    BY <2>1, <2>2
<1> QED
  BY <1>1, StateInvariant, PTL DEF Spec, NeverGoesBack

(***************************************************************************)
(* A tick that counts no error has reported one version of the file: the   *)
(* highest of its cursors as the block and each of them as its explorer's, *)
(* with the mtime of that version or of an earlier one, both in the file   *)
(* at some moment of this tick, although stat, open and decode look at the *)
(* path one after the other and whichever explorers the file lists.        *)
(***************************************************************************)
THEOREM TicksAreFresh == Spec => TickIsFresh
<1>1. IInv /\ [Next]_vars => [phase = "busy" /\ phase' = "select" /\ errors' = errors => Fresh]_vars
  <2> SUFFICES ASSUME IInv, Next, phase = "busy", phase' = "select", errors' = errors
               PROVE  Fresh
    BY Zenon
  <2>1. step = "end" /\ EndTick(result)
    <3>1. phase' = phase \/ phase' = "busy" \/ Return \/ End
      <4>1. CASE Publisher
        BY <4>1, Zenon DEF Publisher, Save, Tear, Spoil, Put, tickerVars
      <4>2. CASE Begin \/ Stat \/ Open \/ Decode \/ End \/ Stop
        BY <4>2, Zenon DEF Begin, BeginTick, Stat, Open, Decode, Stop, CancelTicker, tickerVars
      <4> QED
        BY <4>1, <4>2, Zenon DEF Next, Tick
    <3>2. ~Return
      BY DEF Return
    <3> QED
      BY <3>1, <3>2 DEF End
  <2>2. /\ result \in Kinds \cup {NoError}
        /\ errors \in [Kinds -> Nat]
    BY DEF IInv, TypeOK, TickerTypeOK
  <2>3. result = NoError
    <3> SUFFICES ASSUME result # NoError PROVE FALSE
      OBVIOUS
    <3>1. errors'[result] # errors[result]
      BY <2>1, <2>2 DEF EndTick
    <3> QED
      BY <3>1
  <2> QED
    BY <2>1, <2>3, Zenon DEF IInv
<1> QED
  BY <1>1, StateInvariant, PTL DEF Spec, TickIsFresh
=============================================================================
