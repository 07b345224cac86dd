---------------------------- MODULE LogMtimeProofs ----------------------------
(***************************************************************************)
(* What holds of the scan for the newest file, for any number of           *)
(* components, files and ticks and whatever happens to the directory       *)
(* meanwhile: a scan that is not atomic still reports a moment of it.      *)
(***************************************************************************)
EXTENDS LogMtime, TLAPS, BoundedSets

USE RunTickerAssumption, LogMtimeAssumption
    DEF RunTickerAssumption, LogMtimeAssumption, Comps, Names, Absent, Times, Kinds, NoError

-----------------------------------------------------------------------------
(* The newest mtime of a directory.                                        *)

Dir == [Names -> Times]

\* Newest is what its name says.
LEMMA NewestIsNewest ==
    ASSUME NEW d \in Dir
    PROVE  IsNewest(d, Newest(d)) /\ Newest(d) \in Times
<1> DEFINE S == {d[n] : n \in Names}
<1>1. S \in SUBSET (0 .. MaxTime) /\ S # {}
  <2>1. 1 \in Names
    OBVIOUS
  <2> QED
    BY <2>1 DEF Dir
<1>2. PICK t \in S : \A y \in S : y <= t
  BY <1>1, LargestOf
<1>3. IsNewest(d, t)
  BY <1>2 DEF IsNewest
<1> HIDE DEF S
<1>4. IsNewest(d, Newest(d)) /\ Newest(d) \in S
  BY <1>3 DEF Newest, S
<1> QED
  BY <1>1, <1>4

\* There is one.
LEMMA NewestIsUnique ==
    ASSUME NEW d \in Dir, NEW t, IsNewest(d, t)
    PROVE  Newest(d) = t
<1>1. IsNewest(d, Newest(d)) /\ Newest(d) \in Times
  BY NewestIsNewest
<1> QED
  BY <1>1 DEF IsNewest, Dir

-----------------------------------------------------------------------------
(* Types, in the parts one step changes.                                   *)

FilesTypeOK == now \in Times /\ mtime \in [Comps -> [Names -> 0 .. now]]

ScanTypeOK ==
    /\ at \in 1 .. NComps + 1
    /\ todo \in SUBSET Names
    /\ best \in Times
    /\ firstKind \in {"io", NoError}
    /\ gauge \in [Comps -> Nat]
    /\ failed \in SUBSET Comps /\ scanned \in SUBSET Comps

ViewTypeOK == floor \in Times /\ leaders \in SUBSET Names /\ moments \in SUBSET Times

\* The rest of TypeOK, when a step leaves all of it alone.
LEMMA QuietTypes ==
    ASSUME TypeOK, FilesTypeOK', ViewTypeOK',
           UNCHANGED <<tickerVars, scan, firstKind, gauge, failed, scanned>>
    PROVE  TypeOK'
<1>1. TickerTypeOK' /\ ScanTypeOK'
  BY DEF TypeOK, TickerTypeOK, ScanTypeOK, tickerVars, scan
<1>2. listed' \in BOOLEAN
  BY Zenon DEF TypeOK, scan
<1> QED
  BY <1>1, <1>2, Zenon DEF TypeOK, FilesTypeOK, ScanTypeOK, ViewTypeOK

\* One file of one directory changes.
LEMMA OneFile ==
    ASSUME NEW S, NEW f \in [Comps -> [Names -> S]], NEW c \in Comps, NEW n \in Names,
           NEW t \in S
    PROVE  LET g == [f EXCEPT ![c][n] = t]
           IN  /\ g \in [Comps -> [Names -> S]]
               /\ \A d \in Comps, m \in Names :
                     g[d][m] = IF d = c /\ m = n THEN t ELSE f[d][m]
               /\ \A d \in Comps : d # c => g[d] = f[d]
OBVIOUS

\* The clock moves on.
LEMMA LaterClock ==
    ASSUME NEW a \in Nat, NEW b \in Nat, a <= b, NEW f \in [Comps -> [Names -> 0 .. a]]
    PROVE  f \in [Comps -> [Names -> 0 .. b]]
<1>1. \A d \in Comps : f[d] \in [Names -> 0 .. b]
  <2>1. \A d \in Comps : f[d] \in [Names -> 0 .. a]
    OBVIOUS
  <2>2. 0 .. a \subseteq 0 .. b
    OBVIOUS
  <2> QED
    BY <2>1, <2>2
<1> QED
  BY <1>1

\* Every directory is one whose newest file is defined.
LEMMA IsDir ==
    ASSUME NEW t \in Times, NEW f \in [Comps -> [Names -> 0 .. t]], NEW c \in Comps
    PROVE  f[c] \in Dir /\ \A n \in Names : f[c][n] \in 0 .. t /\ f[c][n] \in Times
<1>1. f[c] \in [Names -> 0 .. t]
  OBVIOUS
<1>2. 0 .. t \subseteq Times
  OBVIOUS
<1> QED
  BY <1>1, <1>2 DEF Dir

-----------------------------------------------------------------------------
(* The publisher.                                                          *)

\* What a step of the publisher does to the directory of c.
LEMMA PublisherFiles ==
    ASSUME TypeOK, Publisher
    PROVE  FilesTypeOK'
<1>1. now \in Times /\ now \in Nat /\ mtime \in [Comps -> [Names -> 0 .. now]]
  BY DEF TypeOK
<1>2. 0 \in 0 .. now
  BY <1>1
<1>3. ASSUME NEW c \in Comps, NEW n \in Names, Write(c, n)
      PROVE  FilesTypeOK'
  <2>1. now' \in now .. MaxTime /\ mtime' = [mtime EXCEPT ![c][n] = now']
    BY <1>3 DEF Write
  <2>2. now' \in Times /\ now' \in Nat /\ now <= now' /\ now' \in 0 .. now'
    BY <1>1, <2>1
  <2>3. mtime \in [Comps -> [Names -> 0 .. now']]
    BY <1>1, <2>2, LaterClock
  <2>4. mtime' \in [Comps -> [Names -> 0 .. now']]
    BY <2>1, <2>2, <2>3, OneFile
  <2> QED
    BY <2>2, <2>4 DEF FilesTypeOK
<1>4. ASSUME NEW c \in Comps, NEW n \in Names, Remove(c, n)
      PROVE  FilesTypeOK'
  <2>1. mtime' = [mtime EXCEPT ![c][n] = 0] /\ now' = now
    BY <1>4 DEF Remove
  <2>2. mtime' \in [Comps -> [Names -> 0 .. now]]
    BY <1>1, <1>2, <2>1, OneFile
  <2> QED
    BY <1>1, <2>1, <2>2 DEF FilesTypeOK
<1>5. ASSUME NEW c \in Comps, NEW n \in Names, NEW m \in Names, Rename(c, n, m)
      PROVE  FilesTypeOK'
  <2> DEFINE g == [mtime EXCEPT ![c][n] = 0]
  <2>1. mtime' = [g EXCEPT ![c][m] = mtime[c][n]] /\ now' = now
    BY <1>5 DEF Rename
  <2>2. g \in [Comps -> [Names -> 0 .. now]]
    BY <1>1, <1>2, OneFile
  <2>3. mtime[c][n] \in 0 .. now
    BY <1>1
  <2> HIDE DEF g
  <2>4. mtime' \in [Comps -> [Names -> 0 .. now]]
    BY <2>1, <2>2, <2>3, OneFile
  <2> QED
    BY <1>1, <2>1, <2>4 DEF FilesTypeOK
<1> QED
  BY <1>3, <1>4, <1>5 DEF Publisher

\* The directory that is being scanned: its newest file joins the moments,
\* and what is left of the leaders is as new as it was.
LEMMA PublisherScan ==
    ASSUME IInv, Publisher
    PROVE  IInv'
<1> USE DEF IInv
<1>1. FilesTypeOK'
  BY PublisherFiles
<1>2. UNCHANGED <<tickerVars, scan, firstKind, gauge, failed, scanned, floor>>
  BY DEF Publisher, Write, Remove, Rename, Witness
<1>3. CASE ~listed
  <2>1. UNCHANGED <<moments, leaders>>
    BY <1>3 DEF Publisher, Write, Remove, Rename, Witness
  <2>2. ViewTypeOK'
    BY <1>2, <2>1 DEF TypeOK, ViewTypeOK
  <2>3. TypeOK'
    BY <1>1, <1>2, <2>2, QuietTypes
  <2> QED
    BY <1>2, <1>3, <2>3 DEF ScanInHand, scan
<1>4. CASE listed
  <2>1. at \in Comps /\ phase = "busy"
    BY <1>4 DEF ScanInHand
  <2>2. PICK c \in Comps, gone \in SUBSET Names :
           /\ Witness(c, gone)
           /\ \A m \in Names \ gone : mtime'[at][m] >= mtime[at][m]
           /\ \A m \in Names : \/ mtime'[at][m] \in {mtime[at][k] : k \in Names} \cup {0}
                               \/ at = c /\ IsNewest(mtime'[at], mtime'[at][m])
           /\ at # c => mtime'[at] = mtime[at]
    <3> USE <2>1
    <3>1. CASE \E c \in Comps, n \in Names : Write(c, n)
      <4>1. PICK c \in Comps, n \in Names : Write(c, n)
        BY <3>1
      <4>2. /\ now' \in now .. MaxTime /\ mtime' = [mtime EXCEPT ![c][n] = now']
            /\ Witness(c, {})
        BY <4>1 DEF Write
      <4>3. \A m \in Names : mtime[at][m] \in 0 .. now
        BY IsDir DEF TypeOK
      <4>4. mtime \in [Comps -> [Names -> 0 .. now']] /\ now' \in 0 .. now'
        <5>1. now \in Nat /\ mtime \in [Comps -> [Names -> 0 .. now]]
          BY DEF TypeOK
        <5>2. now' \in Nat /\ now <= now' /\ now' \in 0 .. now'
          BY <4>2, <5>1
        <5> QED
          BY <5>1, <5>2, LaterClock
      <4>5. /\ \A d \in Comps, m \in Names :
                  mtime'[d][m] = IF d = c /\ m = n THEN now' ELSE mtime[d][m]
            /\ \A d \in Comps : d # c => mtime'[d] = mtime[d]
        <5> HIDE DEF IInv
        <5>1. mtime' = [mtime EXCEPT ![c] = [mtime[c] EXCEPT ![n] = now']]
          BY <4>2
        <5>2. mtime[c] \in [Names -> 0 .. now']
          BY <4>4
        <5>3. \A d \in Comps : mtime'[d] = IF d = c THEN [mtime[c] EXCEPT ![n] = now'] ELSE mtime[d]
          BY <4>4, <5>1
        <5> QED
          BY <5>2, <5>3
      <4>6. \A m \in Names : mtime[at][m] \in 0 .. now'
        BY <4>4
      <4>7. at = c => IsNewest(mtime'[at], now') /\ mtime'[at][n] = now'
        BY <4>2, <4>5, <4>6 DEF IsNewest
      <4>8. \A m \in Names : mtime'[at][m] >= mtime[at][m]
        BY <4>2, <4>5, <4>6
      <4>9. \A m \in Names : \/ mtime'[at][m] = mtime[at][m]
                             \/ at = c /\ m = n /\ mtime'[at][m] = now'
        BY <4>5
      <4> QED
        BY <4>2, <4>5, <4>7, <4>8, <4>9
    <3>2. CASE \E c \in Comps, n \in Names : Remove(c, n)
      <4>1. PICK c \in Comps, n \in Names : Remove(c, n)
        BY <3>2
      <4>2. mtime' = [mtime EXCEPT ![c][n] = 0] /\ Witness(c, {n})
        BY <4>1 DEF Remove
      <4>3. \A m \in Names : mtime[at][m] \in 0 .. now
        BY IsDir DEF TypeOK
      <4>4. \A m \in Names \ {n} : mtime'[at][m] = mtime[at][m]
        BY <4>2 DEF TypeOK
      <4>5. \A m \in Names : mtime'[at][m] \in {mtime[at][m], 0}
        BY <4>2 DEF TypeOK
      <4>6. at # c => mtime'[at] = mtime[at]
        BY <4>2 DEF TypeOK
      <4> QED
        BY <4>2, <4>3, <4>4, <4>5, <4>6
    <3>3. CASE \E c \in Comps, n, m \in Names : Rename(c, n, m)
      <4>1. PICK c \in Comps, n \in Names, k \in Names : Rename(c, n, k)
        BY <3>3
      <4>2. mtime' = [mtime EXCEPT ![c][n] = 0, ![c][k] = mtime[c][n]] /\ Witness(c, {n, k})
        BY <4>1 DEF Rename
      <4>3. \A m \in Names : mtime[at][m] \in 0 .. now
        BY IsDir DEF TypeOK
      <4>4. \A m \in Names \ {n, k} : mtime'[at][m] = mtime[at][m]
        BY <4>2 DEF TypeOK
      <4>5. \A m \in Names : mtime'[at][m] \in {mtime[at][m], mtime[at][n], 0}
        BY <4>2 DEF TypeOK
      <4>6. at # c => mtime'[at] = mtime[at]
        BY <4>2 DEF TypeOK
      <4>7. \A m \in Names : mtime'[at][m] \in {mtime[at][j] : j \in Names} \cup {0}
        BY <4>5
      <4>8. {n, k} \in SUBSET Names /\ \A m \in Names \ {n, k} : mtime'[at][m] >= mtime[at][m]
        BY <4>3, <4>4
      <4> QED
        BY <4>2, <4>6, <4>7, <4>8
    <3> QED
      BY <3>1, <3>2, <3>3 DEF Publisher
  <2>3. mtime[at] \in Dir /\ mtime'[at] \in Dir /\ (\A m \in Names : mtime'[at][m] \in Times)
    <3>1. now \in Times /\ mtime \in [Comps -> [Names -> 0 .. now]]
      BY DEF TypeOK
    <3>2. now' \in Times /\ mtime' \in [Comps -> [Names -> 0 .. now']]
      BY <1>1 DEF FilesTypeOK
    <3> QED
      BY <2>1, <3>1, <3>2, IsDir
  <2>4. /\ Newest(mtime[at]) \in moments
        /\ moments' = IF at = c THEN moments \cup {Newest(mtime'[at])} ELSE moments
        /\ leaders' = IF at = c THEN leaders \ gone ELSE leaders
    BY <1>4, <2>1, <2>2 DEF Witness, ScanInHand
  <2>5. Newest(mtime'[at]) \in Times
    BY <2>3, NewestIsNewest
  <2>6. ViewTypeOK'
    BY <1>2, <2>4, <2>5 DEF TypeOK, ViewTypeOK
  <2>7. TypeOK'
    BY <1>1, <1>2, <2>6, QuietTypes
  <2>8. Newest(mtime'[at]) \in moments'
    BY <2>2, <2>4
  <2>9. moments \subseteq moments' /\ leaders' \subseteq leaders
    BY <2>4
  <2>10. \A t : Seen(t) => (t < floor \/ t \in moments')
    BY <2>9 DEF Seen
  <2>11. ASSUME NEW m \in Names
         PROVE  mtime'[at][m] < floor \/ mtime'[at][m] \in moments'
    <3>1. CASE mtime'[at][m] \in {mtime[at][k] : k \in Names}
      BY <1>4, <2>10, <3>1 DEF ScanInHand
    <3>2. CASE mtime'[at][m] = 0
      <4>1. floor \in moments' /\ floor \in Times
        BY <1>4, <2>9 DEF ScanInHand, TypeOK
      <4> QED
        BY <3>2, <4>1
    <3>3. CASE at = c /\ IsNewest(mtime'[at], mtime'[at][m])
      BY <2>3, <2>8, <3>3, NewestIsUnique
    <3> QED
      BY <2>2, <3>1, <3>2, <3>3
  <2>12. best >= floor \/ \A n \in leaders' : n \in todo /\ mtime'[at][n] >= floor
    <3>1. CASE best >= floor
      BY <3>1
    <3>2. CASE \A n \in leaders : n \in todo /\ mtime[at][n] >= floor
      <4>1. ASSUME NEW n \in leaders' PROVE mtime'[at][n] >= floor
        <5>1. n \in leaders /\ n \in Names /\ (at # c \/ n \notin gone)
          BY <2>4 DEF TypeOK
        <5>2. mtime'[at][n] >= mtime[at][n]
          BY <2>2, <2>3, <5>1 DEF Dir
        <5>3. mtime[at][n] \in Times /\ mtime'[at][n] \in Times /\ floor \in Times
          BY <2>3, <5>1 DEF Dir, TypeOK
        <5> QED
          BY <3>2, <5>1, <5>2, <5>3
      <4> QED
        BY <2>9, <3>2, <4>1
    <3> QED
      BY <1>4, <3>1, <3>2 DEF ScanInHand
  <2>13. at' = at /\ floor' = floor /\ best' = best /\ todo' = todo /\ phase' = phase
    BY <1>2 DEF scan, tickerVars
  <2>14. floor \in moments' /\ Seen(best)
    BY <1>4, <2>9 DEF ScanInHand
  <2> QED
    BY <2>1, <2>7, <2>8, <2>10, <2>11, <2>12, <2>13, <2>14 DEF ScanInHand, Seen
<1> QED
  BY <1>3, <1>4

-----------------------------------------------------------------------------
(* The tick.                                                               *)

\* Unix's seconds are a number of seconds.
LEMMA UnixType == \A t \in Times : Unix(t) \in Nat
BY DEF Unix

\* A listing starts with the newest file among those to ask for.
LEMMA ListInv == IInv /\ List => IInv'
<1> SUFFICES ASSUME IInv, List PROVE IInv'
  OBVIOUS
<1> USE DEF IInv
<1>1. /\ phase = "busy" /\ at \in Comps
      /\ listed' = TRUE
      /\ todo' = {n \in Names : mtime[at][n] # 0}
      /\ best' = 0
      /\ floor' = Newest(mtime[at])
      /\ leaders' = {n \in Names : mtime[at][n] = floor'}
      /\ moments' = {floor'}
      /\ UNCHANGED <<tickerVars, files, at, firstKind, gauge, failed, scanned>>
  BY DEF List, Scanning
<1>2. /\ mtime[at] \in Dir
      /\ IsNewest(mtime[at], floor') /\ floor' \in Times
      /\ \A n \in Names : mtime[at][n] \in Times
  BY <1>1, IsDir, NewestIsNewest DEF TypeOK
<1>3. TypeOK'
  <2>1. TickerTypeOK' /\ FilesTypeOK'
    BY <1>1 DEF TypeOK, TickerTypeOK, FilesTypeOK, tickerVars, files
  <2>2. ScanTypeOK' /\ ViewTypeOK'
    <3>1. todo' \in SUBSET Names /\ leaders' \in SUBSET Names /\ moments' \in SUBSET Times
      BY <1>1, <1>2, Zenon
    <3>2. best' \in Times /\ floor' \in Times
      BY <1>1, <1>2
    <3>3. ScanTypeOK'
      BY <1>1, <3>1, <3>2, Zenon DEF TypeOK, ScanTypeOK
    <3> QED
      BY <3>1, <3>2, <3>3, Zenon DEF ViewTypeOK
  <2>3. listed' \in BOOLEAN
    BY <1>1, Zenon
  <2> QED
    BY <2>1, <2>2, <2>3, Zenon DEF TypeOK, FilesTypeOK, ScanTypeOK, ViewTypeOK
<1>4. at' = at /\ mtime' = mtime /\ phase' = phase
  BY <1>1 DEF files, tickerVars
<1>5. \A n \in Names : mtime[at][n] < floor' \/ mtime[at][n] \in moments'
  BY <1>1, <1>2 DEF IsNewest
<1>6. best' >= floor' \/ \A n \in leaders' : n \in todo' /\ mtime[at][n] >= floor'
  BY <1>1, <1>2
<1>7. best' < floor' \/ best' \in moments'
  BY <1>1, <1>2
<1> QED
  BY <1>1, <1>3, <1>4, <1>5, <1>6, <1>7 DEF ScanInHand, Seen

\* Asking for a leader brings best up to floor.
LEMMA InfoInv == IInv /\ Info => IInv'
<1> SUFFICES ASSUME IInv, Info PROVE IInv'
  OBVIOUS
<1> USE DEF IInv
<1>1. PICK n \in todo :
         /\ todo' = todo \ {n}
         /\ best' = IF mtime[at][n] > best THEN mtime[at][n] ELSE best
  BY DEF Info
<1>2. /\ phase = "busy" /\ at \in Comps /\ listed
      /\ UNCHANGED <<tickerVars, files, at, listed, firstKind, gauge, history>>
  BY DEF Info, Scanning
<1>3. /\ n \in Names /\ best \in Times /\ floor \in Times
      /\ \A m \in Names : mtime[at][m] \in Times
  BY <1>2, IsDir DEF TypeOK
<1>4. TypeOK'
  <2>1. TickerTypeOK' /\ FilesTypeOK'
    BY <1>2 DEF TypeOK, TickerTypeOK, FilesTypeOK, tickerVars, files
  <2>2. ScanTypeOK' /\ ViewTypeOK'
    BY <1>1, <1>2, <1>3 DEF TypeOK, ScanTypeOK, ViewTypeOK, history, view
  <2>3. listed' \in BOOLEAN
    BY <1>2, Zenon DEF TypeOK
  <2> QED
    BY <2>1, <2>2, <2>3, Zenon DEF TypeOK, FilesTypeOK, ScanTypeOK, ViewTypeOK
<1>5. /\ UNCHANGED <<at, mtime, phase, floor, leaders, moments>>
  BY <1>2 DEF files, tickerVars, history, view
<1>6. Seen(best) /\ Seen(mtime[at][n]) /\ floor \in moments
      /\ Newest(mtime[at]) \in moments /\ \A m \in Names : Seen(mtime[at][m])
  BY <1>2, <1>3 DEF ScanInHand
<1>7. best' >= floor \/ \A m \in leaders : m \in todo' /\ mtime[at][m] >= floor
  <2>1. best' \in Times /\ best' >= best /\ best' >= mtime[at][n]
    BY <1>1, <1>3
  <2>2. CASE best >= floor
    BY <1>3, <2>1, <2>2
  <2>3. CASE n \in leaders /\ \A m \in leaders : m \in todo /\ mtime[at][m] >= floor
    BY <1>3, <2>1, <2>3
  <2>4. CASE n \notin leaders /\ \A m \in leaders : m \in todo /\ mtime[at][m] >= floor
    BY <1>1, <2>4
  <2> QED
    BY <1>2, <2>2, <2>3, <2>4 DEF ScanInHand
<1>8. Seen(best)'
  BY <1>1, <1>5, <1>6 DEF Seen
<1> QED
  BY <1>2, <1>4, <1>5, <1>6, <1>7, <1>8 DEF ScanInHand, Seen

\* What Report sets the gauge to.
LEMMA ReportValue ==
    ASSUME IInv, Report
    PROVE  leaders = {} \/ best \in moments
<1>1. listed /\ todo = {}
  BY DEF Report
<1>2. best \in Times /\ floor \in Times
  BY DEF IInv, TypeOK
<1> QED
  BY <1>1, <1>2 DEF IInv, ScanInHand, Seen

\* The other steps leave no scan in hand, or leave it alone.
LEMMA OtherInv == IInv /\ (Begin \/ ListFails \/ Report \/ End \/ Stop) => IInv'
<1> SUFFICES ASSUME IInv, Begin \/ ListFails \/ Report \/ End \/ Stop PROVE IInv'
  OBVIOUS
<1> USE DEF IInv
<1>1. TickerTypeOK'
  <2> USE DEF TypeOK, TickerTypeOK
  <2>1. CASE Begin
    BY <2>1 DEF Begin, BeginTick
  <2>2. CASE End
    <3>1. firstKind \in {"io", "none"}
      OBVIOUS
    <3>2. errors' \in [{"timeout", "api", "parse", "io"} -> Nat]
      BY <2>2, <3>1 DEF End, EndTick
    <3>3. phase' = "select" /\ UNCHANGED <<cancelled, ticks>>
      BY <2>2 DEF End, EndTick
    <3> QED
      BY <3>2, <3>3
  <2>3. CASE Stop
    BY <2>3 DEF Stop, Return, CancelTicker
  <2>4. CASE ListFails \/ Report
    BY <2>4 DEF ListFails, Report, tickerVars
  <2> QED
    BY <2>1, <2>2, <2>3, <2>4
<1>2. FilesTypeOK'
  <2>1. UNCHANGED files
    BY DEF Begin, ListFails, Report, End, Stop
  <2> QED
    BY <2>1 DEF files, TypeOK, FilesTypeOK
<1>3. ScanTypeOK' /\ ViewTypeOK'
  <2> USE DEF TypeOK, ScanTypeOK, ViewTypeOK
  <2>1. CASE Begin
    BY <2>1 DEF Begin, view
  <2>2. CASE ListFails
    <3>1. at \in Comps /\ at' = at + 1 /\ firstKind' = "io" /\ failed' = failed \cup {at}
          /\ UNCHANGED <<todo, best, gauge, scanned, floor, leaders, moments>>
      BY <2>2 DEF ListFails, Scanning, view
    <3>2. at' \in 1 .. NComps + 1 /\ failed' \in SUBSET Comps /\ firstKind' \in {"io", "none"}
      BY <3>1
    <3> QED
      BY <3>1, <3>2, Zenon
  <2>3. CASE Report
    <3>1. /\ at \in Comps /\ at' = at + 1 /\ best' = 0
          /\ gauge' = [gauge EXCEPT ![at] = Unix(best)]
          /\ scanned' = scanned \cup {at}
          /\ floor' = 0 /\ leaders' = {} /\ moments' = {}
          /\ UNCHANGED <<todo, firstKind, failed>>
      BY <2>3 DEF Report, Scanning
    <3>2. Unix(best) \in Nat
      BY UnixType
    <3>3. at' \in 1 .. NComps + 1 /\ best' \in Times /\ floor' \in Times
      BY <3>1
    <3>4. gauge' \in [Comps -> Nat]
      BY <3>1, <3>2
    <3>5. /\ scanned' \in SUBSET Comps /\ failed' \in SUBSET Comps
          /\ leaders' \in SUBSET Names /\ moments' \in SUBSET Times /\ todo' \in SUBSET Names
          /\ firstKind' \in {"io", "none"}
      BY <3>1
    <3> QED
      BY <3>3, <3>4, <3>5, Zenon
  <2>4. CASE End \/ Stop
    BY <2>4 DEF End, Stop, scan, history, view
  <2> QED
    BY <2>1, <2>2, <2>3, <2>4
<1>4. listed' \in BOOLEAN
  BY Zenon DEF TypeOK, Begin, ListFails, Report, End, Stop, scan
<1>5. TypeOK'
  BY <1>1, <1>2, <1>3, <1>4, Zenon DEF TypeOK, FilesTypeOK, ScanTypeOK, ViewTypeOK
<1>6. ScanInHand'
  <2>1. CASE Begin \/ ListFails \/ Report
    <3>1. ~listed'
      BY <2>1, Zenon DEF Begin, ListFails, Report
    <3> QED
      BY <3>1 DEF ScanInHand
  <2>2. CASE End
    <3>1. at = NComps + 1 /\ UNCHANGED scan
      BY <2>2 DEF End
    <3>2. ~listed
      BY <3>1 DEF ScanInHand
    <3> QED
      BY <3>1, <3>2 DEF ScanInHand, scan
  <2>3. CASE Stop
    <3>1. UNCHANGED <<files, scan, view>> /\ (listed => phase' = phase)
      BY <2>3 DEF Stop, Return, CancelTicker, history, ScanInHand
    <3> QED
      BY <3>1 DEF ScanInHand, Seen, files, scan, view
  <2> QED
    BY <2>1, <2>2, <2>3
<1> QED
  BY <1>5, <1>6

-----------------------------------------------------------------------------
\* No scan was made.
LEMMA InitInv == Init => IInv
<1> SUFFICES ASSUME Init PROVE IInv
  OBVIOUS
<1>1. TickerTypeOK
  <2>1. ticks \in 0 .. MaxTicks
    BY DEF Init, TickerInit
  <2>2. errors \in [Kinds -> Nat]
    BY DEF Init, TickerInit
  <2>3. phase \in {"start", "busy", "select", "returned"} /\ cancelled \in BOOLEAN
    BY Zenon DEF Init, TickerInit
  <2> QED
    BY <2>1, <2>2, <2>3 DEF TickerTypeOK
<1>2. FilesTypeOK
  BY DEF Init, FilesTypeOK
<1>3. ScanTypeOK /\ ViewTypeOK
  BY DEF Init, ScanTypeOK, ViewTypeOK
<1>4. listed \in BOOLEAN /\ ~listed
  BY Zenon DEF Init
<1>5. TypeOK
  BY <1>1, <1>2, <1>3, <1>4, Zenon DEF TypeOK, FilesTypeOK, ScanTypeOK, ViewTypeOK
<1> QED
  BY <1>4, <1>5 DEF IInv, ScanInHand

\* Every step keeps the invariant.
LEMMA NextInv == IInv /\ [Next]_vars => IInv'
<1> SUFFICES ASSUME IInv, [Next]_vars PROVE IInv'
  OBVIOUS
<1>1. CASE UNCHANGED vars
  <2>1. FilesTypeOK' /\ ViewTypeOK'
    BY <1>1 DEF vars, files, history, view, IInv, TypeOK, FilesTypeOK, ViewTypeOK
  <2>2. TypeOK'
    BY <1>1, <2>1, QuietTypes DEF vars, history, IInv
  <2> QED
    BY <1>1, <2>2 DEF vars, files, scan, history, view, tickerVars, IInv, ScanInHand, Seen
<1> QED
  BY <1>1, PublisherScan, ListInv, InfoInv, OtherInv DEF Next, Tick

(***************************************************************************)
(* Types, and what a scan under way has seen (ScanInHand).                 *)
(***************************************************************************)
THEOREM ScanInvariant == Spec => []IInv
BY InitInv, NextInv, PTL DEF Spec

(***************************************************************************)
(* For any number of files, and whatever is written, created, renamed or   *)
(* removed while the directory is scanned: the gauge is set only at the    *)
(* end of a scan and to a newest mtime the directory had during it, unless *)
(* every file that was the newest at the listing has gone.                 *)
(***************************************************************************)
THEOREM ScansAreMoments == Spec => ScanIsAMoment
<1>1. ASSUME IInv, [Next]_vars, NEW c \in Comps
      PROVE  /\ (ScanEnds /\ at = c) =>
                   (leaders = {} \/ \E t \in moments : gauge'[c] = Unix(t))
             /\ gauge'[c] # gauge[c] => ScanEnds /\ at = c
  <2>1. CASE Report
    <3>1. listed /\ ~listed' /\ gauge' = [gauge EXCEPT ![at] = Unix(best)]
      BY <2>1 DEF Report
    <3>2. leaders = {} \/ best \in moments
      BY <1>1, <2>1, ReportValue
    <3>3. gauge \in [Comps -> Nat]
      BY <1>1 DEF IInv, TypeOK
    <3> QED
      BY <3>1, <3>2, <3>3 DEF ScanEnds
  <2>2. CASE ~Report
    <3>1. gauge' = gauge
      BY <1>1, <2>2 DEF Next, Publisher, Write, Rename, Remove, Witness, Begin, Tick, List,
         ListFails, Info, End, Stop, vars
    <3>2. listed => listed'
      <4>1. CASE Begin
        BY <1>1, <4>1 DEF Begin, BeginTick, IInv, ScanInHand
      <4>2. CASE ~Begin
        BY <1>1, <2>2, <4>2, Zenon DEF Next, Publisher, Write, Rename, Remove, Witness, Tick,
           List, ListFails, Info, End, Stop, vars, scan
      <4> QED
        BY <4>1, <4>2
    <3> QED
      BY <3>1, <3>2 DEF ScanEnds
  <2> QED
    BY <2>1, <2>2
<1>2. IInv /\ [Next]_vars =>
         [\A c \in Comps :
             /\ (ScanEnds /\ at = c) =>
                   (leaders = {} \/ \E t \in moments : gauge'[c] = Unix(t))
             /\ gauge'[c] # gauge[c] => ScanEnds /\ at = c]_vars
  BY <1>1
<1> QED
  BY <1>2, ScanInvariant, PTL DEF Spec, ScanIsAMoment

-----------------------------------------------------------------------------
(* The whole tick.                                                         *)

\* The directories before the one in hand have been scanned or have failed,
\* and the first error is kept.
Covered ==
    phase = "busy" =>
        /\ 1 .. at - 1 \subseteq scanned \cup failed
        /\ firstKind = IF failed = {} THEN NoError ELSE "io"

\* Every step keeps each component in one place of the tick.
LEMMA CoveredNext == IInv /\ Covered /\ [Next]_vars => Covered'
<1> SUFFICES ASSUME IInv, Covered, [Next]_vars PROVE Covered'
  OBVIOUS
<1>0. at \in 1 .. NComps + 1 /\ NComps \in Nat /\ \A k \in Comps : 1 .. (k + 1) - 1 = 1 .. (k - 1) \cup {k}
  BY LogMtimeAssumption DEF LogMtimeAssumption, IInv, TypeOK
<1>1. CASE Begin
  <2>1. at' = 1 /\ firstKind' = NoError /\ failed' = {}
    BY <1>1 DEF Begin
  <2>2. 1 .. at' - 1 = {}
    BY <2>1
  <2> QED
    BY <2>1, <2>2 DEF Covered
<1>2. CASE ListFails
  <2>1. /\ phase = "busy" /\ phase' = phase /\ at \in Comps /\ at' = at + 1
        /\ firstKind' = "io" /\ failed' = failed \cup {at} /\ scanned' = scanned
    BY <1>2 DEF ListFails, Scanning, tickerVars
  <2>2. 1 .. at' - 1 \subseteq scanned' \cup failed'
    BY <1>0, <2>1 DEF Covered
  <2> QED
    BY <2>1, <2>2 DEF Covered
<1>3. CASE Report
  <2>1. /\ phase = "busy" /\ phase' = phase /\ at \in Comps /\ at' = at + 1
        /\ UNCHANGED <<firstKind, failed>> /\ scanned' = scanned \cup {at}
    BY <1>3 DEF Report, Scanning, tickerVars
  <2>2. 1 .. at' - 1 \subseteq scanned' \cup failed'
    BY <1>0, <2>1 DEF Covered
  <2> QED
    BY <2>1, <2>2 DEF Covered
<1>4. CASE End \/ Stop
  <2>1. phase' # "busy" \/ UNCHANGED <<phase, at, firstKind, failed, scanned>>
    BY <1>4 DEF End, EndTick, Stop, Return, CancelTicker, scan, history
  <2> QED
    BY <2>1 DEF Covered
<1>5. CASE List \/ Info \/ Publisher \/ UNCHANGED vars
  <2>1. UNCHANGED <<phase, at, firstKind, failed, scanned>>
    BY <1>5, Zenon DEF List, Info, Publisher, Write, Rename, Remove, Witness, vars,
       tickerVars, scan, history
  <2> QED
    BY <2>1 DEF Covered
<1> QED
  BY <1>1, <1>2, <1>3, <1>4, <1>5 DEF Next, Tick

\* At the end of a tick no component is left.
LEMMA TickCovers ==
    ASSUME IInv, Covered, [Next]_vars, phase = "busy", phase' = "select"
    PROVE  /\ Comps = scanned \cup failed
           /\ errors' = [errors EXCEPT !["io"] = @ + (IF failed = {} THEN 0 ELSE 1)]
<1>1. End
  <2>1. CASE Publisher \/ List \/ ListFails \/ Info \/ Report \/ UNCHANGED vars
    BY <2>1, Zenon DEF Publisher, Write, Rename, Remove, Witness, List, ListFails, Info, Report,
       vars, tickerVars
  <2>2. CASE Begin \/ Stop
    BY <2>2 DEF Begin, BeginTick, Stop, Return, CancelTicker
  <2> QED
    BY <2>1, <2>2 DEF Next, Tick
<1>2. at = NComps + 1 /\ EndTick(firstKind)
  BY <1>1 DEF End
<1>3. Comps = scanned \cup failed
  <2>1. 1 .. at - 1 = Comps
    BY <1>2, LogMtimeAssumption DEF LogMtimeAssumption
  <2> QED
    BY <2>1 DEF Covered, IInv, TypeOK
<1>4. errors' = IF failed = {} THEN errors ELSE [errors EXCEPT !["io"] = @ + 1]
  BY <1>2 DEF Covered, EndTick, NoError
<1>5. errors \in [Kinds -> Nat]
  BY DEF IInv, TypeOK, TickerTypeOK
<1>6. CASE failed = {}
  BY <1>3, <1>4, <1>5, <1>6 DEF Kinds
<1>7. CASE failed # {}
  BY <1>3, <1>4, <1>7
<1> QED
  BY <1>6, <1>7

(***************************************************************************)
(* For any number of components: a tick ends when every directory has been *)
(* scanned or has failed, and counts one error if any failed.              *)
(***************************************************************************)
THEOREM TicksCoverAll == Spec => TickCoversAll
<1>1. Init => Covered
  BY DEF Init, TickerInit, Covered
<1>2. IInv /\ Covered /\ [Next]_vars =>
         [phase = "busy" /\ phase' = "select" =>
             /\ Comps = scanned \cup failed
             /\ errors' = [errors EXCEPT !["io"] = @ + (IF failed = {} THEN 0 ELSE 1)]]_vars
  BY TickCovers
<1> QED
  BY <1>1, <1>2, CoveredNext, ScanInvariant, PTL DEF Spec, TickCoversAll
=============================================================================
