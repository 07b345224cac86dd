---------------------------- MODULE LogTailProofs ----------------------------
(***************************************************************************)
(* What holds of the polling tailer for every directory, every pattern     *)
(* set, every channel capacity and every choice of failing calls: its type *)
(* invariant; that within an epoch it reports each match exactly once and  *)
(* in order (ExactlyOnce); that it implements LogFeed, when no file is     *)
(* truncated; and that it reports no line twice in its life, when besides  *)
(* only the newest file is written (NeverTwice).                           *)
(***************************************************************************)
EXTENDS LogTail, TLAPS, SequenceTheorems

USE LogDirAssumption, LogTailAssumption DEF None, Paths, Inodes, Pats

-----------------------------------------------------------------------------
(* Sequences.                                                              *)

\* What is left of a sequence without its first k elements.
LEMMA DropPrefix ==
    ASSUME NEW S, NEW s \in Seq(S), NEW k \in 1 .. Len(s)
    PROVE  /\ SubSeq(s, k + 1, Len(s)) \in Seq(S)
           /\ Len(SubSeq(s, k + 1, Len(s))) = Len(s) - k
           /\ DOMAIN SubSeq(s, k + 1, Len(s)) = 1 .. Len(s) - k
           /\ \A i \in 1 .. Len(s) - k : SubSeq(s, k + 1, Len(s))[i] = s[k + i]
<1> HIDE LogDirAssumption, LogTailAssumption
<1>1. Len(s) \in Nat /\ k \in Nat /\ k <= Len(s)
  OBVIOUS
<1>2. \A i \in k + 1 .. Len(s) : s[i] \in S
  BY <1>1
<1> DEFINE r == SubSeq(s, k + 1, Len(s))
<1>3. /\ r \in Seq(S)
      /\ Len(r) = IF k + 1 <= Len(s) THEN Len(s) - (k + 1) + 1 ELSE 0
      /\ \A i \in 1 .. Len(s) - (k + 1) + 1 : r[i] = s[(k + 1) + i - 1]
  BY <1>1, <1>2, SubSeqProperties
<1>4. Len(s) - (k + 1) + 1 = Len(s) - k
  BY <1>1
<1>5. Len(r) = Len(s) - k
  <2> HIDE DEF r
  <2>1. CASE k < Len(s)
    BY <1>1, <1>3, <2>1
  <2>2. CASE k = Len(s)
    BY <1>1, <1>3, <2>2
  <2> QED
    BY <1>1, <2>1, <2>2
<1>6. ASSUME NEW i \in 1 .. Len(s) - k PROVE r[i] = s[k + i]
  <2> HIDE DEF r
  <2>1. (k + 1) + i - 1 = k + i
    BY <1>1
  <2> QED
    BY <1>3, <1>4, <2>1
<1>7. DOMAIN r = 1 .. Len(s) - k
  BY <1>3, <1>5
<1> QED
  BY <1>3, <1>5, <1>6, <1>7

\* A non-empty piece of a sequence.
LEMMA Piece ==
    ASSUME NEW S, NEW s \in Seq(S), NEW i \in Nat \ {0}, NEW j \in i .. Len(s)
    PROVE  SubSeq(s, i, j) \in Seq(S)
<1> HIDE LogDirAssumption, LogTailAssumption
<1>1. i \in 1 .. Len(s) + 1 /\ j \in i - 1 .. Len(s) /\ Len(s) \in Nat
  OBVIOUS
<1>2. \A k \in i .. j : s[k] \in S
  BY <1>1
<1> QED
  BY <1>1, <1>2, SubSeqProperties

-----------------------------------------------------------------------------
(* Types.                                                                  *)

\* No step of the publisher leaves the directory ill typed.
LEMMA DirTypes ==
    ASSUME DirTypeOK
    PROVE  /\ \A p \in Paths, c \in Cell : WriteTo(p, c) => DirTypeOK'
           /\ NewDay => DirTypeOK'
           /\ Replace => DirTypeOK'
           /\ \A p \in Paths : Truncate(p) => DirTypeOK'
           /\ \A p \in Paths : Delete(p) => DirTypeOK'
<1> USE DEF DirTypeOK, Touch
<1>1. ASSUME NEW p \in Paths, NEW c \in Cell, WriteTo(p, c) PROVE DirTypeOK'
  <2>1. dir[p] \in Inodes
    BY <1>1 DEF WriteTo
  <2>2. Append(data[dir[p]], c) \in Seq(Cell)
    BY <2>1
  <2>3. data' \in [Inodes -> Seq(Cell)]
    BY <1>1, <2>1, <2>2 DEF WriteTo
  <2> QED
    BY <1>1, <2>3 DEF WriteTo
<1>2. NewDay => DirTypeOK'
  BY DEF NewDay
<1>3. Replace => DirTypeOK'
  BY DEF Replace
<1>4. ASSUME NEW p \in Paths, Truncate(p) PROVE DirTypeOK'
  <2>1. data' \in [Inodes -> Seq(Cell)]
    BY <1>4 DEF Truncate
  <2> QED
    BY <1>4, <2>1 DEF Truncate
<1>5. ASSUME NEW p \in Paths, Delete(p) PROVE DirTypeOK'
  BY <1>5 DEF Delete
<1> QED
  BY <1>1, <1>2, <1>3, <1>4, <1>5

\* Nothing sent is a sequence of what may be sent.
LEMMA NothingSent == <<>> \in Seq(Nat \X Pats)
OBVIOUS

\* The tailer starts well typed.
LEMMA InitTypes == Init => TypeInv
<1> SUFFICES ASSUME Init PROVE TypeInv
  OBVIOUS
<1> USE DEF Init
<1>1. DirTypeOK
  BY DEF DirInit, DirTypeOK
<1>2. pc \in PCs /\ InDrain
  BY DEF PCs, InDrain
<1>3. buf \in Seq(Cell) /\ out \in Seq(Match)
  OBVIOUS
<1>4. sent \in Seq(Nat \X Pats)
  BY NothingSent
<1>5. ever \in SUBSET (Inodes \X Nat \X Pats) /\ todo \in SUBSET Match
  OBVIOUS
<1> QED
  BY <1>1, <1>2, <1>3, <1>4, <1>5 DEF TypeInv, TypeOK

\* No step of loop or drain touches the directory or the context, so the
\* types of the rest are all there is to show.
LEMMA TailerKeepsDir ==
    ASSUME TypeInv, Tailer
    PROVE  DirTypeOK' /\ cancelled' \in BOOLEAN
<1>1. UNCHANGED <<dirVars, cancelled>>
  BY DEF Tailer, CheckCtx, PickLatest, Examine, Open, StartDrain, Fill, EndOfFile,
         TakeLine, Emit, AbortEmit, Tick, StopWaiting
<1>2. DirTypeOK /\ cancelled \in BOOLEAN
  BY DEF TypeInv, TypeOK
<1> QED
  BY <1>1, <1>2 DEF dirVars, DirTypeOK

\* No step of loop or drain breaks the types.
LEMMA TailerTypes ==
    ASSUME TypeInv, Tailer
    PROVE  TypeInv'
<1> USE DEF Goto
<1>t. /\ pc \in PCs /\ path \in Paths \cup {None}
      /\ fd \in Inodes \cup {None} /\ fdPath \in Paths \cup {None}
      /\ off \in Nat /\ buf \in Seq(Cell)
      /\ todo \in SUBSET Match /\ out \in Seq(Match)
      /\ clean \in BOOLEAN /\ sent \in Seq(Nat \X Pats)
      /\ ever \in SUBSET (Inodes \X Nat \X Pats)
      /\ pc \in {"read", "emit"} => fd # None
      /\ pc \in {"examine", "open"} => path # None
  BY DEF TypeInv, TypeOK, InDrain
<1>f. dir \in [Paths -> Inodes \cup {None}] /\ data \in [Inodes -> Seq(Cell)]
  BY DEF TypeInv, TypeOK, DirTypeOK
<1> DEFINE ReaderTypes ==
             /\ fd' \in Inodes \cup {None} /\ fdPath' \in Paths \cup {None}
             /\ off' \in Nat /\ buf' \in Seq(Cell)
           SentTypes ==
             /\ clean' \in BOOLEAN /\ sent' \in Seq(Nat \X Pats)
             /\ ever' \in SUBSET (Inodes \X Nat \X Pats)
           SendTypes == todo' \in SUBSET Match /\ out' \in Seq(Match)
           PcTypes ==
             /\ pc' \in PCs /\ path' \in Paths \cup {None}
             /\ pc' \in {"read", "emit"} => fd' # None
             /\ pc' \in {"examine", "open"} => path' # None
<1>r. UNCHANGED reader => ReaderTypes
  BY <1>t DEF reader
<1>h. UNCHANGED history => SentTypes
  BY <1>t DEF history
<1>s. UNCHANGED <<todo, out>> => SendTypes
  BY <1>t
<1>n. NewEpoch => SentTypes /\ buf' \in Seq(Cell)
  BY <1>t, NothingSent DEF NewEpoch
<1>q. PcTypes /\ ReaderTypes /\ SendTypes /\ SentTypes => TypeInv'
  BY TailerKeepsDir DEF TypeInv, TypeOK, InDrain
<1> HIDE DEF ReaderTypes, SentTypes, SendTypes
<1>1. CASE CheckCtx
  <2>1. PcTypes
    BY <1>1, <1>t DEF CheckCtx, PCs
  <2> QED
    BY <1>1, <1>r, <1>h, <1>s, <1>q, <2>1 DEF CheckCtx
<1>2. CASE PickLatest
  <2>1. PcTypes
    BY <1>2, <1>t DEF PickLatest, PCs
  <2> QED
    BY <1>2, <1>r, <1>h, <1>s, <1>q, <2>1 DEF PickLatest
<1>3. CASE Examine
  <2>1. PcTypes /\ SendTypes
    BY <1>3, <1>t, <1>s DEF Examine, PCs
  <2>2. CASE FromStart /\ UNCHANGED <<fd, fdPath>>
    <3>1. ReaderTypes /\ SentTypes
      BY <1>t, <1>n, <2>2 DEF FromStart, ReaderTypes
    <3> QED
      BY <1>q, <2>1, <3>1
  <2>3. CASE UNCHANGED <<reader, history>>
    BY <1>r, <1>h, <1>q, <2>1, <2>3
  <2> QED
    BY <1>3, <2>2, <2>3 DEF Examine
<1>4. CASE Open
  <2>1. path \in Paths
    BY <1>4, <1>t DEF Open
  <2>2. dir[path] \in Inodes \cup {None}
    BY <1>f, <2>1
  <2>3. fd' \in Inodes \cup {None} /\ fdPath' \in Paths \cup {None}
    BY <1>4, <1>t, <2>1, <2>2 DEF Open
  <2>4. NewEpoch /\ off' \in Nat /\ SendTypes
    BY <1>4, <1>t, <1>s DEF Open, FromStart
  <2>5. PcTypes
    BY <1>4, <1>t DEF Open, PCs
  <2>6. ReaderTypes
    BY <1>n, <2>3, <2>4 DEF ReaderTypes
  <2> QED
    BY <1>n, <1>q, <2>4, <2>5, <2>6
<1>5. CASE StartDrain
  <2>1. PcTypes
    BY <1>5, <1>t DEF StartDrain, PCs
  <2>2. ReaderTypes
    BY <1>5, <1>t DEF StartDrain, ReaderTypes
  <2> QED
    BY <1>5, <1>h, <1>s, <1>q, <2>1, <2>2 DEF StartDrain
<1>6. CASE Fill
  <2>1. PICK m \in off + Len(buf) + 1 .. Len(data[fd]) :
          buf' = buf \o SubSeq(data[fd], off + Len(buf) + 1, m)
    BY <1>6 DEF Fill
  <2>2. fd \in Inodes
    BY <1>6, <1>t DEF Fill
  <2>3. data[fd] \in Seq(Cell) /\ Len(buf) \in Nat
    BY <1>t, <1>f, <2>2
  <2>4. SubSeq(data[fd], off + Len(buf) + 1, m) \in Seq(Cell)
    BY <1>t, <2>1, <2>3, Piece
  <2>5. buf' \in Seq(Cell)
    BY <1>t, <2>1, <2>4, ConcatProperties
  <2>6. PcTypes
    BY <1>6, <1>t, <2>2 DEF Fill
  <2>7. ReaderTypes
    BY <1>6, <1>t, <2>5 DEF Fill, ReaderTypes
  <2> QED
    BY <1>6, <1>h, <1>s, <1>q, <2>6, <2>7 DEF Fill
<1>7. CASE EndOfFile
  <2>1. PcTypes
    BY <1>7, <1>t DEF EndOfFile, PCs
  <2> QED
    BY <1>7, <1>r, <1>h, <1>s, <1>q, <2>1 DEF EndOfFile
<1>8. CASE TakeLine
  <2>1. PICK k \in DOMAIN buf :
          /\ off' = off + k
          /\ buf' = SubSeq(buf, k + 1, Len(buf))
          /\ todo' = IF HasStamp(buf[1])
                     THEN {[line |-> buf[k].line, pat |-> p] : p \in Hits[buf[k].line]}
                     ELSE {}
    BY <1>8 DEF TakeLine
  <2>2. k \in 1 .. Len(buf) /\ Len(buf) \in Nat /\ buf[k] \in Cell
    BY ONLY <1>t, k \in DOMAIN buf, ElementOfSeq
  <2>3. off' \in Nat
    BY <1>t, <2>1, <2>2
  <2>4. buf' \in Seq(Cell)
    BY <1>t, <2>1, <2>2, DropPrefix
  <2>5. todo' \in SUBSET Match
    <3>1. \A p \in Hits[buf[k].line] : [line |-> buf[k].line, pat |-> p] \in Match
      BY <2>2 DEF Match, Cell
    <3> QED
      BY <2>1, <3>1
  <2>6. PcTypes
    BY <1>8, <1>t DEF TakeLine, PCs
  <2>7. ReaderTypes /\ SendTypes
    BY <1>8, <1>t, <2>3, <2>4, <2>5 DEF TakeLine, ReaderTypes, SendTypes
  <2> QED
    BY <1>8, <1>h, <1>q, <2>6, <2>7 DEF TakeLine
<1>9. CASE Emit
  <2>1. PICK m \in todo :
          /\ out' = Append(out, m)
          /\ todo' = todo \ {m}
          /\ sent' = Append(sent, <<off, m.pat>>)
          /\ ever' = ever \cup {<<fd, off, m.pat>>}
    BY <1>9 DEF Emit
  <2>2. fd \in Inodes
    BY <1>9, <1>t DEF Emit
  <2>3. m \in Match /\ m.pat \in Pats
    BY <1>t, <2>1 DEF Match
  <2>4. <<off, m.pat>> \in Nat \X Pats /\ <<fd, off, m.pat>> \in Inodes \X Nat \X Pats
    BY <1>t, <2>2, <2>3
  <2>5. SendTypes
    BY <1>t, <2>1, <2>3, AppendProperties DEF SendTypes
  <2>6. sent' \in Seq(Nat \X Pats)
    BY <1>t, <2>1, <2>4, AppendProperties
  <2>7. SentTypes
    BY <1>9, <1>t, <2>1, <2>4, <2>6 DEF Emit, SentTypes
  <2>8. PcTypes
    BY <1>9, <1>t, <2>2 DEF Emit, PCs, reader
  <2> QED
    BY <1>9, <1>r, <1>q, <2>5, <2>7, <2>8 DEF Emit
<1>10. CASE AbortEmit
  <2>1. PcTypes
    BY <1>10, <1>t DEF AbortEmit, PCs
  <2> QED
    BY <1>10, <1>r, <1>h, <1>s, <1>q, <2>1 DEF AbortEmit
<1>11. CASE Tick
  <2>1. PcTypes
    BY <1>11, <1>t DEF Tick, PCs
  <2> QED
    BY <1>11, <1>r, <1>h, <1>s, <1>q, <2>1 DEF Tick
<1>12. CASE StopWaiting
  <2>1. PcTypes
    BY <1>12, <1>t DEF StopWaiting, PCs
  <2> QED
    BY <1>12, <1>r, <1>h, <1>s, <1>q, <2>1 DEF StopWaiting
<1> QED
  BY <1>1, <1>2, <1>3, <1>4, <1>5, <1>6, <1>7, <1>8, <1>9, <1>10, <1>11, <1>12
     DEF Tailer

\* No step, of the tailer, the receiver, main or the publisher, breaks the types.
LEMMA NextTypes == TypeInv /\ [Next]_vars => TypeInv'
<1> SUFFICES ASSUME TypeInv, [Next]_vars PROVE TypeInv'
  OBVIOUS
<1> USE DEF TypeInv, InDrain, TypeOK
<1>1. CASE Tailer
  BY <1>1, TailerTypes
<1>2. CASE Receive
  BY <1>2, HeadTailProperties DEF Receive, dirVars, reader, history, DirTypeOK
<1>3. CASE Cancel
  BY <1>3 DEF Cancel, dirVars, reader, history, DirTypeOK
<1>4. CASE Publisher
  <2>1. DirTypeOK'
    BY <1>4, DirTypes DEF Publisher
  <2> QED
    BY <1>4, <2>1 DEF Publisher, reader
<1>5. CASE UNCHANGED vars
  BY <1>5 DEF vars, dirVars, reader, history, DirTypeOK
<1> QED
  BY <1>1, <1>2, <1>3, <1>4, <1>5 DEF Next

(***************************************************************************)
(* Every state of the tailer is well typed, and a file that is read or     *)
(* looked at is there: f is never nil inside drain.                        *)
(***************************************************************************)
THEOREM TypeCorrect == Spec => [](TypeOK /\ InDrain)
<1>1. TypeInv => TypeOK /\ InDrain
  BY DEF TypeInv
<1> QED
  BY <1>1, InitTypes, NextTypes, PTL DEF Spec

-----------------------------------------------------------------------------
(* What a file gives rise to depends on nothing after the line.            *)

\* What the publisher appends to a file does not change what the part
\* already consumed gave rise to.
LEMMA DueAppend ==
    ASSUME NEW s \in Seq(Cell), NEW c \in Cell, NEW n \in 0 .. Len(s)
    PROVE  Due(Append(s, c), n) = Due(s, n)
<1> DEFINE t == Append(s, c)
<1>1. Len(s) \in Nat /\ \A i \in 1 .. n : t[i] = s[i]
  OBVIOUS
<1> HIDE DEF t
<1>2. \A i \in 1 .. n : Prefixed(t, i) <=> Prefixed(s, i)
  <2> TAKE i \in 1 .. n
  <2>1. \A j \in 1 .. i :
          /\ t[j] = s[j]
          /\ j # 1 => t[j - 1] = s[j - 1]
          /\ \A k \in j .. i - 1 : t[k] = s[k]
    BY <1>1
  <2> QED
    BY <2>1 DEF Prefixed
<1> QED
  BY <1>1, <1>2 DEF Due, t

\* What the line from cell n + 1 to cell n + k of s adds.
LineDue(s, n, k) ==
    {<<n + k, p>> : p \in IF HasStamp(s[n + 1]) THEN Hits[s[n + k].line] ELSE {}}

\* Consuming one more line adds what that line gives rise to, and nothing of
\* the lines before it changes.
LEMMA DueStep ==
    ASSUME NEW s \in Seq(Cell), NEW n \in Nat, NEW k \in Nat \ {0},
           n + k <= Len(s),
           n = 0 \/ Ends(s[n]),
           Ends(s[n + k]),
           \A m \in 1 .. k - 1 : ~Ends(s[n + m])
    PROVE  Due(s, n + k) = Due(s, n) \cup LineDue(s, n, k)
<1>1. Prefixed(s, n + k) => HasStamp(s[n + 1])
  <2> SUFFICES ASSUME Prefixed(s, n + k) PROVE HasStamp(s[n + 1])
    OBVIOUS
  <2>1. PICK j \in 1 .. n + k :
           /\ j = 1 \/ Ends(s[j - 1])
           /\ \A i \in j .. n + k - 1 : ~Ends(s[i])
           /\ HasStamp(s[j])
    BY DEF Prefixed
  <2>2. ~(j <= n)
    BY <2>1
  <2>3. ~(j > n + 1)
    <3> SUFFICES ASSUME j > n + 1 PROVE FALSE
      OBVIOUS
    <3>1. j - 1 - n \in 1 .. k - 1 /\ n + (j - 1 - n) = j - 1
      OBVIOUS
    <3>2. ~Ends(s[j - 1])
      BY <3>1
    <3> QED
      BY <2>1, <3>2
  <2>4. j = n + 1
    BY <2>2, <2>3
  <2> QED
    BY <2>1, <2>4
<1>2. HasStamp(s[n + 1]) => Prefixed(s, n + k)
  <2>1. n + 1 \in 1 .. n + k /\ (n + 1 = 1 \/ Ends(s[(n + 1) - 1]))
    OBVIOUS
  <2>2. \A i \in n + 1 .. n + k - 1 : ~Ends(s[i])
    <3> TAKE i \in n + 1 .. n + k - 1
    <3>1. i - n \in 1 .. k - 1 /\ n + (i - n) = i
      OBVIOUS
    <3> QED
      BY <3>1
  <2> QED
    BY <2>1, <2>2 DEF Prefixed
<1>3. \A i \in n + 1 .. n + k - 1 : ~Ends(s[i])
  <2> TAKE i \in n + 1 .. n + k - 1
  <2>1. i - n \in 1 .. k - 1 /\ n + (i - n) = i
    OBVIOUS
  <2> QED
    BY <2>1
<1>4. Hits[s[n + k].line] \subseteq Pats
  <2>1. s[n + k] \in Cell
    OBVIOUS
  <2> QED
    BY <2>1 DEF Cell
<1>5. ASSUME NEW d \in Due(s, n + k) PROVE d \in Due(s, n) \cup LineDue(s, n, k)
  <2>1. d \in (1 .. n + k) \X Pats /\ Ends(s[d[1]]) /\ Prefixed(s, d[1])
        /\ d[2] \in Hits[s[d[1]].line]
    BY <1>5 DEF Due
  <2>2. CASE d[1] <= n
    BY <2>1, <2>2 DEF Due
  <2>3. CASE d[1] > n
    <3>1. d[1] = n + k
      BY <1>3, <2>1, <2>3
    <3>2. d = <<n + k, d[2]>>
      BY <2>1, <3>1
    <3> QED
      BY <1>1, <2>1, <3>1, <3>2 DEF LineDue
  <2> QED
    BY <2>1, <2>2, <2>3
<1>6. ASSUME NEW d \in Due(s, n) PROVE d \in Due(s, n + k)
  BY <1>6 DEF Due
<1>7. ASSUME NEW d \in LineDue(s, n, k) PROVE d \in Due(s, n + k)
  <2>1. PICK p \in Hits[s[n + k].line] : d = <<n + k, p>> /\ HasStamp(s[n + 1])
    BY <1>7 DEF LineDue
  <2>2. d \in (1 .. n + k) \X Pats /\ d[1] = n + k /\ d[2] = p
    BY <1>4, <2>1
  <2> QED
    BY <1>2, <2>1, <2>2 DEF Due
<1> QED
  BY <1>5, <1>6, <1>7

-----------------------------------------------------------------------------
(* The inductive invariant.                                                *)

\* Before the first file is opened nothing is sent and nothing is owed.
LEMMA InitInv == Init => IInv
<1> SUFFICES ASSUME Init PROVE IInv
  OBVIOUS
<1>1. TypeInv
  BY InitTypes
<1> QED
  BY <1>1 DEF Init, IInv, ExactlyOnce, BufferFollows, OwedInHand

\* A step that touches neither the read position nor what is sent.
LEMMA IdleStep ==
    ASSUME IInv, TypeInv', OwedInHand',
           UNCHANGED <<data, fd, off, clean, sent, todo>>,
           buf' = buf \/ buf' = <<>>
    PROVE  IInv'
<1>1. ExactlyOnce'
  BY DEF IInv, ExactlyOnce, SentSet, Owed
<1>2. BufferFollows'
  <2>1. CASE buf' = buf
    BY <2>1 DEF IInv, BufferFollows
  <2>2. CASE buf' = <<>>
    <3> SUFFICES ASSUME fd # None, clean PROVE BufferFollows'
      BY DEF BufferFollows
    <3>1. /\ off + Len(buf) <= Len(data[fd])
          /\ off = 0 \/ Ends(data[fd][off])
      BY DEF IInv, BufferFollows
    <3>2. off \in Nat /\ Len(buf) \in Nat /\ Len(data[fd]) \in Nat
      BY DEF IInv, TypeInv, TypeOK, DirTypeOK
    <3>3. Len(buf') = 0 /\ DOMAIN buf' = {} /\ off + 0 <= Len(data[fd])
      BY <2>2, <3>1, <3>2
    <3> QED
      BY <3>1, <3>3 DEF BufferFollows
  <2> QED
    BY <2>1, <2>2
<1> QED
  BY <1>1, <1>2 DEF IInv

\* A read position put at the start of a file, or no file at all: nothing is
\* consumed, so nothing is due.
LEMMA FreshEpoch ==
    ASSUME IInv, TypeInv', UNCHANGED <<data, todo>>, todo = {}, NewEpoch,
           fd' = None \/ off' = 0
    PROVE  IInv'
<1>1. Due(data[fd], 0)' = {}
  BY DEF Due
<1>2. sent' = <<>> /\ buf' = <<>>
  BY DEF NewEpoch
<1>3. ExactlyOnce'
  BY <1>1, <1>2 DEF ExactlyOnce, SentSet, Owed, Due
<1>4. BufferFollows'
  BY <1>2 DEF BufferFollows, TypeInv, TypeOK, DirTypeOK
<1>5. OwedInHand'
  BY DEF OwedInHand
<1> QED
  BY <1>3, <1>4, <1>5 DEF IInv

\* A read puts more of the file behind what is buffered.
LEMMA FillStep ==
    ASSUME IInv, TypeInv', Fill
    PROVE  IInv'
<1>1. PICK m \in off + Len(buf) + 1 .. Len(data[fd]) :
        buf' = buf \o SubSeq(data[fd], off + Len(buf) + 1, m)
  BY DEF Fill
<1>2. /\ fd \in Inodes /\ data[fd] \in Seq(Cell) /\ Len(data[fd]) \in Nat
      /\ buf \in Seq(Cell) /\ Len(buf) \in Nat /\ off \in Nat
  <2>1. fd # None
    BY DEF IInv, TypeInv, InDrain, Fill
  <2>2. /\ fd \in Inodes \cup {None} /\ data \in [Inodes -> Seq(Cell)]
        /\ buf \in Seq(Cell) /\ off \in Nat
    BY DEF IInv, TypeInv, TypeOK, DirTypeOK
  <2>3. fd \in Inodes /\ data[fd] \in Seq(Cell)
    BY <2>1, <2>2
  <2> QED
    BY <2>2, <2>3
<1>3. UNCHANGED <<data, fd, off, clean, sent, todo, pc, cancelled>>
  BY DEF Fill, dirVars, history
<1>4. ExactlyOnce'
  BY <1>3 DEF IInv, ExactlyOnce, SentSet, Owed
<1>5. OwedInHand'
  BY <1>3 DEF IInv, OwedInHand
<1>6. ASSUME clean PROVE /\ off + Len(buf') <= Len(data[fd])
                         /\ \A k \in DOMAIN buf' : buf'[k] = data[fd][off + k]
  <2> DEFINE s == data[fd]
  <2> DEFINE l == Len(buf)
  <2> DEFINE chunk == SubSeq(s, off + l + 1, m)
  <2>1. off + l <= Len(s) /\ \A k \in 1 .. l : buf[k] = s[off + k]
    BY <1>2, <1>6 DEF IInv, BufferFollows
  <2>2. m \in Nat /\ off + l + 1 <= m /\ m <= Len(s) /\ l \in Nat
    BY <1>1, <1>2
  <2>3. s \in Seq(Cell) /\ buf \in Seq(Cell) /\ buf' = buf \o chunk
    BY <1>1, <1>2
  <2> HIDE DEF s, l
  <2>4. /\ chunk \in Seq(Cell)
        /\ Len(chunk) = m - (off + l)
        /\ \A k \in 1 .. m - (off + l) : chunk[k] = s[off + l + k]
    <3>1. \A i \in off + l + 1 .. m : s[i] \in Cell
      BY <1>2, <2>2, <2>3
    <3> QED
      BY <1>2, <2>2, <3>1, SubSeqProperties
  <2> HIDE DEF chunk
  <2>5. /\ Len(buf') = m - off
        /\ \A k \in 1 .. m - off : buf'[k] = IF k <= l THEN buf[k] ELSE chunk[k - l]
    BY <1>2, <2>2, <2>3, <2>4, ConcatProperties DEF l
  <2>6. ASSUME NEW k \in 1 .. m - off PROVE buf'[k] = s[off + k]
    <3>1. CASE k <= l
      BY <2>1, <2>2, <2>5, <3>1
    <3>2. CASE k > l
      <4>1. k - l \in 1 .. m - (off + l) /\ off + l + (k - l) = off + k
        BY <1>2, <2>2, <3>2
      <4> QED
        BY <1>2, <2>2, <2>4, <2>5, <3>2, <4>1
    <3> QED
      BY <1>2, <2>2, <3>1, <3>2
  <2>7. DOMAIN buf' = 1 .. m - off
    BY <2>3, <2>4, <2>5
  <2> QED
    BY <1>2, <2>2, <2>5, <2>6, <2>7 DEF s
<1>7. BufferFollows'
  BY <1>3, <1>6 DEF IInv, BufferFollows
<1> QED
  BY <1>4, <1>5, <1>7 DEF IInv

\* ReadString consumes a line: what it gives rise to becomes owed.
LEMMA TakeLineStep ==
    ASSUME IInv, TypeInv', TakeLine
    PROVE  IInv'
<1>1. PICK k \in DOMAIN buf :
        /\ Ends(buf[k])
        /\ \A m \in 1 .. k - 1 : ~Ends(buf[m])
        /\ off' = off + k
        /\ buf' = SubSeq(buf, k + 1, Len(buf))
        /\ todo' = IF HasStamp(buf[1])
                   THEN {[line |-> buf[k].line, pat |-> p] : p \in Hits[buf[k].line]}
                   ELSE {}
  BY DEF TakeLine
<1>2. /\ fd \in Inodes /\ data[fd] \in Seq(Cell) /\ Len(data[fd]) \in Nat
      /\ buf \in Seq(Cell) /\ Len(buf) \in Nat /\ off \in Nat
  <2>1. fd # None
    BY DEF IInv, TypeInv, TakeLine, InDrain
  <2> QED
    BY <2>1 DEF IInv, TypeInv, TypeOK, DirTypeOK
<1>7. k \in 1 .. Len(buf) /\ k \in Nat \ {0}
  BY <1>2
<1>8. todo = {}
  BY DEF IInv, TakeLine, OwedInHand
<1>3. UNCHANGED <<data, fd, clean, sent>>
  BY DEF TakeLine, dirVars, history
<1>4. OwedInHand'
  <2>1. \A m, n \in todo' : m.line = n.line
    BY <1>1
  <2>2. todo' # {} => pc' = "emit"
    BY DEF TakeLine, Goto
  <2> QED
    BY <2>1, <2>2 DEF OwedInHand
<1>5. CASE ~clean
  BY <1>3, <1>4, <1>5 DEF IInv, ExactlyOnce, BufferFollows
<1>6. CASE clean
  <2> DEFINE s == data[fd]
  <2>1. /\ s \in Seq(Cell) /\ Len(s) \in Nat
        /\ off + Len(buf) <= Len(s)
        /\ \A i \in 1 .. Len(buf) : buf[i] = s[off + i]
        /\ off = 0 \/ Ends(s[off])
    BY <1>2, <1>6 DEF IInv, BufferFollows
  <2>2. /\ SentSet \cup Owed = Due(s, off)
        /\ \A a, b \in DOMAIN sent : a < b => Earlier(sent[a], sent[b])
    BY <1>2, <1>6 DEF IInv, ExactlyOnce
  <2>3. Owed = {} /\ SentSet = Due(s, off)
    BY <1>8, <2>2 DEF Owed
  <2>4. data'[fd'] = s /\ SentSet' = SentSet
    BY <1>3 DEF SentSet
  <2> HIDE DEF s
  <2>5. /\ Ends(s[off + k])
        /\ \A m \in 1 .. k - 1 : ~Ends(s[off + m])
        /\ buf[1] = s[off + 1] /\ buf[k] = s[off + k]
        /\ off + k <= Len(s)
    <3>1. ASSUME NEW i \in 1 .. k PROVE i \in 1 .. Len(buf) /\ buf[i] = s[off + i]
      <4>1. i \in 1 .. Len(buf)
        <5>1. k \in 1 .. Len(buf) /\ Len(buf) \in Nat
          BY <1>2, <1>7
        <5> QED
          BY <5>1
      <4>2. \A j \in 1 .. Len(buf) : buf[j] = s[off + j]
        BY <2>1
      <4> QED
        BY <4>1, <4>2
    <3>4. \A m \in 1 .. k - 1 : ~Ends(buf[m])
      BY <1>1
    <3>2. ASSUME NEW m \in 1 .. k - 1 PROVE ~Ends(s[off + m])
      <4>1. m \in 1 .. k
        BY <1>7
      <4>2. buf[m] = s[off + m]
        BY <3>1, <4>1
      <4> QED
        BY <3>4, <4>2
    <3>3. 1 \in 1 .. k /\ k \in 1 .. k /\ off + k <= Len(s)
      BY <1>2, <1>7, <2>1
    <3> QED
      BY <1>1, <3>1, <3>2, <3>3
  <2>6. Due(s, off + k) = Due(s, off) \cup LineDue(s, off, k)
    <3>1. /\ s \in Seq(Cell) /\ off \in Nat /\ k \in Nat \ {0}
          /\ off + k <= Len(s)
          /\ off = 0 \/ Ends(s[off])
          /\ Ends(s[off + k])
          /\ \A m \in 1 .. k - 1 : ~Ends(s[off + m])
      BY <1>2, <1>7, <2>1, <2>5
    <3> QED
      BY <3>1, DueStep
  <2>7. Owed' = LineDue(s, off, k)
    <3>1. CASE HasStamp(s[off + 1])
      <4>1. todo' = {[line |-> buf[k].line, pat |-> p] : p \in Hits[s[off + k].line]}
        BY <1>1, <2>5, <3>1
      <4>2. \A m \in todo' : m.pat \in Hits[s[off + k].line]
        BY <4>1
      <4>3. \A p \in Hits[s[off + k].line] : \E m \in todo' : m.pat = p
        <5> TAKE p \in Hits[s[off + k].line]
        <5>1. [line |-> buf[k].line, pat |-> p] \in todo'
          BY <4>1
        <5> QED
          BY <5>1
      <4>4. Owed' = {<<off + k, m.pat>> : m \in todo'}
        BY <1>1 DEF Owed
      <4> QED
        <5>1. \A e \in Owed' : \E p \in Hits[s[off + k].line] : e = <<off + k, p>>
          BY <4>2, <4>4
        <5>2. \A p \in Hits[s[off + k].line] : <<off + k, p>> \in Owed'
          BY <4>3, <4>4
        <5> QED
          BY <3>1, <5>1, <5>2 DEF LineDue
    <3>2. CASE ~HasStamp(s[off + 1])
      BY <1>1, <2>5, <3>2 DEF Owed, LineDue
    <3> QED
      BY <3>1, <3>2
  <2>8. \A d \in SentSet', e \in Owed' : Earlier(d, e)
    <3> SUFFICES ASSUME NEW d \in SentSet', NEW e \in Owed' PROVE Earlier(d, e)
      OBVIOUS
    <3>1. d[1] \in 1 .. off
      BY <2>3, <2>4 DEF Due
    <3>2. e[1] = off + k
      BY <2>7 DEF LineDue
    <3> QED
      BY <1>2, <1>7, <3>1, <3>2 DEF Earlier
  <2>9. ExactlyOnce'
    <3>1. (SentSet \cup Owed)' = Due(data[fd], off)'
      BY <1>1, <2>3, <2>4, <2>6, <2>7
    <3>2. \A a, b \in DOMAIN sent' : a < b => Earlier(sent'[a], sent'[b])
      BY <1>3, <2>2
    <3> QED
      BY <2>8, <3>1, <3>2 DEF ExactlyOnce
  <2>10. BufferFollows'
    <3>1. /\ Len(buf') = Len(buf) - k
          /\ \A i \in 1 .. Len(buf) - k : buf'[i] = buf[k + i]
          /\ DOMAIN buf' = 1 .. Len(buf) - k
      <4>1. buf \in Seq(Cell) /\ k \in 1 .. Len(buf)
        BY <1>2, <1>7
      <4>2. buf' = SubSeq(buf, k + 1, Len(buf))
        BY <1>1
      <4> QED
        BY ONLY <4>1, <4>2, DropPrefix
    <3>2. /\ off \in Nat /\ k \in 1 .. Len(buf) /\ Len(buf) \in Nat /\ Len(s) \in Nat
          /\ off' = off + k /\ off + Len(buf) <= Len(s)
      BY <1>1, <1>2, <1>7, <2>1
    <3>3. off' + Len(buf') <= Len(s)
      BY ONLY <3>1, <3>2
    <3>4. ASSUME NEW i \in 1 .. Len(buf) - k PROVE buf'[i] = s[off' + i]
      <4>1. k + i \in 1 .. Len(buf) /\ off + (k + i) = off' + i
        BY ONLY <3>2, i \in 1 .. Len(buf) - k
      <4> QED
        BY <2>1, <3>1, <4>1
    <3> QED
      BY <1>1, <2>4, <2>5, <3>1, <3>3, <3>4 DEF BufferFollows
  <2> QED
    BY <1>4, <2>9, <2>10 DEF IInv
<1> QED
  BY <1>5, <1>6

\* A send moves the first of what is owed to what is sent.
LEMMA EmitStep ==
    ASSUME IInv, TypeInv', Emit
    PROVE  IInv'
<1>1. PICK m \in todo :
        /\ \A n \in todo : m.pat <= n.pat
        /\ todo' = todo \ {m}
        /\ sent' = Append(sent, <<off, m.pat>>)
  BY DEF Emit
<1>2. UNCHANGED <<data, fd, off, buf, clean>>
  BY DEF Emit, dirVars, reader
<1>3. /\ todo \in SUBSET Match /\ off \in Nat /\ sent \in Seq(Nat \X Pats)
      /\ \A n \in todo : n.pat \in Nat
  BY DEF IInv, TypeInv, TypeOK, Match
<1>4. OwedInHand'
  <2>1. \A n, o \in todo' : n.line = o.line
    BY <1>1 DEF IInv, OwedInHand
  <2>2. todo' # {} => pc' = "emit"
    BY DEF Emit, Goto
  <2> QED
    BY <2>1, <2>2 DEF OwedInHand
<1>5. BufferFollows'
  BY <1>2 DEF IInv, BufferFollows
<1>6. ASSUME fd # None, clean PROVE ExactlyOnce'
  <2>1. /\ SentSet \cup Owed = Due(data[fd], off)
        /\ \A d \in SentSet, e \in Owed : Earlier(d, e)
        /\ \A a, b \in DOMAIN sent : a < b => Earlier(sent[a], sent[b])
    BY <1>6 DEF IInv, ExactlyOnce
  <2> DEFINE new == <<off, m.pat>>
  <2>2. /\ Len(sent') = Len(sent) + 1
        /\ \A a \in 1 .. Len(sent) : sent'[a] = sent[a]
        /\ sent'[Len(sent) + 1] = new
        /\ DOMAIN sent' = 1 .. Len(sent) + 1
        /\ Len(sent) \in Nat /\ DOMAIN sent = 1 .. Len(sent)
    <3>1. new \in Nat \X Pats
      BY <1>1, <1>3 DEF Match
    <3> QED
      BY <1>1, <1>3, <3>1, AppendProperties
  <2>3. SentSet' = SentSet \cup {new}
    <3>1. ASSUME NEW d \in SentSet' PROVE d \in SentSet \cup {new}
      <4>1. PICK k \in DOMAIN sent' : d = sent'[k]
        BY DEF SentSet
      <4>2. CASE k \in 1 .. Len(sent)
        BY <2>2, <4>1, <4>2 DEF SentSet
      <4>3. CASE k = Len(sent) + 1
        BY <2>2, <4>1, <4>3
      <4> QED
        BY <2>2, <4>2, <4>3
    <3>2. \A d \in SentSet : d \in SentSet'
      BY <2>2 DEF SentSet
    <3>3. new \in SentSet'
      BY <2>2 DEF SentSet
    <3> QED
      BY <3>1, <3>2, <3>3
  <2>4. new \in Owed
    BY DEF Owed
  <2>5. \A n \in todo' : n \in todo /\ m.pat < n.pat
    <3> TAKE n \in todo'
    <3>1. n \in todo /\ n # m /\ m.pat <= n.pat /\ m.line = n.line
      BY <1>1 DEF IInv, OwedInHand
    <3>2. m \in Match /\ n \in Match
      BY <1>3, <3>1
    <3>3. m.pat # n.pat
      BY <3>1, <3>2 DEF Match
    <3> QED
      BY <1>3, <3>1, <3>3
  <2>6. Owed' \subseteq Owed /\ Owed \subseteq Owed' \cup {new}
    BY <1>1, <1>2 DEF Owed
  <2>7. (SentSet \cup Owed)' = Due(data[fd], off)'
    <3>1. SentSet' \cup Owed' = SentSet \cup Owed
      BY <2>3, <2>4, <2>6
    <3> QED
      BY <1>2, <2>1, <3>1
  <2>8. \A d \in SentSet', e \in Owed' : Earlier(d, e)
    <3> SUFFICES ASSUME NEW d \in SentSet', NEW e \in Owed' PROVE Earlier(d, e)
      OBVIOUS
    <3>1. CASE d \in SentSet
      BY <2>1, <2>6, <3>1
    <3>2. CASE d = new
      <4>1. PICK n \in todo' : e = <<off, n.pat>>
        BY <1>2 DEF Owed
      <4>2. m.pat < n.pat
        BY <2>5, <4>1
      <4> QED
        BY <3>2, <4>1, <4>2 DEF Earlier
    <3> QED
      BY <2>3, <3>1, <3>2
  <2>9. \A a, b \in DOMAIN sent' : a < b => Earlier(sent'[a], sent'[b])
    <3> SUFFICES ASSUME NEW a \in DOMAIN sent', NEW b \in DOMAIN sent', a < b
                 PROVE  Earlier(sent'[a], sent'[b])
      OBVIOUS
    <3>1. a \in 1 .. Len(sent) /\ sent'[a] = sent[a]
      BY <2>2
    <3>4. sent[a] \in SentSet
      BY <2>2, <3>1 DEF SentSet
    <3>2. CASE b \in 1 .. Len(sent)
      BY <2>1, <2>2, <3>1, <3>2
    <3>3. CASE b = Len(sent) + 1
      BY <2>1, <2>2, <2>4, <3>1, <3>3, <3>4
    <3> QED
      BY <2>2, <3>2, <3>3
  <2> QED
    BY <2>7, <2>8, <2>9 DEF ExactlyOnce
<1>7. ExactlyOnce'
  BY <1>2, <1>6 DEF ExactlyOnce
<1> QED
  BY <1>4, <1>5, <1>7 DEF IInv

\* The publisher appends to the open file, or does not touch it, or truncates
\* it and ends what is said of this epoch.
LEMMA PublisherStep ==
    ASSUME IInv, TypeInv', Publisher
    PROVE  IInv'
<1>1. UNCHANGED <<cancelled, pc, fd, off, buf, todo, sent>>
  BY DEF Publisher, reader
<1>2. OwedInHand'
  BY <1>1 DEF IInv, OwedInHand
<1>3. SentSet' = SentSet /\ Owed' = Owed
  BY <1>1 DEF SentSet, Owed
<1>4. SUFFICES ASSUME fd # None, clean' PROVE ExactlyOnce' /\ BufferFollows'
  <2>1. ~(fd # None /\ clean') => ExactlyOnce' /\ BufferFollows'
    BY <1>1 DEF ExactlyOnce, BufferFollows
  <2> QED
    BY <1>2, <1>4, <2>1 DEF IInv
<1>5. clean
  BY <1>4 DEF Publisher, history
<1>6. /\ fd \in Inodes /\ off \in Nat /\ buf \in Seq(Cell) /\ Len(buf) \in Nat
      /\ data \in [Inodes -> Seq(Cell)] /\ data[fd] \in Seq(Cell)
      /\ Len(data[fd]) \in Nat /\ dir \in [Paths -> Inodes \cup {None}]
  <2>1. /\ fd \in Inodes \cup {None} /\ data \in [Inodes -> Seq(Cell)]
        /\ buf \in Seq(Cell) /\ off \in Nat /\ dir \in [Paths -> Inodes \cup {None}]
    BY DEF IInv, TypeInv, TypeOK, DirTypeOK
  <2>2. fd \in Inodes /\ data[fd] \in Seq(Cell)
    BY <1>4, <2>1
  <2> QED
    BY <2>1, <2>2
<1>7. /\ SentSet \cup Owed = Due(data[fd], off)
      /\ \A d \in SentSet, e \in Owed : Earlier(d, e)
      /\ \A a, b \in DOMAIN sent : a < b => Earlier(sent[a], sent[b])
  BY <1>4, <1>5 DEF IInv, ExactlyOnce
<1>8. /\ off + Len(buf) <= Len(data[fd])
      /\ \A k \in DOMAIN buf : buf[k] = data[fd][off + k]
      /\ off = 0 \/ Ends(data[fd][off])
  BY <1>4, <1>5 DEF IInv, BufferFollows
<1>9. \/ data'[fd] = data[fd]
      \/ \E c \in Cell : data'[fd] = Append(data[fd], c)
  <2>1. ASSUME NEW p \in Paths, NEW c \in Cell, WriteTo(p, c)
        PROVE  \/ data'[fd] = data[fd]
               \/ data'[fd] = Append(data[fd], c)
    BY <1>6, <2>1 DEF WriteTo
  <2>2. ASSUME NEW p \in Paths, Truncate(p), clean' = (clean /\ dir[p] # fd)
        PROVE  data'[fd] = data[fd]
    BY <1>4, <1>6, <2>2 DEF Truncate
  <2>3. NewDay \/ Replace \/ (\E p \in Paths : Delete(p)) => data' = data
    BY DEF NewDay, Replace, Delete
  <2> QED
    BY <2>1, <2>2, <2>3 DEF Publisher
<1>10. CASE data'[fd] = data[fd]
  <2>1. BufferFollows'
    BY <1>1, <1>8, <1>10 DEF BufferFollows
  <2>2. ExactlyOnce'
    BY <1>1, <1>3, <1>7, <1>10 DEF ExactlyOnce
  <2> QED
    BY <2>1, <2>2
<1>11. CASE \E c \in Cell : data'[fd] = Append(data[fd], c)
  <2>1. PICK c \in Cell : data'[fd] = Append(data[fd], c)
    BY <1>11
  <2>2. /\ Len(data'[fd]) = Len(data[fd]) + 1
        /\ \A i \in 1 .. Len(data[fd]) : data'[fd][i] = data[fd][i]
    BY <1>6, <2>1, AppendProperties
  <2>3. off \in 0 .. Len(data[fd])
    BY <1>6, <1>8
  <2>4. Due(data'[fd], off) = Due(data[fd], off)
    BY <1>6, <2>1, <2>3, DueAppend
  <2>5. ExactlyOnce'
    BY <1>1, <1>3, <1>7, <2>4 DEF ExactlyOnce
  <2>6. BufferFollows'
    <3>1. off + Len(buf) <= Len(data'[fd])
      BY <1>6, <1>8, <2>2
    <3>2. ASSUME NEW k \in DOMAIN buf PROVE buf[k] = data'[fd][off + k]
      <4>1. off + k \in 1 .. Len(data[fd])
        BY <1>6, <1>8
      <4> QED
        BY <1>8, <2>2, <4>1
    <3>3. off = 0 \/ Ends(data'[fd][off])
      BY <1>6, <1>8, <2>2, <2>3
    <3> QED
      BY <1>1, <3>1, <3>2, <3>3 DEF BufferFollows
  <2> QED
    BY <2>5, <2>6
<1> QED
  BY <1>9, <1>10, <1>11

\* No step breaks the inductive invariant.
LEMMA NextInv == IInv /\ [Next]_vars => IInv'
<1> SUFFICES ASSUME IInv, [Next]_vars PROVE IInv'
  OBVIOUS
<1>1. TypeInv'
  BY NextTypes DEF IInv
<1>2. CASE Tailer
  <2>1. CASE CheckCtx
    BY <1>1, <2>1, IdleStep DEF CheckCtx, dirVars, reader, history, IInv, OwedInHand, Goto
  <2>2. CASE PickLatest
    BY <1>1, <2>2, IdleStep DEF PickLatest, dirVars, reader, history, IInv, OwedInHand
  <2>3. CASE Examine
    <3>1. todo = {} /\ UNCHANGED <<data, todo>>
      BY <2>3 DEF Examine, IInv, OwedInHand, dirVars
    <3>2. CASE FromStart
      BY <1>1, <3>1, <3>2, FreshEpoch DEF FromStart
    <3>3. CASE UNCHANGED <<reader, history>>
      BY <1>1, <3>1, <3>3, IdleStep DEF reader, history, OwedInHand
    <3> QED
      BY <2>3, <3>2, <3>3 DEF Examine
  <2>4. CASE Open
    <3>1. todo = {} /\ UNCHANGED <<data, todo>> /\ NewEpoch /\ (fd' = None \/ off' = 0)
      BY <2>4 DEF Open, FromStart, IInv, OwedInHand, dirVars
    <3> QED
      BY <1>1, <3>1, FreshEpoch
  <2>5. CASE StartDrain
    BY <1>1, <2>5, IdleStep DEF StartDrain, dirVars, history, IInv, OwedInHand
  <2>6. CASE Fill
    BY <1>1, <2>6, FillStep
  <2>7. CASE EndOfFile
    BY <1>1, <2>7, IdleStep DEF EndOfFile, dirVars, reader, history, IInv, OwedInHand
  <2>8. CASE TakeLine
    BY <1>1, <2>8, TakeLineStep
  <2>9. CASE Emit
    BY <1>1, <2>9, EmitStep
  <2>10. CASE AbortEmit
    BY <1>1, <2>10, IdleStep DEF AbortEmit, dirVars, reader, history, IInv, OwedInHand, Goto
  <2>11. CASE Tick
    BY <1>1, <2>11, IdleStep DEF Tick, dirVars, reader, history, IInv, OwedInHand, Goto
  <2>12. CASE StopWaiting
    BY <1>1, <2>12, IdleStep DEF StopWaiting, dirVars, reader, history, IInv, OwedInHand, Goto
  <2> QED
    BY <1>2, <2>1, <2>2, <2>3, <2>4, <2>5, <2>6, <2>7, <2>8, <2>9, <2>10, <2>11, <2>12
       DEF Tailer
<1>3. CASE Receive
  BY <1>1, <1>3, IdleStep DEF Receive, dirVars, reader, history, IInv, OwedInHand
<1>4. CASE Cancel
  BY <1>1, <1>4, IdleStep DEF Cancel, dirVars, reader, history, IInv, OwedInHand
<1>5. CASE Publisher
  BY <1>1, <1>5, PublisherStep
<1>6. CASE UNCHANGED vars
  BY <1>1, <1>6, IdleStep DEF vars, dirVars, reader, history, IInv, OwedInHand
<1> QED
  BY <1>2, <1>3, <1>4, <1>5, <1>6 DEF Next

(***************************************************************************)
(* The inductive invariant holds: bufio's buffer is what follows the read  *)
(* position in the file, which is just past a newline, and what is owed    *)
(* belongs to one line.                                                    *)
(***************************************************************************)
THEOREM InvariantHolds == Spec => []IInv
BY InitInv, NextInv, PTL DEF Spec

(***************************************************************************)
(* For every directory, every set of patterns, every channel capacity and  *)
(* every choice of failing calls: while the open file is not truncated,    *)
(* drain has reported each match of the lines it consumed exactly once and *)
(* in order, and nothing else.                                             *)
(***************************************************************************)
THEOREM ReportsExactlyOnce == Spec => []ExactlyOnce
<1>1. IInv => ExactlyOnce
  BY DEF IInv
<1> QED
  BY <1>1, InvariantHolds, PTL

-----------------------------------------------------------------------------
(* The tailer as a feed, as long as nobody truncates a file.               *)

\* What else the refinement needs: the line in hand is the one before the read
\* position, and without an open file nothing has been sent.
LineInHand == fd # None => \A m \in todo : m.line = data[fd][off].line

FeedInv == IInv /\ clean /\ LineInHand /\ (fd = None => sent = <<>>)

\* The open file, when there is one.
LEMMA OpenFile ==
    ASSUME TypeInv, fd # None
    PROVE  /\ fd \in Inodes /\ data[fd] \in Seq(Cell) /\ Len(data[fd]) \in Nat
           /\ data \in [Inodes -> Seq(Cell)]
           /\ dir \in [Paths -> Inodes \cup {None}]
           /\ off \in Nat /\ todo \in SUBSET Match /\ buf \in Seq(Cell)
           /\ sent \in Seq(Nat \X Pats)
<1>1. /\ fd \in Inodes \cup {None} /\ data \in [Inodes -> Seq(Cell)]
      /\ dir \in [Paths -> Inodes \cup {None}]
      /\ off \in Nat /\ todo \in SUBSET Match /\ buf \in Seq(Cell)
      /\ sent \in Seq(Nat \X Pats)
  BY DEF TypeInv, TypeOK, DirTypeOK
<1>2. fd \in Inodes /\ data[fd] \in Seq(Cell)
  BY <1>1
<1> QED
  BY <1>1, <1>2

\* What a line owes is of a part that was consumed.
LEMMA OwedConsumed ==
    ASSUME FeedInv, fd # None
    PROVE  /\ SentSet \cup Owed = Due(data[fd], off)
           /\ \A d \in SentSet, e \in Owed : Earlier(d, e)
           /\ off \in 0 .. Len(data[fd])
           /\ \A m \in todo : off \in 1 .. Len(data[fd]) /\ <<off, m.pat>> \in Due(data[fd], off)
<1>1. /\ SentSet \cup Owed = Due(data[fd], off)
      /\ \A d \in SentSet, e \in Owed : Earlier(d, e)
      /\ off + Len(buf) <= Len(data[fd])
  BY DEF FeedInv, IInv, ExactlyOnce, BufferFollows
<1>2. off \in Nat /\ Len(buf) \in Nat /\ Len(data[fd]) \in Nat
  BY OpenFile DEF FeedInv, IInv
<1>3. off \in 0 .. Len(data[fd])
  BY <1>1, <1>2
<1>4. ASSUME NEW m \in todo
      PROVE  off \in 1 .. Len(data[fd]) /\ <<off, m.pat>> \in Due(data[fd], off)
  <2>1. <<off, m.pat>> \in Due(data[fd], off)
    BY <1>1 DEF Owed
  <2>2. off \in 1 .. off
    BY <2>1 DEF Due
  <2> QED
    BY <1>2, <1>3, <2>1, <2>2
<1> QED
  BY <1>1, <1>3, <1>4

\* Without truncation the publisher only appends to a file.
LEMMA FileGrows ==
    ASSUME TypeInv, Publisher, "truncate" \notin EnvOps
    PROVE  /\ UNCHANGED clean
           /\ fd # None => \/ data'[fd] = data[fd]
                           \/ \E c \in Cell : data'[fd] = Append(data[fd], c)
<1>1. \A p \in Paths : ~Truncate(p)
  BY Zenon DEF Truncate
<1>2. UNCHANGED clean
  BY <1>1, Zenon DEF Publisher
<1>3. ASSUME fd # None
      PROVE  \/ data'[fd] = data[fd]
             \/ \E c \in Cell : data'[fd] = Append(data[fd], c)
  <2>1. ASSUME NEW p \in Paths, NEW c \in Cell, WriteTo(p, c)
        PROVE  \/ data'[fd] = data[fd]
               \/ data'[fd] = Append(data[fd], c)
    BY <1>3, <2>1, OpenFile DEF WriteTo
  <2>2. NewDay \/ Replace \/ (\E p \in Paths : Delete(p)) => data' = data
    BY DEF NewDay, Replace, Delete
  <2> QED
    BY <1>1, <2>1, <2>2 DEF Publisher
<1> QED
  BY <1>2, <1>3

\* No file is open.
LEMMA FeedInitInv == Init => FeedInv
  BY InitInv DEF Init, FeedInv, LineInHand

\* Every step keeps what the mapping to the feed needs.
LEMMA FeedNextInv ==
    ASSUME "truncate" \notin EnvOps
    PROVE  FeedInv /\ [Next]_vars => FeedInv'
<1> SUFFICES ASSUME FeedInv, [Next]_vars PROVE FeedInv'
  OBVIOUS
<1>1. IInv /\ IInv' /\ TypeInv /\ TypeInv' /\ OwedInHand
  BY NextInv DEF FeedInv, IInv
<1>2. clean'
  <2>1. UNCHANGED clean => clean'
    BY Zenon DEF FeedInv
  <2>2. NewEpoch => clean'
    BY Zenon DEF NewEpoch
  <2>3. CASE Tailer
    BY <2>1, <2>2, <2>3, Zenon
       DEF Tailer, CheckCtx, PickLatest, Examine, Open, FromStart, StartDrain, Fill,
           EndOfFile, TakeLine, Emit, AbortEmit, Tick, StopWaiting, history
  <2>4. CASE Receive \/ Cancel \/ UNCHANGED vars
    BY <2>1, <2>4, Zenon DEF Receive, Cancel, vars, history
  <2>5. CASE Publisher
    BY <1>1, <2>1, <2>5, FileGrows
  <2> QED
    BY <2>3, <2>4, <2>5, Zenon DEF Next
<1>3. CASE todo' = {} /\ (fd' = None => sent' = <<>>)
  BY <1>1, <1>2, <1>3 DEF FeedInv, LineInHand
<1>4. CASE UNCHANGED <<fd, data, off, sent>> /\ todo' \subseteq todo
  BY <1>1, <1>2, <1>4 DEF FeedInv, LineInHand
<1>5. CASE Examine \/ Open
  <2>1. todo' = {}
    BY <1>1, <1>5 DEF Examine, Open, OwedInHand
  <2>2. fd' = None => sent' = <<>>
    BY <1>5 DEF FeedInv, Examine, Open, FromStart, NewEpoch, reader, history
  <2> QED
    BY <1>3, <2>1, <2>2
<1>6. CASE TakeLine
  <2>1. fd # None /\ UNCHANGED <<data, fd, sent>>
    BY <1>1, <1>6 DEF TakeLine, TypeInv, InDrain, dirVars, history
  <2>2. PICK k \in DOMAIN buf :
          /\ off' = off + k
          /\ \A m \in todo' : m.line = buf[k].line
    BY <1>6 DEF TakeLine
  <2>3. buf[k] = data[fd][off + k]
    BY <1>1, <2>1 DEF FeedInv, IInv, BufferFollows
  <2>4. LineInHand'
    BY <2>1, <2>2, <2>3 DEF LineInHand
  <2> QED
    BY <1>1, <1>2, <2>1, <2>4 DEF FeedInv
<1>7. CASE Emit
  <2>1. fd # None /\ UNCHANGED <<data, fd, off>>
    BY <1>1, <1>7 DEF Emit, TypeInv, InDrain, dirVars, reader
  <2>2. todo' \subseteq todo
    BY <1>7 DEF Emit
  <2>3. LineInHand'
    BY <2>1, <2>2 DEF FeedInv, LineInHand
  <2> QED
    BY <1>1, <1>2, <2>1, <2>3 DEF FeedInv
<1>8. CASE CheckCtx \/ PickLatest \/ StartDrain \/ Fill \/ EndOfFile \/ AbortEmit \/ Tick
           \/ StopWaiting \/ Receive \/ Cancel \/ UNCHANGED vars
  <2>1. UNCHANGED <<fd, data, off, sent, todo>>
    BY <1>8 DEF CheckCtx, PickLatest, StartDrain, Fill, EndOfFile, AbortEmit, Tick,
                StopWaiting, Receive, Cancel, vars, dirVars, reader, history
  <2> QED
    BY <1>4, <2>1
<1>9. CASE Publisher
  <2>1. UNCHANGED <<fd, off, sent, todo>>
    BY <1>9 DEF Publisher, reader
  <2>2. CASE fd = None
    BY <1>1, <1>2, <2>1, <2>2 DEF FeedInv, LineInHand
  <2>3. CASE fd # None
    <3>1. ASSUME NEW m \in todo PROVE data'[fd][off] = data[fd][off]
      <4>1. off \in 1 .. Len(data[fd]) /\ data[fd] \in Seq(Cell)
        BY <1>1, <2>3, <3>1, OwedConsumed, OpenFile
      <4>2. \/ data'[fd] = data[fd]
            \/ \E c \in Cell : data'[fd] = Append(data[fd], c)
        BY <1>1, <1>9, <2>3, FileGrows
      <4> QED
        BY <4>1, <4>2, AppendProperties
    <3>2. LineInHand'
      BY <2>1, <2>3, <3>1 DEF FeedInv, LineInHand
    <3> QED
      BY <1>1, <1>2, <2>1, <2>3, <3>2 DEF FeedInv
  <2> QED
    BY <2>2, <2>3
<1> QED
  BY <1>5, <1>6, <1>7, <1>8, <1>9, Zenon DEF Next, Tailer

-----------------------------------------------------------------------------
(* The steps of the feed, told of what the tailer makes of its variables.  *)

\* A step that changes nothing the feed has is none of it.
LEMMA FeedStutters ==
    ASSUME UNCHANGED <<FeedDue, FeedGiven, out, cancelled>>,
           (pc' = "closed") = (pc = "closed")
    PROVE  UNCHANGED Feed!feedVars
BY DEF Feed!feedVars

\* The tailer's return is that of the feed.
LEMMA FeedCloses ==
    ASSUME UNCHANGED <<FeedDue, FeedGiven, out, cancelled>>,
           cancelled, pc # "closed", pc' = "closed"
    PROVE  Feed!FeedNext
<1>1. Feed!Close("tail")
  BY DEF Feed!Close
<1> QED
  BY <1>1, Zenon DEF Feed!FeedNext

\* A receive is the feed's.
LEMMA FeedReceives ==
    ASSUME UNCHANGED <<FeedDue, FeedGiven, pc, cancelled>>,
           out # <<>>, out' = Tail(out)
    PROVE  Feed!FeedNext
<1>1. Feed!Receive("tail")
  BY DEF Feed!Receive
<1> QED
  BY <1>1, Zenon DEF Feed!FeedNext

\* The cancellation is the feed's.
LEMMA FeedIsCancelled ==
    ASSUME UNCHANGED <<FeedDue, FeedGiven, pc, out>>, ~cancelled, cancelled' = TRUE
    PROVE  Feed!FeedNext
<1>1. Feed!Cancel
  BY DEF Feed!Cancel
<1> QED
  BY <1>1, Zenon DEF Feed!FeedNext

\* A send of the match that is next is a delivery.
LEMMA FeedDelivers ==
    ASSUME NEW d \in FeedDue \ FeedGiven,
           UNCHANGED <<FeedDue, cancelled>>,
           pc # "closed", pc' # "closed",
           Len(out) < Cap,
           \A e \in FeedDue \ FeedGiven :
              e = d \/ d[1] < e[1] \/ (d[1] = e[1] /\ d[2].pat < e[2].pat),
           FeedGiven' = FeedGiven \cup {d},
           out' = Append(out, d[2])
    PROVE  Feed!FeedNext
<1>1. Feed!Deliver("tail")
  BY DEF Feed!Deliver, Feed!Sooner
<1> QED
  BY <1>1, Zenon DEF Feed!FeedNext

\* Matches that are due after all others make the file grow.
LEMMA FeedGrows ==
    ASSUME UNCHANGED <<FeedGiven, pc, out, cancelled>>,
           FeedDue' \in SUBSET (Nat \X Match),
           FeedDue \subseteq FeedDue',
           \A n \in FeedDue' \ FeedDue, d \in FeedDue : d[1] < n[1]
    PROVE  Feed!FeedNext
<1>1. Feed!Grow("tail") /\ Feed!OthersKeep("tail")
  BY DEF Feed!Grow, Feed!OthersKeep
<1> QED
  BY <1>1, Zenon DEF Feed!FeedNext

\* A file read from its start is a restart, whatever is due of it.
LEMMA FeedRestarts ==
    ASSUME UNCHANGED <<out, cancelled>>,
           pc # "closed", pc' # "closed",
           FeedDue' \in SUBSET (Nat \X Match),
           FeedGiven' = {}
    PROVE  Feed!FeedNext
<1>1. Feed!Restart("tail") /\ Feed!OthersKeep("tail")
  BY DEF Feed!Restart, Feed!OthersKeep
<1> QED
  BY <1>1, Zenon DEF Feed!FeedNext

-----------------------------------------------------------------------------
(* The steps of the tailer, told of the feed.                              *)

\* Consuming more of a file only adds to what it gave rise to, behind the rest.
LEMMA DueMonotone ==
    ASSUME NEW s, NEW n \in Nat, NEW m \in Nat, n <= m
    PROVE  Due(s, n) = {d \in Due(s, m) : d[1] <= n}
<1>1. (1 .. n) \X Pats = {d \in (1 .. m) \X Pats : d[1] <= n}
  OBVIOUS
<1> QED
  BY <1>1, Zenon DEF Due

\* What a file gives rise to is positions and matches.
LEMMA MatchesTyped ==
    ASSUME NEW s \in Seq(Cell), NEW d \in Due(s, Len(s))
    PROVE  <<d[1], [line |-> s[d[1]].line, pat |-> d[2]]>> \in Nat \X Match
<1>1. d[1] \in 1 .. Len(s) /\ d[2] \in Pats /\ Len(s) \in Nat
  BY DEF Due
<1>2. s[d[1]] \in Cell
  BY <1>1
<1> QED
  BY <1>1, <1>2 DEF Match, Cell

\* The next file, or the same file with more in it, is typed as this one.
LEMMA FeedDueTyped ==
    ASSUME TypeInv'
    PROVE  FeedDue' \in SUBSET (Nat \X Match)
<1> DEFINE s == data'[fd']
<1>1. CASE fd' = None
  BY <1>1 DEF FeedDue
<1>2. CASE fd' # None
  <2>1. s \in Seq(Cell)
    BY <1>2 DEF TypeInv, TypeOK, DirTypeOK
  <2>2. FeedDue' = {<<d[1], [line |-> s[d[1]].line, pat |-> d[2]]>> : d \in Due(s, Len(s))}
    BY <1>2, Zenon DEF FeedDue, FileMatch
  <2> HIDE DEF s
  <2> QED
    BY <2>1, <2>2, MatchesTyped
<1> QED
  BY <1>1, <1>2

\* While the file, its content and what was sent stay, so does the feed's part.
LEMMA FeedKept ==
    ASSUME UNCHANGED <<fd, data, sent>>
    PROVE  UNCHANGED <<FeedDue, FeedGiven>>
<1>1. \A d : FileMatch(d)' = FileMatch(d)
  BY DEF FileMatch
<1>2. FeedGiven' = FeedGiven
  BY <1>1 DEF FeedGiven, SentSet
<1>3. FeedDue' = FeedDue
  BY Zenon DEF FeedDue, FileMatch
<1> QED
  BY <1>2, <1>3

\* A send is the delivery of the first match the feed still owes.
LEMMA EmitDelivers ==
    ASSUME FeedInv, Emit
    PROVE  Feed!FeedNext
<1>1. TypeInv /\ fd # None /\ pc = "emit" /\ pc' # "closed"
  BY DEF FeedInv, IInv, TypeInv, InDrain, Emit, Goto
<1>2. PICK m \in todo :
        /\ \A n \in todo : m.pat <= n.pat
        /\ out' = Append(out, m)
        /\ sent' = Append(sent, <<off, m.pat>>)
  BY DEF Emit
<1>3. UNCHANGED <<fd, data, cancelled>> /\ Len(out) < Cap
  BY DEF Emit, dirVars, reader
<1> DEFINE s == data[fd]
           d == <<off, m>>
<1>4. /\ s \in Seq(Cell) /\ Len(s) \in Nat /\ off \in Nat
      /\ sent \in Seq(Nat \X Pats) /\ todo \in SUBSET Match
  BY <1>1, OpenFile
<1>5. /\ SentSet \cup Owed = Due(s, off)
      /\ \A x \in SentSet, y \in Owed : Earlier(x, y)
      /\ off <= Len(s)
      /\ <<off, m.pat>> \in Due(s, off)
  BY <1>1, <1>4, OwedConsumed
<1>6. m \in Match /\ m.line = s[off].line
  BY <1>1, <1>2, <1>4 DEF FeedInv, LineInHand
<1>7. FileMatch(<<off, m.pat>>) = d
  BY <1>6 DEF FileMatch, Match
<1>8. Due(s, off) = {x \in Due(s, Len(s)) : x[1] <= off}
  BY <1>4, <1>5, DueMonotone
<1>9. d \in FeedDue
  <2>1. <<off, m.pat>> \in Due(s, Len(s))
    BY <1>5, <1>8
  <2> QED
    BY <1>1, <1>7, <2>1 DEF FeedDue
<1>10. d \notin FeedGiven
  <2>0. SUFFICES ASSUME NEW x \in SentSet, FileMatch(x) = d PROVE FALSE
    BY DEF FeedGiven
  <2>1. x[1] = off /\ x[2] = m.pat
    BY <2>0 DEF FileMatch
  <2>2. Earlier(x, <<off, m.pat>>)
    BY <1>2, <1>5 DEF Owed
  <2>3. m.pat \in Nat
    BY <1>6 DEF Match
  <2> QED
    BY <1>4, <2>1, <2>2, <2>3 DEF Earlier
<1>11. ASSUME NEW e \in FeedDue \ FeedGiven
       PROVE  e = d \/ d[1] < e[1] \/ (d[1] = e[1] /\ d[2].pat < e[2].pat)
  <2>1. PICK x \in Due(s, Len(s)) : e = FileMatch(x)
    BY <1>1, <1>11 DEF FeedDue
  <2>2. x \notin SentSet
    BY <1>11, <2>1 DEF FeedGiven
  <2>3. e[1] = x[1] /\ e[2].pat = x[2] /\ x[1] \in Nat /\ d[1] = off /\ d[2].pat = m.pat
    BY <2>1 DEF FileMatch, Due
  <2>4. CASE x[1] > off
    BY <1>4, <2>3, <2>4
  <2>5. CASE x[1] <= off
    <3>1. x \in Owed
      BY <1>5, <1>8, <2>2, <2>5
    <3>2. PICK n \in todo : x = <<off, n.pat>>
      BY <3>1 DEF Owed
    <3>3. m.pat <= n.pat /\ m.pat \in Nat /\ n.pat \in Nat
      BY <1>2, <1>4 DEF Match
    <3>4. CASE m.pat = n.pat
      BY <1>7, <2>1, <3>2, <3>4
    <3>5. CASE m.pat < n.pat
      BY <2>3, <3>2, <3>5
    <3> QED
      BY <3>3, <3>4, <3>5
  <2> QED
    BY <1>4, <2>3, <2>4, <2>5
<1>12. FeedDue' = FeedDue
  BY <1>3, Zenon DEF FeedDue, FileMatch
<1>13. FeedGiven' = FeedGiven \cup {d}
  <2>1. SentSet' = SentSet \cup {<<off, m.pat>>}
    <3>1. <<off, m.pat>> \in Nat \X Pats
      BY <1>4, <1>6 DEF Match
    <3>2. Len(sent) \in Nat /\ DOMAIN sent = 1 .. Len(sent) /\ DOMAIN sent' = 1 .. Len(sent) + 1
      BY <1>2, <1>4, <3>1, AppendProperties
    <3>3. /\ \A k \in 1 .. Len(sent) : sent'[k] = sent[k]
          /\ sent'[Len(sent) + 1] = <<off, m.pat>>
      BY <1>2, <1>4, <3>1, AppendProperties
    <3>4. SentSet' \subseteq SentSet \cup {<<off, m.pat>>}
      <4>1. ASSUME NEW k \in 1 .. Len(sent) + 1
            PROVE  sent'[k] \in SentSet \cup {<<off, m.pat>>}
        <5>1. CASE k \in 1 .. Len(sent)
          BY <3>2, <3>3, <5>1 DEF SentSet
        <5>2. CASE k = Len(sent) + 1
          BY <3>3, <5>2
        <5> QED
          BY <3>2, <4>1, <5>1, <5>2
      <4> QED
        BY <3>2, <4>1 DEF SentSet
    <3>5. SentSet \subseteq SentSet'
      BY <3>2, <3>3 DEF SentSet
    <3>6. <<off, m.pat>> \in SentSet'
      BY <3>2, <3>3 DEF SentSet
    <3> QED
      BY <3>4, <3>5, <3>6
  <2>2. \A x : FileMatch(x)' = FileMatch(x)
    BY <1>3 DEF FileMatch
  <2>3. FeedGiven' = {FileMatch(x) : x \in SentSet'}
    BY <2>2 DEF FeedGiven
  <2> QED
    BY <1>7, <2>1, <2>3 DEF FeedGiven
<1>14. d[2] = m
  OBVIOUS
<1> HIDE DEF d
<1> QED
  BY <1>1, <1>2, <1>3, <1>9, <1>10, <1>11, <1>12, <1>13, <1>14, FeedDelivers

\* Opening a file, or reading it from its start again, restarts the feed.
LEMMA OpenRestarts ==
    ASSUME FeedInv, FeedInv', Open
    PROVE  Feed!FeedNext
<1>1. UNCHANGED <<out, cancelled>> /\ pc # "closed" /\ pc' # "closed" /\ sent' = <<>>
  BY DEF Open, FromStart, NewEpoch, Goto
<1>2. FeedGiven' = {}
  BY <1>1 DEF FeedGiven, SentSet
<1>3. FeedDue' \in SUBSET (Nat \X Match)
  <2>1. TypeInv'
    BY DEF FeedInv, IInv
  <2> QED
    BY <2>1, FeedDueTyped
<1> QED
  BY <1>1, <1>2, <1>3, FeedRestarts

\* A look at the file that finds it shorter does the same; any other one
\* leaves the feed as it is.
LEMMA ExamineRestarts ==
    ASSUME FeedInv, FeedInv', Examine
    PROVE  [Feed!FeedNext]_(Feed!feedVars)
<1>1. UNCHANGED <<out, cancelled, data, fd>> /\ pc # "closed" /\ pc' # "closed"
  BY DEF Examine, Goto, dirVars, reader
<1>2. CASE FromStart
  <2>1. FeedGiven' = {}
    BY <1>2 DEF FromStart, NewEpoch, FeedGiven, SentSet
  <2>2. FeedDue' \in SUBSET (Nat \X Match)
    BY FeedDueTyped DEF FeedInv, IInv
  <2> QED
    BY <1>1, <2>1, <2>2, FeedRestarts
<1>3. CASE UNCHANGED sent
  BY <1>1, <1>3, FeedKept, FeedStutters
<1> QED
  BY <1>2, <1>3 DEF Examine, history

\* What the publisher appends comes behind what the file gave rise to.
LEMMA PublisherGrows ==
    ASSUME FeedInv, FeedInv', Publisher, "truncate" \notin EnvOps
    PROVE  [Feed!FeedNext]_(Feed!feedVars)
<1>1. UNCHANGED <<fd, sent, out, cancelled, pc>> /\ TypeInv /\ TypeInv'
  BY DEF Publisher, FeedInv, IInv, reader
<1>2. CASE fd = None
  <2>1. FeedDue' = FeedDue /\ FeedGiven' = FeedGiven
    BY <1>1, <1>2 DEF FeedInv, FeedDue, FeedGiven, SentSet
  <2> QED
    BY <1>1, <2>1, FeedStutters
<1>3. CASE fd # None /\ data'[fd] = data[fd]
  <2>1. \A d : FileMatch(d)' = FileMatch(d)
    BY <1>1, <1>3 DEF FileMatch
  <2>2. FeedDue' = FeedDue /\ FeedGiven' = FeedGiven
    <3>1. FeedDue' = FeedDue
      BY <1>1, <1>3, Zenon DEF FeedDue, FileMatch
    <3>2. FeedGiven' = FeedGiven
      BY <1>1, <2>1 DEF FeedGiven, SentSet
    <3> QED
      BY <3>1, <3>2
  <2> QED
    BY <1>1, <2>2, FeedStutters
<1>4. CASE fd # None /\ \E c \in Cell : data'[fd] = Append(data[fd], c)
  <2> DEFINE s == data[fd]
             t == data'[fd]
             n == Len(s)
             MatchOf(d) == <<d[1], [line |-> t[d[1]].line, pat |-> d[2]]>>
  <2>1. PICK c \in Cell : t = Append(s, c)
    BY <1>4
  <2>2. s \in Seq(Cell) /\ n \in Nat /\ off \in 0 .. n
    BY <1>1, <1>4, OpenFile, OwedConsumed
  <2>3. Len(t) = n + 1 /\ \A i \in 1 .. n : t[i] = s[i]
    BY <2>1, <2>2, AppendProperties
  <2>4. Due(t, n) = Due(s, n)
    BY <2>1, <2>2, DueAppend
  <2>5. Due(t, n) = {d \in Due(t, n + 1) : d[1] <= n}
    BY <2>2, DueMonotone
  <2>6. SentSet \subseteq Due(s, n)
    <3>1. SentSet \subseteq Due(s, off)
      BY <1>4, OwedConsumed
    <3>2. Due(s, off) = {d \in Due(s, n) : d[1] <= off}
      BY <2>2, DueMonotone
    <3> QED
      BY <3>1, <3>2
  <2>7. \A d \in Due(s, n) : FileMatch(d) = MatchOf(d) /\ d[1] \in 1 .. n
    BY <2>3 DEF FileMatch, Due
  <2>8. \A d : FileMatch(d)' = MatchOf(d)
    BY <1>1 DEF FileMatch
  <2>9. FeedDue = {MatchOf(d) : d \in Due(s, n)}
    BY <1>4, <2>7 DEF FeedDue
  <2>10. FeedDue' = {MatchOf(d) : d \in Due(t, n + 1)}
    <3>1. FeedDue' = {FileMatch(d)' : d \in Due(t, Len(t))}
      BY <1>1, <1>4, Zenon DEF FeedDue
    <3> QED
      BY <2>3, <2>8, <3>1
  <2>11. FeedGiven' = FeedGiven
    <3>1. FeedGiven' = {FileMatch(d)' : d \in SentSet}
      BY <1>1, Zenon DEF FeedGiven, SentSet
    <3>2. \A d \in SentSet : FileMatch(d)' = FileMatch(d)
      BY <2>6, <2>7, <2>8
    <3> QED
      BY <3>1, <3>2 DEF FeedGiven
  <2>12. FeedDue \subseteq FeedDue'
    BY <2>4, <2>5, <2>9, <2>10
  <2>13. ASSUME NEW x \in FeedDue' \ FeedDue, NEW d \in FeedDue
         PROVE  d[1] < x[1]
    <3>1. PICK y \in Due(t, n + 1) : x = MatchOf(y)
      BY <2>10, <2>13
    <3>2. PICK z \in Due(s, n) : d = MatchOf(z)
      BY <2>9, <2>13
    <3>3. ~(y[1] <= n)
      BY <2>4, <2>5, <2>9, <2>13, <3>1
    <3>4. y[1] \in Nat /\ z[1] \in 1 .. n
      BY <2>7 DEF Due
    <3> QED
      BY <2>2, <3>1, <3>2, <3>3, <3>4
  <2> QED
    BY <1>1, <2>11, <2>12, <2>13, FeedDueTyped, FeedGrows
<1> QED
  BY <1>1, <1>2, <1>3, <1>4, FileGrows

\* Every step of the tailer is one of the feed, or changes nothing of it.
LEMMA FeedStep ==
    ASSUME FeedInv, FeedInv', [Next]_vars, "truncate" \notin EnvOps
    PROVE  [Feed!FeedNext]_(Feed!feedVars)
<1>1. CASE Examine
  BY <1>1, ExamineRestarts
<1>2. CASE Open
  BY <1>2, OpenRestarts
<1>3. CASE Emit
  BY <1>3, EmitDelivers
<1>4. CASE Publisher
  BY <1>4, PublisherGrows
<1>5. CASE CheckCtx \/ StopWaiting
  <2>1. UNCHANGED <<fd, data, sent, out, cancelled>> /\ pc # "closed"
    BY <1>5 DEF CheckCtx, StopWaiting, dirVars, reader, history
  <2>2. pc' = "closed" => cancelled
    BY <1>5 DEF CheckCtx, StopWaiting, Goto
  <2>3. CASE pc' = "closed"
    BY <2>1, <2>2, <2>3, FeedKept, FeedCloses
  <2>4. CASE pc' # "closed"
    BY <2>1, <2>4, FeedKept, FeedStutters
  <2> QED
    BY <2>3, <2>4
<1>6. CASE PickLatest \/ StartDrain \/ Fill \/ EndOfFile \/ TakeLine \/ AbortEmit \/ Tick
           \/ UNCHANGED vars
  <2>1. UNCHANGED <<fd, data, sent, out, cancelled>>
    BY <1>6 DEF PickLatest, StartDrain, Fill, EndOfFile, TakeLine, AbortEmit, Tick,
                vars, dirVars, reader, history
  <2>2. (pc' = "closed") = (pc = "closed")
    BY <1>6 DEF PickLatest, StartDrain, Fill, EndOfFile, TakeLine, AbortEmit, Tick,
                Goto, vars
  <2> QED
    BY <2>1, <2>2, FeedKept, FeedStutters
<1>7. CASE Receive
  BY <1>7, FeedKept, FeedReceives DEF Receive, dirVars, reader, history
<1>8. CASE Cancel
  BY <1>8, FeedKept, FeedIsCancelled DEF Cancel, dirVars, reader, history
<1> QED
  BY <1>1, <1>2, <1>3, <1>4, <1>5, <1>6, <1>7, <1>8, Zenon DEF Next, Tailer

(***************************************************************************)
(* For every directory without truncation, every set of patterns and every *)
(* channel capacity, the tailer implements LogFeed: what a subscriber sees *)
(* of loop and drain is a feed that delivers a file's matches in order and *)
(* without gaps, starts again only from a file's beginning, and closes     *)
(* only when cancelled.                                                    *)
(***************************************************************************)
THEOREM TailerIsAFeed ==
    ASSUME "truncate" \notin EnvOps
    PROVE  Spec => ImplementsFeed
<1>1. Init => Feed!FeedInit
  <2> SUFFICES ASSUME Init PROVE Feed!FeedInit
    OBVIOUS
  <2>1. FeedDue = {} /\ FeedGiven = {} /\ out = <<>> /\ cancelled = FALSE
    BY DEF Init, FeedDue, FeedGiven, SentSet
  <2>2. (pc = "closed") = FALSE
    BY DEF Init
  <2> QED
    BY <2>1, <2>2, Zenon DEF Feed!FeedInit
<1>2. FeedInv /\ FeedInv' /\ [Next]_vars => [Feed!FeedNext]_(Feed!feedVars)
  BY FeedStep
<1>3. FeedInv /\ [Next]_vars => FeedInv'
  BY FeedNextInv
<1> QED
  BY <1>1, <1>2, <1>3, FeedInitInv, PTL DEF Spec, ImplementsFeed, Feed!FeedSpec

-----------------------------------------------------------------------------
(* Never twice: with no write to an old file and no truncation, the tailer *)
(* moves from file to file and never back.                                 *)

\* The newest files are none older than the one last picked, and a later name
\* has a later inode.
ByName ==
    /\ cur = None => newest = {}
    /\ cur # None => cur \in newest
    /\ \A p \in newest : path <= p /\ p <= cur
    /\ path <= cur
    /\ \A p \in Paths : dir[p] <= inodes /\ (p > cur => dir[p] = None)
    /\ \A p, q \in Paths :
          p < q /\ dir[p] # None /\ dir[q] # None => dir[p] < dir[q]

\* What is under the open file's name or a later one is the open file or a
\* later inode, and what is about to be opened is a later inode.
Onward ==
    /\ fdPath <= path
    /\ fd <= inodes
    /\ fd # None =>
          /\ fdPath # None
          /\ dir[fdPath] # None => fd <= dir[fdPath]
          /\ \A p \in Paths : p > fdPath /\ dir[p] # None => fd < dir[p]
    /\ pc = "open" /\ fd # None /\ path = fdPath => dir[path] # fd

\* Everything sent is of the open file, and then of this epoch, or of an inode
\* that no open can return any more.
Behind ==
    \A t \in ever :
        /\ t[1] <= inodes
        /\ fd # None => t[1] <= fd
        /\ fd # None /\ t[1] = fd => <<t[2], t[3]>> \in SentSet
        /\ fd = None =>
              \A p \in Paths : path <= p /\ dir[p] # None => t[1] < dir[p]

OnceInv == FeedInv /\ ByName /\ Onward /\ Behind

\* The types these facts are about.
LEMMA NameTypes ==
    ASSUME TypeInv
    PROVE  /\ dir \in [Paths -> Inodes \cup {None}]
           /\ newest \in SUBSET Paths
           /\ cur \in Paths \cup {None} /\ inodes \in Nat
           /\ path \in Paths \cup {None} /\ fdPath \in Paths \cup {None}
           /\ fd \in Inodes \cup {None}
           /\ \A t \in ever : t[1] \in Nat
           /\ pc \in {"examine", "open"} => path \in Paths
<1>1. DirTypeOK /\ InDrain
  BY DEF TypeInv, TypeOK
<1>2. /\ path \in Paths \cup {None} /\ fdPath \in Paths \cup {None}
      /\ fd \in Inodes \cup {None}
      /\ ever \in SUBSET (Inodes \X Nat \X Pats)
  BY DEF TypeInv, TypeOK
<1>3. /\ dir \in [Paths -> Inodes \cup {None}]
      /\ newest \in SUBSET Paths
      /\ cur \in Paths \cup {None} /\ inodes \in Nat
  BY <1>1 DEF DirTypeOK
<1>4. \A t \in ever : t[1] \in Nat
  BY <1>2
<1>5. pc \in {"examine", "open"} => path \in Paths
  BY <1>1, <1>2 DEF InDrain
<1> QED
  BY <1>2, <1>3, <1>4, <1>5

\* What the publisher does to the names: files appear under the current name
\* with an inode of their own, or disappear.
NamesMove ==
    /\ inodes <= inodes' /\ inodes' \in Nat
    /\ cur <= cur' /\ cur' \in Paths \cup {None}
    /\ dir' \in [Paths -> Inodes \cup {None}]
    /\ \A p \in Paths : \/ dir'[p] \in {None, dir[p]}
                        \/ p = cur' /\ inodes < dir'[p]

\* When only the newest file is written, the publisher moves names on.
LEMMA PublisherNames ==
    ASSUME TypeInv, TypeInv', ByName, Publisher,
           "late" \notin EnvOps, "truncate" \notin EnvOps
    PROVE  NamesMove /\ ByName'
<1>t. /\ dir \in [Paths -> Inodes \cup {None}]
      /\ newest \in SUBSET Paths
      /\ cur \in Paths \cup {None} /\ inodes \in Nat
      /\ path \in Paths \cup {None}
      /\ path' = path
  BY NameTypes DEF Publisher
<1>u. dir' \in [Paths -> Inodes \cup {None}] /\ inodes' \in Nat
  <2>1. DirTypeOK'
    BY DEF TypeInv, TypeOK
  <2> QED
    BY <2>1 DEF DirTypeOK
<1>1. ASSUME NEW p \in Paths, NEW c \in Cell, WriteTo(p, c)
      PROVE  NamesMove /\ ByName'
  <2>1. p = cur /\ UNCHANGED <<dir, cur, inodes>> /\ cur # None
    BY <1>1, <1>t DEF WriteTo
  <2>2. newest' \in {{cur}, newest \cup {cur}}
    BY <1>1, <2>1 DEF WriteTo, Touch
  <2> QED
    BY <1>t, <1>u, <2>1, <2>2 DEF NamesMove, ByName
<1>2. CASE NewDay
  <2>1. /\ cur' = cur + 1 /\ cur + 1 \in Paths
        /\ inodes' = inodes + 1 /\ inodes + 1 \in Inodes
        /\ dir' = [dir EXCEPT ![cur + 1] = inodes + 1]
        /\ newest' \in {{cur + 1}, newest \cup {cur + 1}}
    BY <1>2 DEF NewDay, Touch
  <2>2. \A p \in Paths : dir'[p] = IF p = cur + 1 THEN inodes + 1 ELSE dir[p]
    BY <1>t, <2>1
  <2>3. NamesMove
    BY <1>t, <1>u, <2>1, <2>2 DEF NamesMove
  <2>4. ByName'
    BY <1>t, <1>u, <2>1, <2>2 DEF ByName
  <2> QED
    BY <2>3, <2>4
<1>3. CASE Replace
  <2>1. /\ cur' = cur /\ cur \in Paths
        /\ inodes' = inodes + 1 /\ inodes + 1 \in Inodes
        /\ dir' = [dir EXCEPT ![cur] = inodes + 1]
        /\ newest' \in {{cur}, newest \cup {cur}}
    BY <1>3, <1>t DEF Replace, Touch
  <2>2. \A p \in Paths : dir'[p] = IF p = cur THEN inodes + 1 ELSE dir[p]
    BY <1>t, <2>1
  <2>3. NamesMove
    BY <1>t, <1>u, <2>1, <2>2 DEF NamesMove
  <2>4. ByName'
    BY <1>t, <1>u, <2>1, <2>2 DEF ByName
  <2> QED
    BY <2>3, <2>4
<1>4. ASSUME NEW p \in Paths, Delete(p) PROVE NamesMove /\ ByName'
  <2>1. /\ UNCHANGED <<cur, inodes>> /\ p # cur /\ dir[p] # None
        /\ dir' = [dir EXCEPT ![p] = None]
    BY <1>4 DEF Delete
  <2>2. \A q \in Paths : dir'[q] = IF q = p THEN None ELSE dir[q]
    BY <1>t, <2>1
  <2>3. cur # None
    BY <1>t, <2>1 DEF ByName
  <2>4. newest' = newest \ {p}
    <3>1. newest # {p}
      BY <2>1, <2>3 DEF ByName
    <3> QED
      BY <1>4, <3>1 DEF Delete
  <2> QED
    BY <1>t, <1>u, <2>1, <2>2, <2>3, <2>4 DEF NamesMove, ByName
<1>5. \A p \in Paths : ~Truncate(p)
  BY Zenon DEF Truncate
<1> QED
  BY <1>1, <1>2, <1>3, <1>4, <1>5, <1>t, Zenon DEF Publisher

\* The publisher cannot bring back what is behind the tailer.
LEMMA PublisherOnce ==
    ASSUME OnceInv, TypeInv', Publisher,
           "late" \notin EnvOps, "truncate" \notin EnvOps
    PROVE  ByName' /\ Onward' /\ Behind'
<1>1. NamesMove /\ ByName'
  BY PublisherNames DEF OnceInv, FeedInv, IInv
<1>2. UNCHANGED <<pc, path, fd, fdPath, sent, ever>> /\ SentSet' = SentSet
  BY DEF Publisher, reader, SentSet
<1>3. /\ path \in Paths \cup {None} /\ fdPath \in Paths \cup {None}
      /\ fd \in Inodes \cup {None} /\ cur \in Paths \cup {None}
      /\ inodes \in Nat /\ \A t \in ever : t[1] \in Nat
      /\ dir \in [Paths -> Inodes \cup {None}]
      /\ pc \in {"examine", "open"} => path \in Paths
  BY NameTypes DEF OnceInv, FeedInv, IInv
<1>4. ByName /\ Onward /\ Behind
  BY DEF OnceInv
<1>5. Onward'
  <2>1. ASSUME fd # None
        PROVE  /\ dir'[fdPath] # None => fd <= dir'[fdPath]
               /\ \A p \in Paths : p > fdPath /\ dir'[p] # None => fd < dir'[p]
    BY <1>1, <1>3, <1>4, <2>1 DEF NamesMove, Onward
  <2>2. ASSUME pc = "open", fd # None, path = fdPath PROVE dir'[path] # fd
    BY <1>1, <1>3, <1>4, <2>2 DEF NamesMove, Onward
  <2>3. fdPath <= path /\ fd <= inodes' /\ (fd # None => fdPath # None)
    BY <1>1, <1>3, <1>4 DEF NamesMove, Onward
  <2> QED
    BY <1>2, <2>1, <2>2, <2>3 DEF Onward
<1>6. Behind'
  <2> SUFFICES ASSUME NEW t \in ever
               PROVE  /\ t[1] <= inodes'
                      /\ fd # None => t[1] <= fd
                      /\ fd # None /\ t[1] = fd => <<t[2], t[3]>> \in SentSet
                      /\ fd = None =>
                            \A p \in Paths : path <= p /\ dir'[p] # None => t[1] < dir'[p]
    BY <1>2 DEF Behind
  <2>1. t[1] \in Nat /\ t[1] <= inodes
    BY <1>3, <1>4 DEF Behind
  <2>2. ASSUME fd = None, NEW p \in Paths, path <= p, dir'[p] # None PROVE t[1] < dir'[p]
    BY <1>1, <1>3, <1>4, <2>1, <2>2 DEF NamesMove, Behind
  <2> QED
    BY <1>1, <1>3, <1>4, <2>1, <2>2 DEF NamesMove, Behind
<1> QED
  BY <1>1, <1>5, <1>6

\* A step that opens nothing, picks nothing and sends nothing.
LEMMA OnceKept ==
    ASSUME OnceInv, UNCHANGED <<dir, newest, cur, inodes, path, fd, fdPath, sent, ever>>,
           pc' # "open"
    PROVE  ByName' /\ Onward' /\ Behind'
<1>1. SentSet' = SentSet
  BY DEF SentSet
<1> QED
  BY <1>1 DEF OnceInv, ByName, Onward, Behind

\* A later file, or the same one, is picked.
LEMMA PickOnce ==
    ASSUME OnceInv, PickLatest
    PROVE  ByName' /\ Onward' /\ Behind'
<1>1. UNCHANGED <<dir, newest, cur, inodes, fd, fdPath, sent, ever>> /\ pc' # "open"
  BY DEF PickLatest, dirVars, reader, history, Goto
<1>2. CASE path' = path
  BY <1>1, <1>2, OnceKept
<1>3. CASE \E p \in Paths : IsLatest(p) /\ path' = p
  <2>1. PICK p \in Paths : p \in newest /\ (\A q \in newest : p <= q) /\ path' = p
    BY <1>3 DEF IsLatest
  <2>2. /\ path \in Paths \cup {None} /\ fdPath \in Paths \cup {None}
        /\ newest \in SUBSET Paths /\ cur \in Paths \cup {None}
    BY NameTypes DEF OnceInv, FeedInv, IInv
  <2>3. path <= path' /\ path' <= cur
    BY <2>1, <2>2 DEF OnceInv, ByName
  <2>4. ByName'
    BY <1>1, <2>1, <2>2, <2>3 DEF OnceInv, ByName
  <2>5. Onward'
    BY <1>1, <2>1, <2>2, <2>3 DEF OnceInv, Onward
  <2>6. Behind'
    <3>1. SentSet' = SentSet
      BY <1>1 DEF SentSet
    <3>2. \A q \in Paths : path' <= q => path <= q
      BY <2>1, <2>2, <2>3
    <3> QED
      BY <1>1, <3>1, <3>2 DEF OnceInv, Behind
  <2> QED
    BY <2>4, <2>5, <2>6
<1> QED
  BY <1>2, <1>3 DEF PickLatest

\* Only a later inode is opened under the name already open; and nothing is
\* read again from its start, since no file gets shorter.
LEMMA ExamineOnce ==
    ASSUME OnceInv, Examine
    PROVE  ByName' /\ Onward' /\ Behind' /\ sent' = sent
<1>1. UNCHANGED <<dir, newest, cur, inodes, path, fd, fdPath>>
  BY DEF Examine, dirVars, reader
<1>2. UNCHANGED history
  <2>1. ~(fd # None /\ Len(data[fd]) < off)
    <3> SUFFICES ASSUME fd # None PROVE ~(Len(data[fd]) < off)
      OBVIOUS
    <3>1. off \in 0 .. Len(data[fd]) /\ Len(data[fd]) \in Nat
      BY OwedConsumed, OpenFile DEF OnceInv, FeedInv, IInv
    <3> QED
      BY <3>1
  <2> QED
    BY <2>1 DEF Examine
<1>3. UNCHANGED <<sent, ever>> /\ SentSet' = SentSet
  BY <1>2 DEF history, SentSet
<1>4. pc' = "open" /\ fd # None /\ path = fdPath => dir[path] # fd
  BY DEF Examine, Goto
<1> QED
  BY <1>1, <1>3, <1>4 DEF OnceInv, ByName, Onward, Behind

\* Opening leaves everything sent so far behind.
LEMMA OpenOnce ==
    ASSUME OnceInv, Open
    PROVE  ByName' /\ Onward' /\ Behind'
<1>t. /\ path \in Paths /\ fdPath \in Paths \cup {None}
      /\ fd \in Inodes \cup {None} /\ cur \in Paths \cup {None}
      /\ inodes \in Nat /\ \A t \in ever : t[1] \in Nat
      /\ dir \in [Paths -> Inodes \cup {None}]
  BY NameTypes DEF OnceInv, FeedInv, IInv, Open
<1>1. UNCHANGED <<dir, newest, cur, inodes, path, ever>> /\ pc' = "drain" /\ pc = "open"
  BY DEF Open, dirVars, FromStart, NewEpoch, Goto
<1>2. ByName'
  BY <1>1 DEF OnceInv, ByName
<1>3. ASSUME NEW t \in ever, NEW p \in Paths, path <= p, dir[p] # None
      PROVE  t[1] < dir[p]
  <2>1. CASE fd = None
    BY <1>3, <2>1 DEF OnceInv, Behind
  <2>2. CASE fd # None
    <3>1. t[1] \in Nat /\ t[1] <= fd /\ fdPath <= path /\ dir[p] \in Inodes
      BY <1>t, <1>3, <2>2 DEF OnceInv, Behind, Onward
    <3>2. fd < dir[p]
      <4>1. CASE p > fdPath
        BY <1>3, <2>2, <4>1 DEF OnceInv, Onward
      <4>2. CASE ~(p > fdPath)
        <5>1. p = fdPath /\ p = path
          BY <1>t, <1>3, <3>1, <4>2
        <5> QED
          BY <1>t, <1>1, <1>3, <2>2, <3>1, <5>1 DEF OnceInv, Onward
      <4> QED
        BY <4>1, <4>2
    <3> QED
      BY <1>t, <3>1, <3>2
  <2> QED
    BY <2>1, <2>2
<1>4. CASE fd' = dir[path] /\ fdPath' = path /\ dir[path] # None
  <2>1. fd' \in Inodes /\ fd' <= inodes
    BY <1>t, <1>4 DEF OnceInv, ByName
  <2>2. Onward'
    <3>1. \A p \in Paths : p > path /\ dir[p] # None => dir[path] < dir[p]
      BY <1>t, <1>4 DEF OnceInv, ByName
    <3> QED
      BY <1>t, <1>1, <1>4, <2>1, <3>1 DEF Onward
  <2>3. \A t \in ever : t[1] \in Nat /\ t[1] < fd' /\ t[1] <= inodes
    <3>1. path <= path
      BY <1>t
    <3> QED
      BY <1>t, <1>3, <1>4, <3>1 DEF OnceInv, Behind
  <2>4. Behind'
    BY <1>1, <1>t, <2>1, <2>3 DEF Behind
  <2> QED
    BY <1>2, <2>2, <2>4
<1>5. CASE fd' = None /\ fdPath' = fdPath
  <2>1. Onward'
    BY <1>t, <1>1, <1>5 DEF OnceInv, Onward
  <2>2. Behind'
    BY <1>1, <1>3, <1>5 DEF OnceInv, Behind
  <2> QED
    BY <1>2, <2>1, <2>2
<1> QED
  BY <1>4, <1>5 DEF Open, FromStart

\* What is sent is behind no longer only because it is of this epoch; and it
\* was not sent before.
LEMMA EmitOnce ==
    ASSUME OnceInv, Emit
    PROVE  ByName' /\ Onward' /\ Behind' /\ ever' # ever
<1>1. /\ UNCHANGED <<dir, newest, cur, inodes, path, fd, fdPath>>
      /\ fd # None /\ pc' # "open"
  BY DEF Emit, dirVars, reader, Goto, OnceInv, FeedInv, IInv, TypeInv, InDrain
<1>2. PICK m \in todo :
        /\ sent' = Append(sent, <<off, m.pat>>)
        /\ ever' = ever \cup {<<fd, off, m.pat>>}
  BY DEF Emit
<1>3. /\ sent \in Seq(Nat \X Pats) /\ off \in Nat /\ m \in Match /\ fd \in Inodes
      /\ fd <= inodes
  BY <1>1, OpenFile DEF OnceInv, FeedInv, IInv, Onward
<1>4. m.pat \in Pats /\ <<off, m.pat>> \in Nat \X Pats
  BY <1>3 DEF Match
<1>5. SentSet' = SentSet \cup {<<off, m.pat>>}
  <2> DEFINE n == Len(sent)
  <2>1. /\ n \in Nat /\ DOMAIN sent = 1 .. n /\ DOMAIN sent' = 1 .. n + 1
        /\ sent'[n + 1] = <<off, m.pat>>
        /\ \A k \in 1 .. n : sent'[k] = sent[k]
    BY <1>2, <1>3, <1>4, AppendProperties
  <2> HIDE DEF n
  <2>2. 1 .. n + 1 = (1 .. n) \cup {n + 1}
    BY <2>1
  <2>3. {sent'[k] : k \in 1 .. n} = {sent[k] : k \in 1 .. n}
    BY <2>1
  <2>4. SentSet' = {sent'[k] : k \in (1 .. n) \cup {n + 1}}
    BY <2>1, <2>2, Zenon DEF SentSet
  <2>5. SentSet = {sent[k] : k \in 1 .. n}
    BY <2>1, Zenon DEF SentSet
  <2> QED
    BY <2>1, <2>3, <2>4, <2>5, Zenon
<1>6. <<fd, off, m.pat>> \notin ever
  <2> SUFFICES ASSUME <<fd, off, m.pat>> \in ever PROVE FALSE
    OBVIOUS
  <2>1. <<off, m.pat>> \in SentSet
    BY <1>1 DEF OnceInv, Behind
  <2>2. <<off, m.pat>> \in Owed
    BY DEF Owed
  <2>3. Earlier(<<off, m.pat>>, <<off, m.pat>>)
    BY <1>1, <2>1, <2>2, OwedConsumed DEF OnceInv
  <2> QED
    BY <1>3, <1>4, <2>3 DEF Earlier
<1>7. ByName' /\ Onward'
  BY <1>1 DEF OnceInv, ByName, Onward
<1>8. Behind'
  <2> SUFFICES ASSUME NEW t \in ever'
               PROVE  /\ t[1] <= inodes
                      /\ t[1] <= fd
                      /\ t[1] = fd => <<t[2], t[3]>> \in SentSet'
    BY <1>1 DEF Behind
  <2>1. CASE t \in ever
    BY <1>1, <1>5, <2>1 DEF OnceInv, Behind
  <2>2. CASE t = <<fd, off, m.pat>>
    BY <1>3, <1>5, <2>2
  <2> QED
    BY <1>2, <2>1, <2>2
<1> QED
  BY <1>2, <1>6, <1>7, <1>8

\* Only Emit makes the record of what was sent longer.
LEMMA OnlyEmitSends ==
    ASSUME OnceInv, [Next]_vars, ~Emit
    PROVE  sent' = sent \/ sent' = <<>>
<1>1. CASE Examine
  BY <1>1, ExamineOnce
<1>2. CASE Open
  BY <1>2 DEF Open, FromStart, NewEpoch
<1>3. CASE CheckCtx \/ PickLatest \/ StartDrain \/ Fill \/ EndOfFile \/ TakeLine
           \/ AbortEmit \/ Tick \/ StopWaiting
  BY <1>3 DEF CheckCtx, PickLatest, StartDrain, Fill, EndOfFile, TakeLine, AbortEmit,
              Tick, StopWaiting, history
<1>4. CASE Receive \/ Cancel \/ Publisher \/ UNCHANGED vars
  BY <1>4 DEF Receive, Cancel, Publisher, vars, history
<1> QED
  BY <1>1, <1>2, <1>3, <1>4, Zenon DEF Next, Tailer

\* Nothing was ever sent.
LEMMA OnceInit == Init => OnceInv
<1> SUFFICES ASSUME Init PROVE OnceInv
  OBVIOUS
<1>1. FeedInv
  BY FeedInitInv
<1>2. ByName /\ Onward /\ Behind
  BY DEF Init, DirInit, ByName, Onward, Behind
<1> QED
  BY <1>1, <1>2 DEF OnceInv

\* Every step keeps it.
LEMMA OnceNext ==
    ASSUME "late" \notin EnvOps, "truncate" \notin EnvOps
    PROVE  OnceInv /\ [Next]_vars => OnceInv'
<1> SUFFICES ASSUME OnceInv, [Next]_vars PROVE OnceInv'
  OBVIOUS
<1>1. FeedInv' /\ TypeInv'
  BY FeedNextInv DEF OnceInv, FeedInv, IInv
<1> SUFFICES ByName' /\ Onward' /\ Behind'
  BY <1>1 DEF OnceInv
<1>2. CASE PickLatest
  BY <1>2, PickOnce
<1>3. CASE Examine
  BY <1>3, ExamineOnce
<1>4. CASE Open
  BY <1>4, OpenOnce
<1>5. CASE Emit
  BY <1>5, EmitOnce
<1>6. CASE CheckCtx \/ StartDrain \/ Fill \/ EndOfFile \/ TakeLine \/ AbortEmit \/ Tick
           \/ StopWaiting
  <2>1. UNCHANGED <<dir, newest, cur, inodes, path, fd, fdPath, sent, ever>> /\ pc' # "open"
    BY <1>6 DEF CheckCtx, StartDrain, Fill, EndOfFile, TakeLine, AbortEmit, Tick,
                StopWaiting, dirVars, reader, history, Goto
  <2> QED
    BY <2>1, OnceKept
<1>7. CASE Receive \/ Cancel \/ UNCHANGED vars
  <2>1. /\ UNCHANGED <<dir, newest, cur, inodes, path, fd, fdPath, sent, ever, pc>>
        /\ SentSet' = SentSet
    BY <1>7 DEF Receive, Cancel, vars, dirVars, reader, history, SentSet
  <2> QED
    BY <2>1 DEF OnceInv, ByName, Onward, Behind
<1>8. CASE Publisher
  BY <1>1, <1>8, PublisherOnce
<1> QED
  BY <1>2, <1>3, <1>4, <1>5, <1>6, <1>7, <1>8, Zenon DEF Next, Tailer

(***************************************************************************)
(* The match of a line is sent at most once in the tailer's life, through  *)
(* every rotation by a new day or a new file under the same name, every    *)
(* deletion and every failing call, as long as nobody writes to a file     *)
(* that is not the current one or empties a file.                          *)
(***************************************************************************)
THEOREM SendsNeverTwice ==
    ASSUME "late" \notin EnvOps, "truncate" \notin EnvOps
    PROVE  Spec => NeverTwice
<1>1. OnceInv /\ [Next]_vars => (Len(sent') > Len(sent) => ever' # ever)
  <2> SUFFICES ASSUME OnceInv, [Next]_vars, Len(sent') > Len(sent) PROVE ever' # ever
    OBVIOUS
  <2>1. CASE Emit
    BY <2>1, EmitOnce
  <2>2. CASE ~Emit
    <3>1. sent \in Seq(Nat \X Pats) /\ Len(sent) \in Nat
      BY DEF OnceInv, FeedInv, IInv, TypeInv, TypeOK
    <3>2. sent' = sent \/ sent' = <<>>
      BY <2>2, OnlyEmitSends
    <3> QED
      BY <3>1, <3>2
  <2> QED
    BY <2>1, <2>2
<1>2. OnceInv /\ [Next]_vars => [Len(sent') > Len(sent) => ever' # ever]_vars
  BY <1>1
<1> QED
  BY <1>2, OnceInit, OnceNext, PTL DEF Spec, NeverTwice
=============================================================================
