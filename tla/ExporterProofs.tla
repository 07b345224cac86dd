--------------------------- MODULE ExporterProofs ---------------------------
(***************************************************************************)
(* What holds of the exporter's life for every configuration it is started *)
(* with, every page size and every number of scrapes, in three parts:      *)
(*                                                                         *)
(* - Load: the two loops over a list that configuration comes from, by     *)
(*   induction over the positions, and what they make of every environment *)
(*   (TargetsResolved, PatternsThere);                                     *)
(* - the two Slack collectors, in lemmas about steps, so that they serve   *)
(*   alone (SlackInvariant) and inside the exporter;                       *)
(* - main, the server and the signal, around them (the other theorems).    *)
(***************************************************************************)
EXTENDS Exporter, TLAPS, BoundedSets, SequenceTheorems

-----------------------------------------------------------------------------
(* Folds over a list, by position.                                         *)

\* it folds the positions 1 .. n of a list from the left; g says what the
\* element at a position makes of what is accumulated.
IsFold(it, A, b, n, g) ==
    /\ it \in [SUBSET (1 .. n) -> A]
    /\ it[{}] = b
    /\ \A T \in SUBSET (1 .. n) :
          T # {} => it[T] = g[<<it[T \ {Max(T)}], Max(T)>>]

\* One more position.
LEMMA FoldExtends ==
    ASSUME NEW A, NEW b \in A, NEW n \in Nat, NEW g \in [A \X (1 .. n) -> A],
           NEW m \in 1 .. n, NEW it, IsFold(it, A, b, m - 1, g)
    PROVE  \E jt : IsFold(jt, A, b, m, g)
<1> DEFINE jt == [T \in SUBSET (1 .. m) |->
                    IF m \in T THEN g[<<it[T \ {m}], m>>] ELSE it[T]]
<1>1. /\ it \in [SUBSET (1 .. m - 1) -> A]
      /\ it[{}] = b
      /\ \A T \in SUBSET (1 .. m - 1) :
            T # {} => it[T] = g[<<it[T \ {Max(T)}], Max(T)>>]
  BY Zenon DEF IsFold
<1>2. \A T \in SUBSET (1 .. m) : T \ {m} \in SUBSET (1 .. m - 1)
  OBVIOUS
<1>3. \A T \in SUBSET (1 .. m) : m \notin T => T \in SUBSET (1 .. m - 1)
  OBVIOUS
<1>4. jt \in [SUBSET (1 .. m) -> A]
  <2> SUFFICES ASSUME NEW T \in SUBSET (1 .. m)
               PROVE  (IF m \in T THEN g[<<it[T \ {m}], m>>] ELSE it[T]) \in A
    OBVIOUS
  <2>1. it[T \ {m}] \in A
    BY <1>1, <1>2
  <2> QED
    BY <1>1, <1>3, <2>1
<1>5. jt[{}] = b
  BY <1>1, {} \in SUBSET (1 .. m)
<1>6. ASSUME NEW T \in SUBSET (1 .. m), T # {}
      PROVE  jt[T] = g[<<jt[T \ {Max(T)}], Max(T)>>]
  <2>1. CASE m \in T
    <3>1. Max(T) = m
      <4>1. T \in SUBSET Nat /\ \A k \in T : k <= m
        OBVIOUS
      <4> QED
        BY <2>1, <4>1, MaxIs
    <3>2. jt[T \ {m}] = it[T \ {m}]
      <4>1. T \ {m} \in SUBSET (1 .. m) /\ m \notin T \ {m}
        OBVIOUS
      <4> QED
        BY <4>1
    <3>3. jt[T] = g[<<it[T \ {m}], m>>]
      BY <2>1
    <3> QED
      BY <3>1, <3>2, <3>3, Zenon
  <2>2. CASE m \notin T
    <3> DEFINE x == Max(T)
    <3>1. T \in SUBSET (1 .. m - 1) /\ jt[T] = it[T]
      BY <1>3, <2>2
    <3>2. it[T] = g[<<it[T \ {x}], x>>]
      BY <1>1, <1>6, <3>1
    <3>3. jt[T \ {x}] = it[T \ {x}]
      <4>1. T \ {x} \in SUBSET (1 .. m) /\ m \notin T \ {x}
        BY <2>2
      <4> HIDE DEF x
      <4> QED
        BY <4>1
    <3> HIDE DEF jt
    <3> QED
      BY <3>1, <3>2, <3>3
  <2> QED
    BY <2>1, <2>2
<1> HIDE DEF jt
<1> QED
  BY <1>4, <1>5, <1>6, Zenon DEF IsFold

\* The recursion of a fold is well defined.
LEMMA FoldExists ==
    ASSUME NEW A, NEW b \in A, NEW n \in Nat, NEW g \in [A \X (1 .. n) -> A]
    PROVE  \E it : IsFold(it, A, b, n, g)
<1> DEFINE Good == {m \in 0 .. n : \E it : IsFold(it, A, b, m, g)}
<1>1. 0 \in Good
  <2> DEFINE it == [T \in SUBSET (1 .. 0) |-> b]
  <2>1. \A T \in SUBSET (1 .. 0) : T = {}
    OBVIOUS
  <2>2. it \in [SUBSET (1 .. 0) -> A] /\ it[{}] = b
    OBVIOUS
  <2> HIDE DEF it
  <2>3. IsFold(it, A, b, 0, g)
    BY <2>1, <2>2, Zenon DEF IsFold
  <2>4. 0 \in 0 .. n
    OBVIOUS
  <2> QED
    BY <2>3, <2>4, Zenon
<1>2. ASSUME NEW m \in 1 .. n, m - 1 \in Good PROVE m \in Good
  <2>1. PICK it : IsFold(it, A, b, m - 1, g)
    BY <1>2, Zenon
  <2>2. \E jt : IsFold(jt, A, b, m, g)
    BY <2>1, FoldExtends
  <2>3. m \in 0 .. n
    OBVIOUS
  <2> QED
    BY <2>2, <2>3, Zenon
<1>3. n \in 0 .. n
  OBVIOUS
<1>4. n \in Good
  <2> HIDE DEF Good
  <2> QED
    BY <1>1, <1>2, <1>3, UpTo
<1> QED
  BY <1>4, Zenon

\* The first k positions.
LEMMA FirstPositions ==
    ASSUME NEW n \in Nat, NEW k \in 1 .. n
    PROVE  /\ 1 .. k \in SUBSET (1 .. n) /\ 1 .. k # {}
           /\ (1 .. k) \ {k} = 1 .. k - 1
           /\ Max(1 .. k) = k
<1>1. k \in 1 .. k /\ 1 .. k \in SUBSET Nat /\ \A j \in 1 .. k : j <= k
  OBVIOUS
<1>2. Max(1 .. k) = k
  BY <1>1, MaxIs
<1>3. 1 .. k \in SUBSET (1 .. n) /\ 1 .. k # {} /\ (1 .. k) \ {k} = 1 .. k - 1
  BY <1>1
<1> QED
  BY <1>2, <1>3

-----------------------------------------------------------------------------
(* What Load makes of the lists.                                           *)

\* A path: the provers do not know of a literal that it is a string.
Path == STRING \cup {Default}

Targets == [AllComponents -> Path]
TargetPair == [name : STRING, path : STRING]

\* The map of targets is made by going through the pairs in order.
LEMMA TargetsInOrder ==
    ASSUME NEW b \in Targets, NEW s \in Seq(TargetPair)
    PROVE  \E h : /\ h \in [0 .. Len(s) -> Targets]
                  /\ h[0] = b
                  /\ \A k \in 1 .. Len(s) : h[k] = SetTarget(h[k - 1], s[k])
                  /\ FoldLeft(SetTarget, b, s) = h[Len(s)]
<1> DEFINE n == Len(s)
           g == [c \in Targets \X (1 .. n) |-> SetTarget(c[1], s[c[2]])]
           Recursion(it) ==
             it = [T \in SUBSET (1 .. n) |->
                     IF T = {} THEN b ELSE SetTarget(it[T \ {Max(T)}], s[Max(T)])]
           It == CHOOSE it : Recursion(it)
<1>1. n \in Nat /\ DOMAIN s = 1 .. n /\ \A k \in 1 .. n : s[k] \in TargetPair
  OBVIOUS
<1>2. ASSUME NEW a \in Targets, NEW e \in TargetPair PROVE SetTarget(a, e) \in Targets
  BY DEF Targets, TargetPair, Path, SetTarget
<1> HIDE DEF n
<1>3. FoldLeft(SetTarget, b, s) = It[1 .. n]
  BY <1>1 DEF FoldLeft, MapThenFoldSet
<1>4. \E it : Recursion(it)
  <2>1. g \in [Targets \X (1 .. n) -> Targets]
    BY <1>1, <1>2
  <2>2. PICK it : IsFold(it, Targets, b, n, g)
    <3> HIDE DEF g
    <3> QED
      BY <1>1, <2>1, FoldExists
  <2>3. /\ it \in [SUBSET (1 .. n) -> Targets]
        /\ it[{}] = b
        /\ \A T \in SUBSET (1 .. n) :
              T # {} => it[T] = g[<<it[T \ {Max(T)}], Max(T)>>]
    BY <2>2, Zenon DEF IsFold
  <2>4. ASSUME NEW T \in SUBSET (1 .. n), T # {}
        PROVE  it[T] = SetTarget(it[T \ {Max(T)}], s[Max(T)])
    <3> DEFINE x == Max(T)
    <3>1. PICK y \in T : \A z \in T : z <= y
      <4>1. T \in SUBSET (0 .. n)
        BY <1>1
      <4> QED
        BY ONLY <1>1, <2>4, <4>1, LargestOf
    <3>2. x = y
      BY <1>1, <3>1, MaxIs, T \in SUBSET Nat
    <3>3. it[T] = g[<<it[T \ {x}], x>>] /\ it[T \ {x}] \in Targets
      BY <2>3, <2>4, T \ {x} \in SUBSET (1 .. n)
    <3> HIDE DEF x
    <3>4. <<it[T \ {x}], x>> \in Targets \X (1 .. n)
      BY <3>1, <3>2, <3>3
    <3> QED
      BY <3>3, <3>4 DEF x
  <2>5. Recursion(it)
    BY <2>3, <2>4
  <2> QED
    BY <2>5
<1>5. Recursion(It)
  <2> HIDE DEF Recursion
  <2> QED
    BY <1>4, Zenon
<1> HIDE DEF It, g
<1> DEFINE h == [k \in 0 .. n |-> It[1 .. k]]
<1>7. h[0] = b /\ h[n] = It[1 .. n]
  <2>1. 1 .. 0 = {} /\ 0 \in 0 .. n /\ n \in 0 .. n /\ {} \in SUBSET (1 .. n)
    BY <1>1
  <2>2. It[{}] = b
    BY <1>5, <2>1
  <2> QED
    BY <2>1, <2>2
<1>8. ASSUME NEW k \in 1 .. n PROVE h[k] = SetTarget(h[k - 1], s[k])
  <2>1. /\ 1 .. k \in SUBSET (1 .. n) /\ 1 .. k # {}
        /\ (1 .. k) \ {k} = 1 .. k - 1
        /\ Max(1 .. k) = k
    BY <1>1, FirstPositions
  <2>2. It[1 .. k] = SetTarget(It[(1 .. k) \ {Max(1 .. k)}], s[Max(1 .. k)])
    BY <1>5, <2>1
  <2>3. It[1 .. k] = SetTarget(It[1 .. k - 1], s[k])
    BY <2>1, <2>2, Zenon
  <2>4. k \in 0 .. n /\ k - 1 \in 0 .. n
    BY <1>1
  <2> QED
    BY <2>3, <2>4
<1>9. \A k \in 0 .. n : h[k] \in Targets
  <2> DEFINE Typed == {k \in 0 .. n : h[k] \in Targets}
  <2>1. 0 \in Typed
    BY <1>1, <1>7
  <2>2. ASSUME NEW k \in 1 .. n, k - 1 \in Typed PROVE k \in Typed
    <3>1. k - 1 \in 0 .. n /\ k \in 0 .. n /\ h[k - 1] \in Targets /\ s[k] \in TargetPair
      BY <1>1, <2>2
    <3>2. h[k] = SetTarget(h[k - 1], s[k])
      BY <1>8
    <3> HIDE DEF h
    <3> QED
      BY <1>2, <3>1, <3>2
  <2>3. \A k \in 0 .. n : k \in Typed
    <3> HIDE DEF Typed, Recursion
    <3> QED
      BY <1>1, <2>1, <2>2, UpTo
  <2> QED
    BY <2>3
<1>10. h \in [0 .. n -> Targets]
  BY <1>9
<1> HIDE DEF h
<1> QED
  BY <1>3, <1>7, <1>8, <1>10 DEF n

\* A list is stripped of what is blank in one pass.
LEMMA KeptInOrder ==
    ASSUME NEW b \in Seq(STRING), NEW s \in Seq(STRING)
    PROVE  \E h : /\ h \in [0 .. Len(s) -> Seq(STRING)]
                  /\ h[0] = b
                  /\ \A k \in 1 .. Len(s) : h[k] = KeepNonBlank(h[k - 1], s[k])
                  /\ FoldLeft(KeepNonBlank, b, s) = h[Len(s)]
<1> DEFINE n == Len(s)
           g == [c \in Seq(STRING) \X (1 .. n) |-> KeepNonBlank(c[1], s[c[2]])]
           Recursion(it) ==
             it = [T \in SUBSET (1 .. n) |->
                     IF T = {} THEN b ELSE KeepNonBlank(it[T \ {Max(T)}], s[Max(T)])]
           It == CHOOSE it : Recursion(it)
<1>1. n \in Nat /\ DOMAIN s = 1 .. n /\ \A k \in 1 .. n : s[k] \in STRING
  OBVIOUS
<1>2. ASSUME NEW a \in Seq(STRING), NEW e \in STRING PROVE KeepNonBlank(a, e) \in Seq(STRING)
  BY AppendProperties DEF KeepNonBlank
<1> HIDE DEF n
<1>3. FoldLeft(KeepNonBlank, b, s) = It[1 .. n]
  BY <1>1 DEF FoldLeft, MapThenFoldSet
<1>4. \E it : Recursion(it)
  <2>1. g \in [Seq(STRING) \X (1 .. n) -> Seq(STRING)]
    BY <1>1, <1>2
  <2>2. PICK it : IsFold(it, Seq(STRING), b, n, g)
    <3> HIDE DEF g
    <3> QED
      BY <1>1, <2>1, FoldExists
  <2>3. /\ it \in [SUBSET (1 .. n) -> Seq(STRING)]
        /\ it[{}] = b
        /\ \A T \in SUBSET (1 .. n) :
              T # {} => it[T] = g[<<it[T \ {Max(T)}], Max(T)>>]
    BY <2>2, Zenon DEF IsFold
  <2>4. ASSUME NEW T \in SUBSET (1 .. n), T # {}
        PROVE  it[T] = KeepNonBlank(it[T \ {Max(T)}], s[Max(T)])
    <3> DEFINE x == Max(T)
    <3>1. PICK y \in T : \A z \in T : z <= y
      <4>1. T \in SUBSET (0 .. n)
        BY <1>1
      <4> QED
        BY ONLY <1>1, <2>4, <4>1, LargestOf
    <3>2. x = y
      BY <1>1, <3>1, MaxIs, T \in SUBSET Nat
    <3>3. it[T] = g[<<it[T \ {x}], x>>] /\ it[T \ {x}] \in Seq(STRING)
      BY <2>3, <2>4, T \ {x} \in SUBSET (1 .. n)
    <3> HIDE DEF x
    <3>4. <<it[T \ {x}], x>> \in Seq(STRING) \X (1 .. n)
      BY <3>1, <3>2, <3>3
    <3> QED
      BY <3>3, <3>4 DEF x
  <2>5. Recursion(it)
    BY <2>3, <2>4
  <2> QED
    BY <2>5
<1>5. Recursion(It)
  <2> HIDE DEF Recursion
  <2> QED
    BY <1>4, Zenon
<1> HIDE DEF It, g
<1> DEFINE h == [k \in 0 .. n |-> It[1 .. k]]
<1>7. h[0] = b /\ h[n] = It[1 .. n]
  <2>1. 1 .. 0 = {} /\ 0 \in 0 .. n /\ n \in 0 .. n /\ {} \in SUBSET (1 .. n)
    BY <1>1
  <2>2. It[{}] = b
    BY <1>5, <2>1
  <2> QED
    BY <2>1, <2>2
<1>8. ASSUME NEW k \in 1 .. n PROVE h[k] = KeepNonBlank(h[k - 1], s[k])
  <2>1. /\ 1 .. k \in SUBSET (1 .. n) /\ 1 .. k # {}
        /\ (1 .. k) \ {k} = 1 .. k - 1
        /\ Max(1 .. k) = k
    BY <1>1, FirstPositions
  <2>2. It[1 .. k] = KeepNonBlank(It[(1 .. k) \ {Max(1 .. k)}], s[Max(1 .. k)])
    BY <1>5, <2>1
  <2>3. It[1 .. k] = KeepNonBlank(It[1 .. k - 1], s[k])
    BY <2>1, <2>2, Zenon
  <2>4. k \in 0 .. n /\ k - 1 \in 0 .. n
    BY <1>1
  <2> QED
    BY <2>3, <2>4
<1>9. \A k \in 0 .. n : h[k] \in Seq(STRING)
  <2> DEFINE Typed == {k \in 0 .. n : h[k] \in Seq(STRING)}
  <2>1. 0 \in Typed
    BY <1>1, <1>7
  <2>2. ASSUME NEW k \in 1 .. n, k - 1 \in Typed PROVE k \in Typed
    <3>1. k - 1 \in 0 .. n /\ k \in 0 .. n /\ h[k - 1] \in Seq(STRING) /\ s[k] \in STRING
      BY <1>1, <2>2
    <3>2. h[k] = KeepNonBlank(h[k - 1], s[k])
      BY <1>8
    <3> HIDE DEF h
    <3> QED
      BY <1>2, <3>1, <3>2
  <2>3. \A k \in 0 .. n : k \in Typed
    <3> HIDE DEF Typed, Recursion
    <3> QED
      BY <1>1, <2>1, <2>2, UpTo
  <2> QED
    BY <2>3
<1>10. h \in [0 .. n -> Seq(STRING)]
  BY <1>9
<1> HIDE DEF h
<1> QED
  BY <1>3, <1>7, <1>8, <1>10 DEF n

\* What is left of a list has no blank in it.
LEMMA NothingBlank ==
    ASSUME NEW list \in Seq(STRING)
    PROVE  /\ NonBlank(list) \in Seq(STRING)
           /\ Unset \notin ToSet(NonBlank(list))
<1> DEFINE n == Len(list)
<1>1. n \in Nat /\ <<>> \in Seq(STRING) /\ \A k \in 1 .. n : list[k] \in STRING
  OBVIOUS
<1>2. PICK h : /\ h \in [0 .. n -> Seq(STRING)]
               /\ h[0] = <<>>
               /\ \A k \in 1 .. n : h[k] = KeepNonBlank(h[k - 1], list[k])
               /\ FoldLeft(KeepNonBlank, <<>>, list) = h[n]
  BY <1>1, KeptInOrder
<1> HIDE DEF n
<1> DEFINE Clean == {k \in 0 .. n : Unset \notin ToSet(h[k])}
<1>3. 0 \in Clean
  BY <1>1, <1>2 DEF ToSet
<1>4. ASSUME NEW k \in 1 .. n, k - 1 \in Clean PROVE k \in Clean
  <2>1. /\ k - 1 \in 0 .. n /\ k \in 0 .. n /\ list[k] \in STRING
        /\ h[k] = KeepNonBlank(h[k - 1], list[k])
        /\ Unset \notin ToSet(h[k - 1])
    BY <1>1, <1>2, <1>4
  <2>2. h[k - 1] \in Seq(STRING)
    BY <1>2, <2>1
  <2>3. CASE list[k] = Unset
    BY <2>1, <2>3 DEF KeepNonBlank
  <2>4. CASE list[k] # Unset
    <3> DEFINE s == h[k - 1]
               r == Append(s, list[k])
    <3>1. s \in Seq(STRING) /\ h[k] = r
      BY <2>1, <2>2, <2>4 DEF KeepNonBlank
    <3> HIDE DEF s
    <3>2. /\ Len(s) \in Nat /\ DOMAIN r = 1 .. Len(s) + 1 /\ DOMAIN s = 1 .. Len(s)
          /\ r[Len(s) + 1] = list[k]
          /\ \A j \in 1 .. Len(s) : r[j] = s[j]
      BY <2>1, <3>1, AppendProperties
    <3>3. \A j \in 1 .. Len(s) : s[j] # Unset
      BY <2>1, <3>2 DEF ToSet, s
    <3> HIDE DEF r
    <3>4. \A j \in DOMAIN r : r[j] # Unset
      BY <2>4, <3>2, <3>3
    <3> QED
      BY <2>1, <3>1, <3>4 DEF ToSet
  <2> QED
    BY <2>3, <2>4
<1>5. n \in Clean
  <2>1. \A k \in 0 .. n : k \in Clean
    <3> HIDE DEF Clean
    <3> QED
      BY <1>1, <1>3, <1>4, UpTo
  <2> QED
    BY <1>1, <2>1
<1>6. n \in 0 .. n /\ NonBlank(list) = h[n]
  BY <1>1, <1>2 DEF NonBlank
<1> QED
  BY <1>2, <1>5, <1>6

\* Every list of patterns holds one, and no blank one.
LEMMA PatternsThere ==
    ASSUME NEW e \in Environment, NEW k \in PatternKinds
    PROVE  /\ Patterns(e)[k] # <<>>
           /\ Unset \notin ToSet(Patterns(e)[k])
<1> DEFINE raw == IF k = "provider_fail" THEN Coalesce(e.patterns[k], e.disagreement)
                  ELSE e.patterns[k]
<1>1. raw \in Seq(STRING)
  BY DEF Environment, Coalesce
<1>2. Patterns(e)[k] = SplitOrDefault(raw)
  BY DEF Patterns
<1> HIDE DEF raw
<1>3. CASE NonBlank(raw) = <<>>
  <2>1. Patterns(e)[k] = <<Default>>
    BY <1>2, <1>3 DEF SplitOrDefault
  <2>2. ToSet(<<Default>>) = {Default} /\ <<Default>> # <<>>
    BY DEF ToSet
  <2>3. Default # Unset
    BY DEF Default, Unset
  <2> QED
    BY <2>1, <2>2, <2>3
<1>4. CASE NonBlank(raw) # <<>>
  <2>1. Patterns(e)[k] = NonBlank(raw)
    BY <1>2, <1>4 DEF SplitOrDefault
  <2> QED
    BY <1>1, <1>4, <2>1, NothingBlank
<1> QED
  BY <1>3, <1>4

\* The last usable pair of a component decides.
LEMMA TargetsResolved ==
    ASSUME NEW e \in Environment, NEW c \in AllComponents
    PROVE  /\ BinaryTargets(e)[c] = ResolvedTarget(e, c)
           /\ BinaryTargets(e)[c] # Unset
<1> DEFINE s == e.targets
           n == Len(s)
           b == [d \in AllComponents |->
                    IF d = "visor" THEN OrDefault(e.legacy) ELSE Default]
           Usable(k) == {j \in 1 .. k : s[j].name = c /\ s[j].path # Unset}
           Value(k) == IF Usable(k) # {} THEN s[Max(Usable(k))].path ELSE b[c]
<1>1. /\ s \in Seq(TargetPair) /\ n \in Nat /\ DOMAIN s = 1 .. n
      /\ \A k \in 1 .. n : s[k] \in TargetPair
  <2>1. s \in Seq(TargetPair)
    BY DEF Environment, TargetPair
  <2> HIDE DEF s
  <2> QED
    BY <2>1
<1>2. b \in Targets /\ b[c] # Unset
  <2>1. e.legacy \in STRING
    BY DEF Environment
  <2>2. Default # Unset
    BY DEF Default, Unset
  <2> QED
    BY <2>1, <2>2 DEF Targets, Path, OrDefault
<1>3. PICK h : /\ h \in [0 .. n -> Targets]
               /\ h[0] = b
               /\ \A k \in 1 .. n : h[k] = SetTarget(h[k - 1], s[k])
               /\ FoldLeft(SetTarget, b, s) = h[n]
  <2> HIDE DEF b, s
  <2> QED
    BY <1>1, <1>2, TargetsInOrder
<1>b. b[c] = IF c = "visor" /\ e.legacy # Unset THEN e.legacy ELSE Default
  BY DEF OrDefault
<1>r. ResolvedTarget(e, c) = Value(n)
  <2>1. {k \in DOMAIN s : s[k].name = c /\ s[k].path # Unset} = Usable(n)
    BY <1>1
  <2> QED
    BY <1>b, <2>1, Zenon DEF ResolvedTarget
<1>t. BinaryTargets(e) = h[n]
  BY <1>3 DEF BinaryTargets
<1> HIDE DEF b, s, n
<1> DEFINE Right == {k \in 0 .. n : h[k][c] = Value(k)}
<1>4. 0 \in Right
  <2>1. Usable(0) = {} /\ 0 \in 0 .. n
    BY <1>1
  <2> QED
    BY <1>3, <2>1
<1>5. ASSUME NEW k \in 1 .. n, k - 1 \in Right PROVE k \in Right
  <2>1. /\ k - 1 \in 0 .. n /\ k \in 0 .. n /\ s[k] \in TargetPair
        /\ h[k] = SetTarget(h[k - 1], s[k]) /\ h[k - 1] \in Targets
        /\ h[k - 1][c] = Value(k - 1)
    BY <1>1, <1>3, <1>5
  <2>2. CASE s[k].name = c /\ s[k].path # Unset
    <3>1. h[k][c] = s[k].path
      BY <2>1, <2>2 DEF SetTarget, Targets
    <3>2. k \in Usable(k) /\ Usable(k) \in SUBSET Nat /\ \A j \in Usable(k) : j <= k
      BY <2>2
    <3>3. Max(Usable(k)) = k
      <4> HIDE DEF Usable
      <4> QED
        BY <3>2, MaxIs
    <3>4. Value(k) = s[k].path
      <4> HIDE DEF Usable
      <4> QED
        BY <3>2, <3>3
    <3> QED
      BY <2>1, <3>1, <3>4
  <2>3. CASE ~(s[k].name = c /\ s[k].path # Unset)
    <3>1. h[k][c] = h[k - 1][c]
      BY <2>1, <2>3 DEF SetTarget, Targets
    <3>2. 1 .. k = (1 .. k - 1) \cup {k}
      OBVIOUS
    <3>3. Usable(k) = Usable(k - 1)
      BY <2>3, <3>2
    <3>4. Value(k) = Value(k - 1)
      <4> HIDE DEF Usable
      <4> QED
        BY <3>3
    <3> HIDE DEF Value
    <3> QED
      BY <2>1, <3>1, <3>4
  <2> QED
    BY <2>2, <2>3
<1>6. h[n][c] = Value(n)
  <2>1. \A k \in 0 .. n : k \in Right
    <3> HIDE DEF Right
    <3> QED
      BY <1>1, <1>4, <1>5, UpTo
  <2>2. n \in 0 .. n
    BY <1>1
  <2> QED
    BY <2>1, <2>2
<1>7. Value(n) # Unset
  <2>1. CASE Usable(n) = {}
    BY <1>2, <2>1
  <2>2. CASE Usable(n) # {}
    <3>1. PICK m \in Usable(n) : \A j \in Usable(n) : j <= m
      <4>1. Usable(n) \in SUBSET (0 .. n)
        BY <1>1
      <4> HIDE DEF Usable
      <4> QED
        BY ONLY <1>1, <2>2, <4>1, LargestOf
    <3>2. Usable(n) \in SUBSET Nat
      BY <1>1
    <3>3. Max(Usable(n)) = m
      <4> HIDE DEF Usable
      <4> QED
        BY <3>1, <3>2, MaxIs
    <3>4. s[m].path # Unset
      BY <3>1
    <3>5. Value(n) = s[m].path
      <4> HIDE DEF Usable
      <4> QED
        BY <2>2, <3>3
    <3> QED
      BY <3>4, <3>5
  <2> QED
    BY <2>1, <2>2
<1> QED
  BY <1>6, <1>7, <1>r, <1>t

-----------------------------------------------------------------------------
(* The Slack collectors.                                                   *)

USE SlackAssumption DEF SlackAssumption, None, Messages, NoAnswer, Answers

(* Types, in the parts one step changes.                                   *)

HealthTypeOK ==
    /\ authAnswer \in {None, "ok", "not ok"} /\ ok \in {0, 1}
    /\ okCause \in {None, "answer", "failure", "stop"}
    /\ tokens \in SUBSET BOOLEAN

CountTypeOK ==
    /\ pageAnswer \in Answers \cup {NoAnswer}
    /\ lastVal \in Messages /\ msg24h \in Messages
    /\ counts \in SUBSET Messages /\ window \in SUBSET Messages

HealthInHand ==
    /\ healthPhase = "busy" => valid \in tokens
    /\ authAnswer # None => healthPhase = "busy" /\ (authAnswer = "ok") \in tokens

CountInHand ==
    /\ countPhase = "busy" => msgs \in counts
    /\ pageAnswer # NoAnswer =>
        countPhase = "busy" /\ (~pageAnswer.more => pageAnswer.n \in counts)

\* A ticker's step keeps the ticker's types.
LEMMA HealthTicker ==
    ASSUME Health!TickerTypeOK,
           \/ Health!BeginTick
           \/ \E k \in Health!Kinds \cup {Health!NoError} : Health!EndTick(k)
           \/ Health!Return
           \/ UNCHANGED <<cancelled, healthPhase, healthTicks, healthErrors>>
    PROVE  Health!TickerTypeOK' /\ cancelled' = cancelled
<1> USE DEF Health!TickerTypeOK, Health!Kinds, Health!NoError
<1>1. CASE Health!BeginTick
  BY <1>1 DEF Health!BeginTick
<1>2. ASSUME NEW k \in Health!Kinds \cup {Health!NoError}, Health!EndTick(k)
      PROVE  Health!TickerTypeOK' /\ cancelled' = cancelled
  BY <1>2 DEF Health!EndTick
<1>3. CASE Health!Return
  BY <1>3 DEF Health!Return
<1> QED
  BY <1>1, <1>2, <1>3

\* The steps of the message counter's loop keep its types.
LEMMA CountTicker ==
    ASSUME Count!TickerTypeOK,
           \/ Count!BeginTick
           \/ \E k \in Count!Kinds \cup {Count!NoError} : Count!EndTick(k)
           \/ Count!Return
           \/ UNCHANGED <<cancelled, countPhase, countTicks, countErrors>>
    PROVE  Count!TickerTypeOK' /\ cancelled' = cancelled
<1> USE DEF Count!TickerTypeOK, Count!Kinds, Count!NoError
<1>1. CASE Count!BeginTick
  BY <1>1 DEF Count!BeginTick
<1>2. ASSUME NEW k \in Count!Kinds \cup {Count!NoError}, Count!EndTick(k)
      PROVE  Count!TickerTypeOK' /\ cancelled' = cancelled
  BY <1>2 DEF Count!EndTick
<1>3. CASE Count!Return
  BY <1>3 DEF Count!Return
<1> QED
  BY <1>1, <1>2, <1>3

-----------------------------------------------------------------------------
(* The health collector.                                                   *)

\* What a tick of the health collector leaves behind.
LEMMA HealthStepInv == SlackInv /\ HealthStep => SlackInv'
<1> SUFFICES ASSUME SlackInv, HealthStep PROVE SlackInv'
  OBVIOUS
<1> USE DEF SlackInv
<1>1. UNCHANGED <<slack, countVars, counts>>
  BY DEF HealthStep, HealthBegin, AuthTest, HealthFails, HealthAnswered, HealthReturn,
         OthersOfHealth
<1>2. Health!TickerTypeOK' /\ cancelled' = cancelled
  <2>1. \/ Health!BeginTick
        \/ \E k \in Health!Kinds \cup {Health!NoError} : Health!EndTick(k)
        \/ Health!Return
        \/ UNCHANGED <<cancelled, healthPhase, healthTicks, healthErrors>>
    BY DEF HealthStep, HealthBegin, AuthTest, HealthFails, HealthAnswered, HealthReturn,
           Health!Kinds, Health!NoError
  <2> QED
    BY <2>1, HealthTicker DEF SlackTypeOK
<1>3. HealthTypeOK' /\ HealthIsFresh' /\ AnswerInHand'
  <2> USE <1>1 DEF SlackTypeOK, HealthTypeOK, HealthIsFresh, AnswerInHand, slack, countVars
  <2>1. CASE HealthBegin
    <3>1. healthPhase' = "busy" /\ UNCHANGED <<authAnswer, ok, okCause>> /\ tokens' = {valid}
      BY <2>1 DEF HealthBegin, Health!BeginTick
    <3>2. authAnswer = None
      BY <2>1 DEF HealthBegin, Health!BeginTick
    <3>3. HealthTypeOK'
      BY <3>1
    <3> QED
      BY <3>1, <3>2, <3>3
  <2>2. CASE AuthTest
    BY <2>2 DEF AuthTest
  <2>3. CASE HealthFails
    BY <2>3 DEF HealthFails, Health!EndTick
  <2>4. CASE HealthAnswered
    BY <2>4 DEF HealthAnswered, Health!EndTick
  <2>5. CASE HealthReturn
    BY <2>5 DEF HealthReturn, Health!Return
  <2> QED
    BY <2>1, <2>2, <2>3, <2>4, <2>5 DEF HealthStep
<1>4. Count!TickerTypeOK'
  BY <1>1, <1>2 DEF SlackTypeOK, countVars, Count!TickerTypeOK, Count!Kinds
<1>5. SlackTypeOK'
  BY <1>1, <1>2, <1>3, <1>4 DEF SlackTypeOK, HealthTypeOK, slack, countVars
<1> QED
  BY <1>1, <1>3, <1>5 DEF CountIsReal, countVars

-----------------------------------------------------------------------------
(* The count collector.                                                    *)

\* What one page says of a channel is an answer.
LEMMA PageIsAnswer ==
    ASSUME NEW m \in Messages
    PROVE  /\ m > Page => [n |-> Page, more |-> TRUE] \in Answers
           /\ [n |-> m, more |-> FALSE] \in Answers
<1>1. m > Page => Page \in Messages
  OBVIOUS
<1> QED
  BY <1>1

\* The gauge moves only to an answer that was complete, and to what it was.
LEMMA CountStepInv == SlackInv /\ CountStep => SlackInv'
<1> SUFFICES ASSUME SlackInv, CountStep PROVE SlackInv'
  OBVIOUS
<1> USE DEF SlackInv
<1>1. UNCHANGED <<slack, healthVars, tokens>>
  BY DEF CountStep, CountBegin, History24h, CountFails, CountAnswered, CountReturn,
         OthersOfCount
<1>2. Count!TickerTypeOK' /\ cancelled' = cancelled
  <2>1. \/ Count!BeginTick
        \/ \E k \in Count!Kinds \cup {Count!NoError} : Count!EndTick(k)
        \/ Count!Return
        \/ UNCHANGED <<cancelled, countPhase, countTicks, countErrors>>
    BY DEF CountStep, CountBegin, History24h, CountFails, CountAnswered, CountReturn,
           Count!Kinds, Count!NoError
  <2> QED
    BY <2>1, CountTicker DEF SlackTypeOK
<1>3. CountTypeOK' /\ CountIsReal' /\ AnswerInHand' /\ (hasVal \in BOOLEAN)'
  <2> USE <1>1 DEF SlackTypeOK, CountTypeOK, CountIsReal, AnswerInHand, slack, healthVars
  <2>1. CASE CountBegin
    <3>1. /\ countPhase' = "busy" /\ counts' = {msgs}
          /\ UNCHANGED <<pageAnswer, lastVal, hasVal, msg24h, window>>
      BY <2>1 DEF CountBegin, Count!BeginTick
    <3>2. pageAnswer = NoAnswer
      BY <2>1 DEF CountBegin, Count!BeginTick
    <3>3. CountTypeOK' /\ CountIsReal'
      BY <3>1
    <3> QED
      BY <3>1, <3>2, <3>3
  <2>2. CASE History24h
    <3>1. /\ pageAnswer' = IF msgs > Page THEN [n |-> Page, more |-> TRUE]
                           ELSE [n |-> msgs, more |-> FALSE]
          /\ UNCHANGED <<countPhase, lastVal, hasVal, msg24h, counts, window>>
          /\ countPhase = "busy"
      BY <2>2 DEF History24h
    <3>2. pageAnswer' \in Answers /\ (~pageAnswer'.more => pageAnswer'.n = msgs)
      <4>1. msgs \in Messages
        BY DEF SlackTypeOK
      <4>2. CASE msgs > Page
        BY <3>1, <4>1, <4>2, PageIsAnswer
      <4>3. CASE ~(msgs > Page)
        BY <3>1, <4>1, <4>3, PageIsAnswer
      <4> QED
        BY <4>2, <4>3
    <3>3. CountTypeOK' /\ CountIsReal'
      BY <3>1, <3>2
    <3>4. CountInHand'
      BY <3>1, <3>2 DEF CountInHand
    <3>5. HealthInHand'
      BY <1>1 DEF HealthInHand
    <3> QED
      BY <3>1, <3>3, <3>4, <3>5, Zenon DEF HealthInHand, CountInHand
  <2>3. CASE CountFails
    BY <2>3 DEF CountFails, Count!EndTick
  <2>4. CASE CountAnswered
    BY <2>4 DEF CountAnswered, Count!EndTick
  <2>5. CASE CountReturn
    BY <2>5 DEF CountReturn, Count!Return
  <2> QED
    BY <2>1, <2>2, <2>3, <2>4, <2>5 DEF CountStep
<1>4. Health!TickerTypeOK'
  BY <1>1, <1>2 DEF SlackTypeOK, healthVars, Health!TickerTypeOK, Health!Kinds
<1>5. SlackTypeOK'
  BY <1>1, <1>2, <1>3, <1>4 DEF SlackTypeOK, CountTypeOK, slack, healthVars
<1> QED
  BY <1>1, <1>3, <1>5 DEF HealthIsFresh, healthVars

-----------------------------------------------------------------------------
(* Slack and the context.                                                  *)

\* A message that comes or goes, or a token that changes, keeps it.
LEMMA ChangeInv == SlackInv /\ Change => SlackInv'
<1> SUFFICES ASSUME SlackInv, Change PROVE SlackInv'
  OBVIOUS
<1> USE DEF SlackInv
<1>1. UNCHANGED <<cancelled, healthVars, countVars>>
  BY DEF Change
<1>2. Health!TickerTypeOK' /\ Count!TickerTypeOK'
  BY <1>1 DEF SlackTypeOK, healthVars, countVars, Health!TickerTypeOK, Count!TickerTypeOK
<1>3. (valid \in BOOLEAN)' /\ (msgs \in Messages)' /\ (changes \in 0 .. MaxChanges)'
  <2>1. (valid \in BOOLEAN)'
    <3>1. valid' = valid \/ valid' = ~valid
      BY Zenon DEF Change
    <3>2. valid \in BOOLEAN
      BY DEF SlackTypeOK
    <3> QED
      BY <3>1, <3>2, Zenon
  <2>2. (msgs \in Messages)'
    BY DEF Change, SlackTypeOK
  <2>3. (changes \in 0 .. MaxChanges)'
    <3>1. changes < MaxChanges /\ changes' = changes + 1
      BY Zenon DEF Change
    <3>2. changes \in 0 .. MaxChanges
      BY DEF SlackTypeOK
    <3> QED
      BY <3>1, <3>2
  <2> QED
    BY <2>1, <2>2, <2>3
<1>4. (tokens \in SUBSET BOOLEAN)' /\ (counts \in SUBSET Messages)'
  <2>1. tokens' \in {tokens, tokens \cup {valid'}}
    BY DEF Change
  <2>2. counts' \in {counts, counts \cup {msgs'}}
    BY DEF Change
  <2>3. tokens \subseteq BOOLEAN /\ counts \subseteq Messages
    BY DEF SlackTypeOK
  <2>4. tokens' \subseteq BOOLEAN
    BY <1>3, <2>1, <2>3, Zenon
  <2>5. counts' \subseteq Messages
    BY <1>3, <2>2, <2>3, Zenon
  <2> QED
    BY <2>4, <2>5
<1>5. SlackTypeOK'
  BY <1>1, <1>2, <1>3, <1>4 DEF SlackTypeOK, healthVars, countVars
<1>6. AnswerInHand'
  BY <1>1 DEF Change, AnswerInHand, healthVars, countVars
<1>7. HealthIsFresh'
  BY <1>1 DEF Change, HealthIsFresh, healthVars
<1> QED
  BY <1>1, <1>5, <1>6, <1>7 DEF CountIsReal, countVars

\* A step that leaves everything but the context alone.
LEMMA QuietInv ==
    ASSUME SlackInv, UNCHANGED <<slack, healthVars, countVars, tokens, counts>>,
           cancelled' \in BOOLEAN
    PROVE  SlackInv'
<1> USE DEF SlackInv, slack, healthVars, countVars
<1>1. Health!TickerTypeOK' /\ Count!TickerTypeOK'
  BY DEF SlackTypeOK, Health!TickerTypeOK, Count!TickerTypeOK
<1>2. SlackTypeOK'
  BY <1>1 DEF SlackTypeOK
<1> QED
  BY <1>2 DEF CountIsReal, HealthIsFresh, AnswerInHand

\* No call was made, and no answer is in hand.
LEMMA SlackInitInv == SlackInit => SlackInv
<1> SUFFICES ASSUME SlackInit PROVE SlackInv
  OBVIOUS
<1>1. /\ healthPhase = "start" /\ countPhase = "start"
      /\ cancelled = FALSE
      /\ healthTicks = 0 /\ countTicks = 0
      /\ healthErrors = [k \in Health!Kinds |-> 0]
      /\ countErrors = [k \in Count!Kinds |-> 0]
  BY DEF SlackInit, Health!TickerInit, Count!TickerInit
<1>2. Health!TickerTypeOK
  <2>1. healthTicks \in 0 .. MaxTicks
    BY <1>1
  <2>2. healthErrors \in [Health!Kinds -> Nat]
    BY <1>1
  <2>3. healthPhase \in {"start", "busy", "select", "returned"} /\ cancelled \in BOOLEAN
    BY <1>1, Zenon
  <2> QED
    BY <2>1, <2>2, <2>3 DEF Health!TickerTypeOK
<1>3. Count!TickerTypeOK
  <2>1. countTicks \in 0 .. MaxTicks
    BY <1>1
  <2>2. countErrors \in [Count!Kinds -> Nat]
    BY <1>1
  <2>3. countPhase \in {"start", "busy", "select", "returned"} /\ cancelled \in BOOLEAN
    BY <1>1, Zenon
  <2> QED
    BY <2>1, <2>2, <2>3 DEF Count!TickerTypeOK
<1>4. /\ valid \in BOOLEAN /\ hasVal \in BOOLEAN
      /\ tokens \in SUBSET BOOLEAN
  BY Zenon DEF SlackInit
<1>5. SlackTypeOK
  <2>1. /\ msgs \in Messages /\ changes = 0
        /\ authAnswer = None /\ ok = 0 /\ okCause = None
        /\ pageAnswer = NoAnswer /\ lastVal = 0 /\ msg24h = 0
        /\ counts = {} /\ window = {0}
    BY DEF SlackInit
  <2>2. counts \in SUBSET Messages /\ window \in SUBSET Messages
    BY <2>1
  <2> QED
    BY <1>2, <1>3, <1>4, <2>1, <2>2 DEF SlackTypeOK
<1>6. CountIsReal /\ HealthIsFresh /\ AnswerInHand
  BY <1>1 DEF SlackInit, CountIsReal, HealthIsFresh, AnswerInHand
<1> QED
  BY <1>5, <1>6 DEF SlackInv

\* Every step of the collectors, or of Slack, keeps it.
LEMMA SlackNextInv == SlackInv /\ [SlackNext]_slackVars => SlackInv'
<1> SUFFICES ASSUME SlackInv, [SlackNext]_slackVars PROVE SlackInv'
  OBVIOUS
<1>1. CASE SlackCancel
  BY <1>1, QuietInv DEF SlackCancel
<1>2. CASE UNCHANGED slackVars
  <2>1. cancelled' \in BOOLEAN
    BY <1>2 DEF slackVars, SlackInv, SlackTypeOK, Health!TickerTypeOK
  <2> QED
    BY <1>2, <2>1, QuietInv DEF slackVars
<1> QED
  BY <1>1, <1>2, HealthStepInv, CountStepInv, ChangeInv DEF SlackNext

(***************************************************************************)
(* For every page size, whatever fails and whenever the context ends:      *)
(* outcome_slack_msg_24h is a number of messages the channel had during    *)
(* the last tick that succeeded, never a page's partial count nor a 0 made *)
(* of an error; slack_api_ok is 1 only for a token that was good during    *)
(* the last tick.                                                          *)
(***************************************************************************)
THEOREM SlackInvariant == SlackSpec => []SlackInv
BY SlackInitInv, SlackNextInv, PTL DEF SlackSpec

-----------------------------------------------------------------------------
(* The exporter.                                                           *)

USE ExporterAssumption DEF ExporterAssumption, None

\* The status tells how main got where it is; the listener is closed once
\* Shutdown was called; D-Bus closes only when the process is ending.
LifeInv ==
    /\ inFlight \in Nat
    /\ exit = 0 => inFlight = 0 /\ pc \in {"close", "cancel", "exited"}
    /\ (pc = "drain" \/ exit = 0) => cancelled /\ stopping /\ server # "serving"
    /\ pc = "close" => exit \in {0, 1}
    /\ pc = "cancel" => exit \in {0, 1}
    /\ exit = 1 => pc \in {"close", "cancel", "exited"}
    /\ probe = "closed" => cancelled \/ exit = 1
    /\ (upCause = "stop" \/ okCause = "stop") => cancelled \/ exit = 1

IInv == SlackInv /\ LifeInv

\* What the steps of main, of the server and of the service collector leave alone.
slackOnly == <<slack, healthVars, countVars, tokens, counts>>

\* The context is cancelled or not.
LEMMA CancelledIsBoolean == SlackInv => cancelled \in BOOLEAN
BY DEF SlackInv, SlackTypeOK, Health!TickerTypeOK

-----------------------------------------------------------------------------
(* Main and the signal.                                                    *)

\* The steps of run(), and a signal, keep the invariant.
LEMMA RunInv == IInv /\ (Run \/ Signal) => IInv'
<1> SUFFICES ASSUME IInv, Run \/ Signal PROVE IInv'
  OBVIOUS
<1>1. UNCHANGED slackOnly /\ cancelled' \in {cancelled, TRUE}
  BY DEF Run, LoadConfig, Wire, StartServer, SeeSignal, SeeError, Drained, TimesOut,
         CloseProbe, CancelAndExit, Signal, slackVars, slackOnly
<1>2. SlackInv'
  BY <1>1, CancelledIsBoolean, QuietInv, Zenon DEF IInv, slackOnly
<1>3. LifeInv'
  <2> USE DEF IInv, LifeInv, NoExit, Killed, serverVars, healthVars, slackVars
  <2>1. CASE LoadConfig
    BY <2>1 DEF LoadConfig
  <2>2. CASE Wire
    BY <2>2 DEF Wire
  <2>3. CASE StartServer
    BY <2>3 DEF StartServer
  <2>4. CASE SeeSignal
    BY <2>4 DEF SeeSignal
  <2>5. CASE SeeError
    BY <2>5 DEF SeeError
  <2>6. CASE Drained
    BY <2>6 DEF Drained
  <2>7. CASE TimesOut
    BY <2>7 DEF TimesOut
  <2>8. CASE CloseProbe
    BY <2>8 DEF CloseProbe
  <2>9. CASE CancelAndExit
    BY <2>9 DEF CancelAndExit
  <2>10. CASE Signal
    BY <2>10 DEF Signal
  <2> QED
    BY <2>1, <2>2, <2>3, <2>4, <2>5, <2>6, <2>7, <2>8, <2>9, <2>10 DEF Run
<1> QED
  BY <1>2, <1>3 DEF IInv

-----------------------------------------------------------------------------
(* The server, D-Bus and the collectors.                                   *)

\* The steps of the server and of the other collectors keep it.
LEMMA ServerInv ==
    IInv /\ (Listen \/ ServeFails \/ Accept \/ Answer \/ ServiceTick \/ ConnCloses) => IInv'
<1> SUFFICES ASSUME IInv,
                    Listen \/ ServeFails \/ Accept \/ Answer \/ ServiceTick \/ ConnCloses
             PROVE  IInv'
  OBVIOUS
<1>1. UNCHANGED slackVars
  BY DEF Listen, ServeFails, Accept, Answer, ServiceTick, ConnCloses
<1>2. SlackInv'
  BY <1>1, CancelledIsBoolean, QuietInv, Zenon DEF IInv, slackVars
<1>3. LifeInv'
  <2> USE <1>1 DEF IInv, LifeInv, mainVars, serverVars, healthVars, slackVars
  <2>1. CASE Listen
    BY <2>1 DEF Listen
  <2>2. CASE ServeFails
    BY <2>2 DEF ServeFails
  <2>3. CASE Accept
    BY <2>3 DEF Accept
  <2>4. CASE Answer
    BY <2>4 DEF Answer
  <2>5. CASE ServiceTick
    BY <2>5 DEF ServiceTick
  <2>6. CASE ConnCloses
    BY <2>6 DEF ConnCloses
  <2> QED
    BY <2>1, <2>2, <2>3, <2>4, <2>5, <2>6
<1> QED
  BY <1>2, <1>3 DEF IInv

\* The Slack collectors keep it, once they are started.
LEMMA SlackStepInv == IInv /\ SlackStep => IInv'
<1> SUFFICES ASSUME IInv, SlackStep PROVE IInv'
  OBVIOUS
<1>1. (Change \/ HealthStep \/ CountStep) /\ UNCHANGED exporterVars
  BY DEF SlackStep
<1>2. SlackInv'
  BY <1>1, ChangeInv, HealthStepInv, CountStepInv DEF IInv
<1>3. cancelled' = cancelled /\ (okCause' \in {okCause, "failure", "answer"} \/ cancelled)
  <2>1. CASE Change
    BY <2>1 DEF Change, healthVars
  <2>2. CASE HealthStep
    BY <2>2 DEF HealthStep, HealthBegin, AuthTest, HealthFails, HealthAnswered, HealthReturn,
           Health!BeginTick, Health!EndTick, Health!Return
  <2>3. CASE CountStep
    BY <2>3 DEF CountStep, CountBegin, History24h, CountFails, CountAnswered, CountReturn,
           Count!BeginTick, Count!EndTick, Count!Return, OthersOfCount, healthVars
  <2> QED
    BY <1>1, <2>1, <2>2, <2>3
<1>4. LifeInv'
  BY <1>1, <1>3 DEF IInv, LifeInv, exporterVars, mainVars, serverVars
<1> QED
  BY <1>2, <1>4 DEF IInv

-----------------------------------------------------------------------------
\* Nothing is started.
LEMMA LifeInitInv == Init => IInv
<1> SUFFICES ASSUME Init PROVE IInv
  OBVIOUS
<1>1. SlackInv
  BY SlackInitInv DEF Init
<1>2. LifeInv
  BY DEF Init, SlackInit, LifeInv, NoExit
<1> QED
  BY <1>1, <1>2 DEF IInv

\* Every step of the process keeps it.
LEMMA LifeNextInv == IInv /\ [Next]_vars => IInv'
<1> SUFFICES ASSUME IInv, [Next]_vars PROVE IInv'
  OBVIOUS
<1>1. CASE UNCHANGED vars
  <2>1. UNCHANGED <<slackVars, exporterVars>>
    BY <1>1 DEF vars
  <2>2. SlackInv'
    BY <2>1, CancelledIsBoolean, QuietInv, Zenon DEF IInv, slackVars
  <2>3. LifeInv'
    BY <2>1 DEF IInv, LifeInv, slackVars, healthVars, exporterVars, mainVars, serverVars
  <2> QED
    BY <2>2, <2>3 DEF IInv
<1> QED
  BY <1>1, RunInv, ServerInv, SlackStepInv DEF Next

(***************************************************************************)
(* What the Slack collectors promise alone they promise inside the         *)
(* exporter, whatever main, the server and a signal do meanwhile.          *)
(***************************************************************************)
THEOREM ExporterSlackInvariant == Spec => []SlackInv
<1>1. IInv => SlackInv
  BY DEF IInv
<1> QED
  BY <1>1, LifeInitInv, LifeNextInv, PTL DEF Spec

(***************************************************************************)
(* The exporter exits with 0 only after a signal, with the listener closed *)
(* and every accepted scrape answered, however many there are: also when   *)
(* the signal comes before the server's goroutine has begun to listen.     *)
(***************************************************************************)
THEOREM CleanExit == Spec => []CleanExitIsClean
<1>1. IInv => CleanExitIsClean
  BY DEF IInv, LifeInv, CleanExitIsClean
<1> QED
  BY <1>1, LifeInitInv, LifeNextInv, PTL DEF Spec

(***************************************************************************)
(* The D-Bus connection is closed and calls to Slack are cut off only once *)
(* the process is ending, so no failure the shutdown causes is shown       *)
(* before.                                                                 *)
(***************************************************************************)
THEOREM FailuresReal == Spec => []FailuresAreReal
<1>1. IInv => FailuresAreReal
  BY DEF IInv, LifeInv, FailuresAreReal
<1> QED
  BY <1>1, LifeInitInv, LifeNextInv, PTL DEF Spec

-----------------------------------------------------------------------------
(* Types and the configuration.                                            *)

\* main goes on with what Load makes of the environment, and has started by
\* then what that asks for.
ConfigInv ==
    /\ pc \in {"wire", "listen"} => cfg # NoConfig /\ cfg = Load(env)
    /\ pc = "listen" => wired = Goroutines(cfg)

\* What ExporterTypeOK says beside the Slack collectors.
MainTypeOK ==
    /\ env \in Envs
    /\ pc \in {"load", "wire", "listen", "select", "drain", "close", "cancel", "exited"}
    /\ exit \in {NoExit, 0, 1, Killed}
    /\ probe \in {None, "open", "closed"}
    /\ up \in {0, 1} /\ upCause \in {"answer", "stop"}
    /\ server \in {None, "new", "serving", "failed", "closed"}
    /\ errCh \in BOOLEAN /\ stopping \in BOOLEAN
    /\ inFlight \in 0 .. MaxScrapes

StartInv == MainTypeOK /\ ConfigInv

\* No collector is started.
LEMMA StartInitInv == Init => StartInv
<1> SUFFICES ASSUME Init PROVE StartInv
  OBVIOUS
<1>1. errCh \in BOOLEAN /\ stopping \in BOOLEAN
  BY Zenon DEF Init
<1>2. MainTypeOK
  BY <1>1 DEF Init, MainTypeOK
<1>3. ConfigInv
  BY DEF Init, ConfigInv
<1> QED
  BY <1>2, <1>3 DEF StartInv

\* What is started is decided once, by the wiring.
LEMMA StartNextInv == StartInv /\ [Next]_vars => StartInv'
<1> SUFFICES ASSUME StartInv, [Next]_vars PROVE StartInv'
  OBVIOUS
<1> USE DEF StartInv
<1>1. CASE Run \/ Signal
  <2> USE DEF MainTypeOK, ConfigInv, serverVars
  <2>1. CASE LoadConfig
    BY <2>1 DEF LoadConfig
  <2>2. CASE Wire
    BY <2>2 DEF Wire
  <2>3. CASE StartServer
    BY <2>3 DEF StartServer
  <2>4. CASE SeeSignal
    BY <2>4 DEF SeeSignal
  <2>5. CASE SeeError
    BY <2>5 DEF SeeError
  <2>6. CASE Drained
    BY <2>6 DEF Drained
  <2>7. CASE TimesOut
    BY <2>7 DEF TimesOut
  <2>8. CASE CloseProbe
    BY <2>8 DEF CloseProbe
  <2>9. CASE CancelAndExit
    BY <2>9 DEF CancelAndExit
  <2>10. CASE Signal
    BY <2>10 DEF Signal
  <2> QED
    BY <1>1, <2>1, <2>2, <2>3, <2>4, <2>5, <2>6, <2>7, <2>8, <2>9, <2>10 DEF Run
<1>2. CASE Listen \/ ServeFails \/ Accept \/ Answer
  <2> USE DEF MainTypeOK, ConfigInv, mainVars
  <2>1. CASE Listen
    BY <2>1 DEF Listen
  <2>2. CASE ServeFails
    BY <2>2 DEF ServeFails
  <2>3. CASE Accept
    BY <2>3 DEF Accept
  <2>4. CASE Answer
    BY <2>4 DEF Answer
  <2> QED
    BY <1>2, <2>1, <2>2, <2>3, <2>4
<1>3. CASE ServiceTick \/ ConnCloses \/ SlackStep \/ UNCHANGED vars
  <2> USE DEF MainTypeOK, ConfigInv, mainVars, serverVars, exporterVars
  <2>1. CASE ServiceTick
    BY <2>1 DEF ServiceTick
  <2>2. CASE ConnCloses
    BY <2>2 DEF ConnCloses
  <2>3. CASE SlackStep
    BY <2>3 DEF SlackStep
  <2>4. CASE UNCHANGED vars
    BY <2>4 DEF vars
  <2> QED
    BY <1>3, <2>1, <2>2, <2>3, <2>4
<1> QED
  BY <1>1, <1>2, <1>3 DEF Next

\* What is started has what it asks for.
LEMMA StartedIsUseful == StartInv => NoneTicksForNothing
<1> SUFFICES ASSUME StartInv, pc = "listen" PROVE NoneTicksForNothing
  BY DEF NoneTicksForNothing
<1>1. /\ cfg # NoConfig /\ cfg = Load(env) /\ wired = Goroutines(cfg)
      /\ env \in Environment
  BY DEF StartInv, MainTypeOK, ConfigInv
<1>2. cfg = Configuration(env) /\ Validate(cfg)
  BY <1>1, Zenon DEF Load
<1>3. cfg.targets = BinaryTargets(env) /\ cfg.patterns = Patterns(env)
  BY <1>2, Zenon DEF Configuration
<1>4. \A k \in DOMAIN cfg.names : cfg.urls[cfg.names[k]] # Unset
  BY <1>2, Zenon DEF Validate
<1>5. /\ "bridge_state" \in wired => cfg.statePath # Unset
      /\ "outcome_slack" \in wired => cfg.token # Unset /\ cfg.channel # Unset
      /\ "slack_health" \in wired => cfg.token # Unset
      /\ "binary_remote" \in wired => cfg.binaryURL # Unset
  BY <1>1 DEF Goroutines, HasBridgeState, HasSlack, HasBinaryRemote
<1>6. \A c \in AllComponents : cfg.targets[c] # Unset /\ cfg.targets[c] = ResolvedTarget(env, c)
  BY <1>1, <1>3, TargetsResolved, Zenon
<1>7. \A k \in PatternKinds : cfg.patterns[k] # <<>> /\ Unset \notin ToSet(cfg.patterns[k])
  BY <1>1, <1>3, PatternsThere, Zenon
<1> QED
  BY <1>4, <1>5, <1>6, <1>7 DEF NoneTicksForNothing

(***************************************************************************)
(* For every environment the exporter may be started in, and however long  *)
(* its lists are: what is started after a configuration was accepted has   *)
(* what its tick asks for, and every component has the binary that the     *)
(* order of resolution gives it (Load, Validate and the wiring in main).   *)
(***************************************************************************)
THEOREM StartedForAReason == Spec => []NoneTicksForNothing
BY StartedIsUseful, StartInitInv, StartNextInv, PTL DEF Spec

(***************************************************************************)
(* Every variable keeps its type: main's, the server's and the collectors'.*)
(***************************************************************************)
THEOREM ExporterTypes == Spec => []ExporterTypeOK
<1>1. IInv /\ StartInv => ExporterTypeOK
  BY DEF IInv, SlackInv, StartInv, MainTypeOK, ConfigInv, ExporterTypeOK
<1> QED
  BY <1>1, LifeInitInv, LifeNextInv, StartInitInv, StartNextInv, PTL DEF Spec
=============================================================================
