------------------------------ MODULE BoundedSets ------------------------------
(***************************************************************************)
(* What the provers do not know of finite sets, and proofs about a         *)
(* maximum, a fold or a sum need: that a bounded set of numbers has a      *)
(* largest element; induction, stated of a set instead of a predicate, up  *)
(* to a number and over the subsets of a set; and that a sum is one of its *)
(* terms and the sum of the others, whichever is taken first.              *)
(***************************************************************************)
EXTENDS Integers, FiniteSetsExt, TLAPS, WellFoundedInduction, FiniteSetTheorems

\* A set of naturals has a smallest element.
LEMMA SmallestOf ==
    ASSUME NEW T \in SUBSET Nat, T # {}
    PROVE  \E x \in T : \A y \in T : x <= y
<1> DEFINE R == OpToRel(<, Nat)
<1>1. IsWellFoundedOn(R, Nat)
  BY NatLessThanWellFounded
<1> HIDE DEF R
<1>2. PICK x \in T : \A y \in T : ~(<<y, x>> \in R)
  BY <1>1, WFMin
<1>3. \A y \in T : y < x => <<y, x>> \in R
  BY DEF R, OpToRel
<1>4. \A y \in T : ~(y < x)
  BY <1>2, <1>3, Zenon
<1> QED
  BY <1>4

\* A bounded one has a largest.
LEMMA LargestOf ==
    ASSUME NEW m \in Nat, NEW S \in SUBSET (0 .. m), S # {}
    PROVE  \E x \in S : \A y \in S : y <= x
<1> DEFINE T == {k \in 0 .. m : m - k \in S}
<1>1. PICK s \in S : TRUE
  OBVIOUS
<1>2. m - s \in T
  BY m - (m - s) = s
<1>3. PICK x \in T : \A y \in T : x <= y
  BY <1>2, SmallestOf, T \in SUBSET Nat
<1>4. m - x \in S /\ x \in 0 .. m
  BY <1>3
<1>5. ASSUME NEW y \in S PROVE y <= m - x
  <2>1. m - y \in T
    BY m - (m - y) = y
  <2>2. x <= m - y
    BY <1>3, <2>1, Zenon
  <2> HIDE DEF T
  <2> QED
    BY <1>4, <2>2
<1> HIDE DEF T
<1> QED
  BY <1>4, <1>5

\* The largest element of a set that has one.
LEMMA MaxIs ==
    ASSUME NEW S \in SUBSET Nat, NEW n \in S, \A k \in S : k <= n
    PROVE  Max(S) = n
<1> DEFINE x == Max(S)
<1>1. n \in S /\ \A y \in S : n >= y
  OBVIOUS
<1>2. x \in S /\ \A y \in S : x >= y
  BY <1>1, Zenon DEF Max
<1> HIDE DEF x
<1>3. x \in Nat /\ n \in Nat /\ x <= n /\ x >= n
  BY <1>2
<1>4. x = n
  BY <1>3
<1> QED
  BY <1>4 DEF x

\* Induction up to n: a set that holds 0, and with each number the next one,
\* holds them all.
LEMMA UpTo ==
    ASSUME NEW n \in Nat, NEW S, 0 \in S,
           \A k \in 1 .. n : k - 1 \in S => k \in S
    PROVE  \A k \in 0 .. n : k \in S
<1> DEFINE Bad == (0 .. n) \ S
<1>1. SUFFICES ASSUME Bad # {} PROVE FALSE
  OBVIOUS
<1>2. PICK k \in Bad : \A j \in Bad : k <= j
  BY <1>1, SmallestOf, Bad \in SUBSET Nat
<1>3. k \in 1 .. n /\ k - 1 \in 0 .. n
  BY <1>2
<1>4. k - 1 \in S
  BY <1>2, <1>3
<1> QED
  BY <1>2, <1>3, <1>4

-----------------------------------------------------------------------------
(* Sums over a finite set.                                                 *)

\* What a set is summed up from.
AnyOf(T) == CHOOSE x \in T : TRUE

\* it sums f over the subsets of S that have at most m elements.
Sums(it, f, S, m) ==
    /\ it \in [{T \in SUBSET S : Cardinality(T) <= m} -> Int]
    /\ it[{}] = 0
    /\ \A T \in SUBSET S :
          (T # {} /\ Cardinality(T) <= m) => it[T] = f[AnyOf(T)] + it[T \ {AnyOf(T)}]

\* The same of all subsets.
IsSum(it, f, S) ==
    /\ it \in [SUBSET S -> Int]
    /\ it[{}] = 0
    /\ \A T \in SUBSET S : T # {} => it[T] = f[AnyOf(T)] + it[T \ {AnyOf(T)}]

\* An element chosen of a set is in it.
LEMMA AnyIsIn == ASSUME NEW T, T # {} PROVE AnyOf(T) \in T
BY Zenon DEF AnyOf

\* A subset has no more elements than the set, and without one of them, one less.
LEMMA WithoutOne ==
    ASSUME NEW S, IsFiniteSet(S), NEW T \in SUBSET S
    PROVE  /\ IsFiniteSet(T) /\ Cardinality(T) \in Nat
           /\ Cardinality(T) <= Cardinality(S) /\ Cardinality(S) \in Nat
           /\ T = {} <=> Cardinality(T) = 0
           /\ \A x \in T : T \ {x} \in SUBSET S /\ Cardinality(T \ {x}) = Cardinality(T) - 1
<1>1. IsFiniteSet(T) /\ Cardinality(T) <= Cardinality(S)
  BY FS_Subset
<1>2. Cardinality(T) \in Nat /\ Cardinality(S) \in Nat
  BY <1>1, FS_CardinalityType
<1>3. T = {} <=> Cardinality(T) = 0
  BY <1>1, FS_EmptySet
<1>4. \A x \in T : Cardinality(T \ {x}) = Cardinality(T) - 1
  BY <1>1, FS_RemoveElement
<1> QED
  BY <1>1, <1>2, <1>3, <1>4

\* Induction over the subsets of a finite set: one is in G when those with an
\* element less are.
LEMMA BySubsets ==
    ASSUME NEW S, IsFiniteSet(S), NEW G, {} \in G,
           \A T \in SUBSET S : (T # {} /\ \A x \in T : T \ {x} \in G) => T \in G
    PROVE  \A T \in SUBSET S : T \in G
<1> DEFINE Bad == {T \in SUBSET S : T \notin G}
           Sizes == {Cardinality(T) : T \in Bad}
<1>1. SUFFICES ASSUME Bad # {} PROVE FALSE
  OBVIOUS
<1>2. Sizes # {} /\ Sizes \in SUBSET Nat
  BY <1>1, WithoutOne
<1>3. PICK n \in Sizes : \A m \in Sizes : n <= m
  BY <1>2, SmallestOf
<1>4. PICK T \in Bad : n = Cardinality(T)
  BY <1>3
<1>5. T \in SUBSET S /\ T \notin G /\ T # {}
  BY <1>4
<1>6. PICK x \in T : T \ {x} \notin G
  BY <1>5
<1>7. T \ {x} \in Bad /\ Cardinality(T \ {x}) = n - 1 /\ n \in Nat
  BY <1>4, <1>5, <1>6, WithoutOne
<1>8. n - 1 \in Sizes
  BY <1>7
<1>9. n <= n - 1
  BY <1>3, <1>8, Zenon
<1> QED
  BY <1>7, <1>9

\* Sums known of the subsets of fewer than m elements give those of m.
LEMMA SumsExtend ==
    ASSUME NEW S, IsFiniteSet(S), NEW f, \A x \in S : f[x] \in Int,
           NEW m \in Nat \ {0}, NEW it, Sums(it, f, S, m - 1)
    PROVE  \E jt : Sums(jt, f, S, m)
<1> DEFINE Few == {T \in SUBSET S : Cardinality(T) <= m}
           jt == [T \in Few |-> IF T = {} THEN 0 ELSE f[AnyOf(T)] + it[T \ {AnyOf(T)}]]
<1>1. /\ it \in [{T \in SUBSET S : Cardinality(T) <= m - 1} -> Int]
      /\ it[{}] = 0
      /\ \A T \in SUBSET S :
            (T # {} /\ Cardinality(T) <= m - 1) => it[T] = f[AnyOf(T)] + it[T \ {AnyOf(T)}]
  BY Zenon DEF Sums
<1>2. ASSUME NEW T \in SUBSET S, T # {}, Cardinality(T) <= m
      PROVE  /\ AnyOf(T) \in T
             /\ T \ {AnyOf(T)} \in SUBSET S
             /\ Cardinality(T \ {AnyOf(T)}) <= m - 1
  BY <1>2, AnyIsIn, WithoutOne
<1>3. jt \in [Few -> Int]
  <2> SUFFICES ASSUME NEW T \in Few
               PROVE  (IF T = {} THEN 0 ELSE f[AnyOf(T)] + it[T \ {AnyOf(T)}]) \in Int
    OBVIOUS
  <2>1. CASE T = {}
    BY <2>1
  <2>2. CASE T # {}
    <3>1. /\ AnyOf(T) \in S
          /\ T \ {AnyOf(T)} \in {U \in SUBSET S : Cardinality(U) <= m - 1}
      BY <1>2, <2>2
    <3> QED
      BY <1>1, <2>2, <3>1
  <2> QED
    BY <2>1, <2>2
<1>4. {} \in Few /\ jt[{}] = 0
  <2>1. Cardinality({}) = 0
    BY FS_EmptySet
  <2> QED
    BY <2>1
<1>5. ASSUME NEW T \in SUBSET S, T # {}, Cardinality(T) <= m
      PROVE  jt[T] = f[AnyOf(T)] + jt[T \ {AnyOf(T)}]
  <2> DEFINE U == T \ {AnyOf(T)}
  <2>1. U \in SUBSET S /\ Cardinality(U) <= m - 1 /\ Cardinality(U) \in Nat
    BY <1>2, <1>5, WithoutOne
  <2>2. jt[T] = f[AnyOf(T)] + it[U]
    BY <1>5
  <2> HIDE DEF U
  <2>3. U \in Few
    BY <2>1
  <2>4. jt[U] = it[U]
    <3>1. CASE U = {}
      BY <1>1, <2>3, <3>1
    <3>2. CASE U # {}
      BY <1>1, <2>1, <2>3, <3>2
    <3> QED
      BY <3>1, <3>2
  <2> HIDE DEF jt
  <2> QED
    BY <2>2, <2>4 DEF U
<1> HIDE DEF jt
<1> QED
  BY <1>3, <1>4, <1>5, Zenon DEF Sums

\* So there are sums of all subsets.
LEMMA SumsExist ==
    ASSUME NEW S, IsFiniteSet(S), NEW f, \A x \in S : f[x] \in Int
    PROVE  \E it : Sums(it, f, S, Cardinality(S))
<1> DEFINE n == Cardinality(S)
           Good == {m \in 0 .. n : \E it : Sums(it, f, S, m)}
<1>1. n \in Nat /\ Cardinality({}) = 0
  BY FS_CardinalityType, FS_EmptySet
<1>2. 0 \in Good
  <2> DEFINE it == [T \in {T \in SUBSET S : Cardinality(T) <= 0} |-> 0]
  <2>1. \A T \in SUBSET S : Cardinality(T) <= 0 => T = {}
    BY WithoutOne
  <2>2. it \in [{T \in SUBSET S : Cardinality(T) <= 0} -> Int] /\ it[{}] = 0
    BY <1>1
  <2> HIDE DEF it
  <2>3. Sums(it, f, S, 0)
    BY <2>1, <2>2, Zenon DEF Sums
  <2>4. 0 \in 0 .. n
    BY <1>1
  <2> QED
    BY <2>3, <2>4, Zenon
<1>3. ASSUME NEW m \in 1 .. n, m - 1 \in Good PROVE m \in Good
  <2>1. PICK it : Sums(it, f, S, m - 1)
    BY <1>3, Zenon
  <2>2. m \in Nat \ {0} /\ m \in 0 .. n
    BY <1>1
  <2>3. \E jt : Sums(jt, f, S, m)
    BY <2>1, <2>2, SumsExtend
  <2> QED
    BY <2>2, <2>3, Zenon
<1>4. n \in Good
  <2> HIDE DEF Good
  <2>1. n \in 0 .. n
    BY <1>1
  <2> QED
    BY <1>1, <1>2, <1>3, <2>1, UpTo
<1> QED
  BY <1>4, Zenon

\* The sum of the elements of SumFunctionOnSet.
LEMMA SumIs ==
    ASSUME NEW S, IsFiniteSet(S), NEW f, \A x \in S : f[x] \in Int
    PROVE  \E it : /\ IsSum(it, f, S)
                   /\ SumFunctionOnSet(f, S) = it[S]
<1> DEFINE Recursion(it) ==
             it = [T \in SUBSET S |->
                     IF T = {} THEN 0 ELSE f[AnyOf(T)] + it[T \ {AnyOf(T)}]]
           It == CHOOSE it : Recursion(it)
           n == Cardinality(S)
<1>1. SumFunctionOnSet(f, S) = It[S]
  BY DEF SumFunctionOnSet, FoldFunctionOnSet, MapThenFoldSet, AnyOf
<1>2. {T \in SUBSET S : Cardinality(T) <= n} = SUBSET S
  BY WithoutOne
<1>3. \A it : Recursion(it) <=>
        it = [T \in SUBSET S |-> IF T = {} THEN 0 ELSE f[AnyOf(T)] + it[T \ {AnyOf(T)}]]
  BY Zenon
<1>4. PICK it : Sums(it, f, S, n)
  BY SumsExist
<1>5. /\ it \in [SUBSET S -> Int]
      /\ it[{}] = 0
      /\ \A T \in SUBSET S : T # {} => it[T] = f[AnyOf(T)] + it[T \ {AnyOf(T)}]
  <2>1. /\ it \in [{T \in SUBSET S : Cardinality(T) <= n} -> Int]
        /\ it[{}] = 0
        /\ \A T \in SUBSET S :
              (T # {} /\ Cardinality(T) <= n) => it[T] = f[AnyOf(T)] + it[T \ {AnyOf(T)}]
    BY <1>4, Zenon DEF Sums
  <2>2. \A T \in SUBSET S : Cardinality(T) <= n
    BY <1>2, Zenon
  <2> HIDE DEF n
  <2> QED
    BY <1>2, <2>1, <2>2, Zenon
<1>6. Recursion(it)
  BY <1>5
<1>7. Recursion(It)
  <2> HIDE DEF Recursion
  <2> QED
    BY <1>6, Zenon
<1> HIDE DEF It
<1>8. /\ DOMAIN It = SUBSET S
      /\ \A T \in SUBSET S : It[T] = IF T = {} THEN 0 ELSE f[AnyOf(T)] + It[T \ {AnyOf(T)}]
  BY <1>7
<1> DEFINE G == {T \in SUBSET S : It[T] = it[T]}
<1>9. {} \in G
  BY <1>5, <1>8
<1>10. ASSUME NEW T \in SUBSET S, T # {}, \A x \in T : T \ {x} \in G
       PROVE  T \in G
  <2>1. AnyOf(T) \in T
    BY <1>10, AnyIsIn
  <2>2. It[T \ {AnyOf(T)}] = it[T \ {AnyOf(T)}]
    BY <1>10, <2>1
  <2> QED
    BY <1>5, <1>8, <1>10, <2>2
<1>11. S \in G
  <2> HIDE DEF G
  <2>1. \A T \in SUBSET S : (T # {} /\ \A x \in T : T \ {x} \in G) => T \in G
    BY <1>10, Zenon
  <2>2. \A T \in SUBSET S : T \in G
    BY ONLY IsFiniteSet(S), <1>9, <2>1, BySubsets
  <2> QED
    BY <2>2
<1>12. IsSum(it, f, S)
  BY <1>5, Zenon DEF IsSum
<1> QED
  BY <1>1, <1>11, <1>12

\* They depend on nothing but the values.
LEMMA SumsAgree ==
    ASSUME NEW S, IsFiniteSet(S), NEW T \in SUBSET S,
           NEW f, NEW g, \A x \in T : f[x] = g[x],
           NEW it, IsSum(it, f, S),
           NEW jt, IsSum(jt, g, T)
    PROVE  it[T] = jt[T]
<1> DEFINE G == {U \in SUBSET T : it[U] = jt[U]}
<1>1. IsFiniteSet(T)
  BY WithoutOne
<1>2. /\ it[{}] = 0
      /\ \A U \in SUBSET S : U # {} => it[U] = f[AnyOf(U)] + it[U \ {AnyOf(U)}]
  BY Zenon DEF IsSum
<1>3. /\ jt[{}] = 0
      /\ \A U \in SUBSET T : U # {} => jt[U] = g[AnyOf(U)] + jt[U \ {AnyOf(U)}]
  BY Zenon DEF IsSum
<1>4. {} \in G
  BY <1>2, <1>3
<1>5. \A U \in SUBSET T : (U # {} /\ \A x \in U : U \ {x} \in G) => U \in G
  <2> SUFFICES ASSUME NEW U \in SUBSET T, U # {}, \A x \in U : U \ {x} \in G
               PROVE  U \in G
    OBVIOUS
  <2>1. AnyOf(U) \in U
    BY AnyIsIn
  <2>2. it[U \ {AnyOf(U)}] = jt[U \ {AnyOf(U)}] /\ f[AnyOf(U)] = g[AnyOf(U)]
    BY <2>1
  <2>3. U \in SUBSET S
    OBVIOUS
  <2> QED
    BY <1>2, <1>3, <2>2, <2>3
<1>6. \A U \in SUBSET T : U \in G
  <2> HIDE DEF G
  <2> QED
    BY ONLY <1>1, <1>4, <1>5, BySubsets
<1> QED
  BY <1>6

\* The order does not matter.
LEMMA AnyFirst ==
    ASSUME NEW S, IsFiniteSet(S), NEW f, \A x \in S : f[x] \in Int,
           NEW it, IsSum(it, f, S)
    PROVE  \A T \in SUBSET S : \A x \in T : it[T] = f[x] + it[T \ {x}]
<1> DEFINE G == {T \in SUBSET S : \A x \in T : it[T] = f[x] + it[T \ {x}]}
<1>1. /\ it \in [SUBSET S -> Int]
      /\ \A T \in SUBSET S : T # {} => it[T] = f[AnyOf(T)] + it[T \ {AnyOf(T)}]
  BY Zenon DEF IsSum
<1>2. {} \in G
  OBVIOUS
<1>3. \A T \in SUBSET S : (T # {} /\ \A x \in T : T \ {x} \in G) => T \in G
  <2> SUFFICES ASSUME NEW T \in SUBSET S, T # {}, \A x \in T : T \ {x} \in G,
                      NEW x \in T
               PROVE  it[T] = f[x] + it[T \ {x}]
    OBVIOUS
  <2> DEFINE y == AnyOf(T)
  <2>1. y \in T /\ it[T] = f[y] + it[T \ {y}]
    BY <1>1, AnyIsIn
  <2> HIDE DEF y
  <2>2. CASE x = y
    BY <2>1, <2>2
  <2>3. CASE x # y
    <3>1. (T \ {y}) \ {x} = (T \ {x}) \ {y}
      OBVIOUS
    <3>2. it[T \ {y}] = f[x] + it[(T \ {y}) \ {x}]
      BY <2>1, <2>3
    <3>3. it[T \ {x}] = f[y] + it[(T \ {x}) \ {y}]
      BY <2>1, <2>3
    <3>4. f[x] \in Int /\ f[y] \in Int /\ it[(T \ {x}) \ {y}] \in Int
      BY <1>1, <2>1
    <3>5. it[T \ {y}] = f[x] + it[(T \ {x}) \ {y}]
      BY <3>1, <3>2
    <3> HIDE DEF G
    <3> QED
      BY <2>1, <3>3, <3>4, <3>5
  <2> QED
    BY <2>2, <2>3
<1>4. \A T \in SUBSET S : T \in G
  <2> HIDE DEF G
  <2> QED
    BY ONLY IsFiniteSet(S), <1>2, <1>3, BySubsets
<1> QED
  BY <1>4

\* A sum depends on the terms only.
LEMMA SumSame ==
    ASSUME NEW S, IsFiniteSet(S), NEW f, NEW g,
           \A x \in S : f[x] \in Int /\ f[x] = g[x]
    PROVE  SumFunctionOnSet(f, S) = SumFunctionOnSet(g, S)
<1>1. PICK it : IsSum(it, f, S) /\ SumFunctionOnSet(f, S) = it[S]
  BY SumIs
<1>2. PICK jt : IsSum(jt, g, S) /\ SumFunctionOnSet(g, S) = jt[S]
  BY SumIs
<1>3. it[S] = jt[S]
  BY <1>1, <1>2, SumsAgree
<1> QED
  BY <1>1, <1>2, <1>3

\* A sum is one of its terms and the sum of the others.
LEMMA SumWithout ==
    ASSUME NEW S, IsFiniteSet(S), NEW f, \A x \in S : f[x] \in Int, NEW x \in S
    PROVE  /\ SumFunctionOnSet(f, S) = f[x] + SumFunctionOnSet(f, S \ {x})
           /\ SumFunctionOnSet(f, S \ {x}) \in Int
<1> DEFINE T == S \ {x}
<1>1. T \in SUBSET S /\ IsFiniteSet(T)
  BY WithoutOne
<1>2. PICK it : IsSum(it, f, S) /\ SumFunctionOnSet(f, S) = it[S]
  BY SumIs
<1>3. PICK jt : IsSum(jt, f, T) /\ SumFunctionOnSet(f, T) = jt[T]
  <2> HIDE DEF T
  <2> QED
    BY <1>1, SumIs
<1>4. it[T] = jt[T]
  <2> HIDE DEF T
  <2> QED
    BY <1>1, <1>2, <1>3, SumsAgree
<1>5. it[S] = f[x] + it[T]
  BY <1>2, AnyFirst
<1>6. it[T] \in Int
  BY <1>1, <1>2 DEF IsSum
<1> QED
  BY <1>2, <1>3, <1>4, <1>5, <1>6

\* The sum of nothing is 0.
LEMMA SumOfNone == ASSUME NEW f PROVE SumFunctionOnSet(f, {}) = 0
<1>1. IsFiniteSet({})
  BY FS_EmptySet
<1>2. PICK it : IsSum(it, f, {}) /\ SumFunctionOnSet(f, {}) = it[{}]
  BY <1>1, SumIs
<1> QED
  BY <1>1, <1>2 DEF IsSum

\* A sum of integers is one.
LEMMA SumIsInt ==
    ASSUME NEW S, IsFiniteSet(S), NEW f, \A x \in S : f[x] \in Int
    PROVE  SumFunctionOnSet(f, S) \in Int
<1>1. PICK it : IsSum(it, f, S) /\ SumFunctionOnSet(f, S) = it[S]
  BY SumIs
<1> QED
  BY <1>1 DEF IsSum

\* A list of numbers gets one more.
LEMMA SumAppended ==
    ASSUME NEW n \in Nat, NEW f, NEW g,
           \A k \in 1 .. n + 1 : g[k] \in Int,
           \A k \in 1 .. n : g[k] = f[k]
    PROVE  SumFunctionOnSet(g, 1 .. n + 1) = SumFunctionOnSet(f, 1 .. n) + g[n + 1]
<1>1. /\ (1 .. n + 1) \ {n + 1} = 1 .. n
      /\ n + 1 \in 1 .. n + 1
  OBVIOUS
<1>2. IsFiniteSet(1 .. n + 1) /\ IsFiniteSet(1 .. n)
  BY FS_Interval
<1>3. /\ SumFunctionOnSet(g, 1 .. n + 1) = g[n + 1] + SumFunctionOnSet(g, 1 .. n)
      /\ SumFunctionOnSet(g, 1 .. n) \in Int
  <2> DEFINE S == 1 .. n + 1
             x == n + 1
  <2>1. IsFiniteSet(S) /\ x \in S /\ S \ {x} = 1 .. n /\ \A k \in S : g[k] \in Int
    BY <1>1, <1>2
  <2> HIDE DEF S, x
  <2>2. /\ SumFunctionOnSet(g, S) = g[x] + SumFunctionOnSet(g, S \ {x})
        /\ SumFunctionOnSet(g, S \ {x}) \in Int
    BY <2>1, SumWithout
  <2>3. /\ SumFunctionOnSet(g, S) = g[x] + SumFunctionOnSet(g, 1 .. n)
        /\ SumFunctionOnSet(g, 1 .. n) \in Int
    BY <2>1, <2>2, Zenon
  <2> QED
    BY <2>3, Zenon DEF S, x
<1>4. SumFunctionOnSet(g, 1 .. n) = SumFunctionOnSet(f, 1 .. n)
  <2> DEFINE S == 1 .. n
  <2>1. IsFiniteSet(S) /\ \A k \in S : g[k] \in Int /\ g[k] = f[k]
    BY <1>2
  <2> HIDE DEF S
  <2>2. SumFunctionOnSet(g, S) = SumFunctionOnSet(f, S)
    BY <2>1, SumSame
  <2> QED
    BY <2>2 DEF S
<1> QED
  BY <1>3, <1>4, g[n + 1] \in Int

\* A list of numbers loses its first.
LEMMA SumOfTail ==
    ASSUME NEW n \in Nat, NEW f, NEW g,
           \A k \in 1 .. n + 1 : f[k] \in Int,
           \A k \in 1 .. n : g[k] = f[k + 1]
    PROVE  SumFunctionOnSet(f, 1 .. n + 1) = f[1] + SumFunctionOnSet(g, 1 .. n)
<1> DEFINE F(k) == SumFunctionOnSet(f, 1 .. k + 1)
           H(k) == SumFunctionOnSet(g, 1 .. k)
           Right == {k \in 0 .. n : F(k) = f[1] + H(k)}
<1>1. \A k \in 0 .. n : H(k) \in Int
  <2> SUFFICES ASSUME NEW k \in 0 .. n PROVE H(k) \in Int
    OBVIOUS
  <2> DEFINE S == 1 .. k
  <2>1. IsFiniteSet(S)
    BY FS_Interval
  <2>2. \A j \in S : g[j] \in Int
    OBVIOUS
  <2> HIDE DEF S
  <2>3. SumFunctionOnSet(g, S) \in Int
    BY <2>1, <2>2, SumIsInt
  <2> QED
    BY <2>3 DEF S
<1>2. 0 \in Right
  <2>1. H(0) = 0
    <3>1. 1 .. 0 = {}
      OBVIOUS
    <3> QED
      BY <3>1, SumOfNone
  <2>2. F(0) = SumFunctionOnSet(f, 1 .. 0) + f[0 + 1]
    <3>1. 0 \in Nat /\ \A k \in 1 .. 0 + 1 : f[k] \in Int
      OBVIOUS
    <3> QED
      BY ONLY <3>1, SumAppended
  <2>3. SumFunctionOnSet(f, 1 .. 0) = 0
    <3>1. 1 .. 0 = {}
      OBVIOUS
    <3> QED
      BY <3>1, SumOfNone
  <2>4. f[1] \in Int /\ 0 + 1 = 1
    OBVIOUS
  <2> HIDE DEF F, H
  <2> QED
    BY <2>1, <2>2, <2>3, <2>4
<1>3. ASSUME NEW k \in 1 .. n, k - 1 \in Right PROVE k \in Right
  <2>1. k \in Nat /\ k - 1 \in Nat /\ (k - 1) + 1 = k
    OBVIOUS
  <2>2. F(k) = SumFunctionOnSet(f, 1 .. k) + f[k + 1]
    <3>1. \A j \in 1 .. k + 1 : f[j] \in Int
      OBVIOUS
    <3> QED
      BY ONLY <2>1, <3>1, SumAppended
  <2>3. H(k) = SumFunctionOnSet(g, 1 .. k - 1) + g[k]
    <3>1. \A j \in 1 .. (k - 1) + 1 : g[j] \in Int
      OBVIOUS
    <3>2. SumFunctionOnSet(g, 1 .. (k - 1) + 1) = SumFunctionOnSet(g, 1 .. k - 1) + g[(k - 1) + 1]
      BY ONLY <2>1, <3>1, SumAppended
    <3> QED
      BY <2>1, <3>2
  <2>4. SumFunctionOnSet(f, 1 .. k) = f[1] + SumFunctionOnSet(g, 1 .. k - 1)
    BY <1>3, <2>1
  <2>5. H(k - 1) \in Int /\ g[k] = f[k + 1] /\ f[1] \in Int /\ f[k + 1] \in Int
    <3>1. k - 1 \in 0 .. n
      OBVIOUS
    <3> HIDE DEF H
    <3> QED
      BY <1>1, <3>1
  <2>6. SumFunctionOnSet(f, 1 .. k) = f[1] + H(k - 1)
    BY <2>4
  <2>7. H(k) = H(k - 1) + g[k]
    BY <2>3
  <2> HIDE DEF F, H
  <2>8. F(k) = f[1] + H(k)
    BY <2>2, <2>5, <2>6, <2>7
  <2> QED
    BY <2>8
<1>4. n \in Right
  <2>1. \A k \in 0 .. n : k \in Right
    <3> HIDE DEF Right
    <3> QED
      BY <1>2, <1>3, UpTo
  <2> QED
    BY <2>1
<1> QED
  BY <1>4
=============================================================================
