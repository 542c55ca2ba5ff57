-------------------------- MODULE StatisticsProofs --------------------------
(***************************************************************************)
(* Theorems about Statistics, for any calendar, any number of clicks and   *)
(* any faults.  Partitions come first.  What the queries add up is         *)
(* defined by recursion over finite sets, so the lemmas that follow are    *)
(* about sums: induction over them is induction over a SET of numbers, or  *)
(* of subsets, from the least-element principle, which needs no operator   *)
(* as a parameter.                                                         *)
(***************************************************************************)
EXTENDS Statistics, FiniteSetTheorems, SequenceTheorems, WellFoundedInduction, TLAPS

\* What makes DefaultExplained inductive: a day of successful maintenance has
\* both its partitions, and no month with a partition has rows in DEFAULT.
PartitionsInv ==
  /\ \A d \in ensured : MonthOf(d) \in partitions /\ MonthAfter(d) \in partitions
  /\ partitions \cap defaulted = {}

\* The invariant explains where rows land.
LEMMA PartitionsExplain == PartitionsInv => DefaultExplained
  <1> SUFFICES ASSUME PartitionsInv, NEW d \in ensured,
                      NEW m, m = MonthOf(d)
               PROVE  /\ m \notin defaulted
                      /\ m < Len(Lengths) /\ Calendar[d].day <= Lengths[m + 1]
                           => m + 1 \notin defaulted
    BY DEF DefaultExplained
  <1>1. m \notin defaulted
    BY DEF PartitionsInv
  <1>2. ASSUME m < Len(Lengths), Calendar[d].day <= Lengths[m + 1]
        PROVE  m + 1 \notin defaulted
    <2>1. MonthAfter(d) = m + 1
      BY <1>2 DEF MonthAfter
    <2> QED BY <2>1 DEF PartitionsInv
  <1> QED BY <1>1, <1>2

\* Successful maintenance keeps the invariant: PostgreSQL creates no partition
\* whose rows are in DEFAULT.
LEMMA EnsureKeeps ==
  ASSUME PartitionsInv, NEW d, EnsurePartitions(d), UNCHANGED defaulted
  PROVE  PartitionsInv'
  BY DEF PartitionsInv, EnsurePartitions, Creatable, MonthOf, MonthAfter

\* So does maintenance that fails half-way.
LEMMA EnsureFailsKeeps ==
  ASSUME PartitionsInv, NEW d, EnsureFails(d), UNCHANGED defaulted
  PROVE  PartitionsInv'
  BY DEF PartitionsInv, EnsureFails, Creatable, MonthOf, MonthAfter

LEMMA PartitionsStep == PartitionsInv /\ [Next]_vars => PartitionsInv'
  <1> SUFFICES ASSUME PartitionsInv, [Next]_vars PROVE PartitionsInv'
    OBVIOUS
  <1>1. CASE StartWorker
    BY <1>1, EnsureKeeps, EnsureFailsKeeps DEF StartWorker
  <1>2. CASE Maintain
    BY <1>2, EnsureKeeps, EnsureFailsKeeps DEF Maintain
  <1>3. ASSUME NEW d \in Days, NEW b \in Browsers, InsertClickEvent(d, b)
        PROVE  PartitionsInv'
    BY <1>3 DEF InsertClickEvent, PartitionsInv, MonthOf, MonthAfter
  <1>4. CASE UNCHANGED <<partitions, defaulted, ensured>>
    BY <1>4 DEF PartitionsInv, MonthOf, MonthAfter
  <1>5. ASSUME NEW d \in Days, UpsertDailyCount(d)
        PROVE  UNCHANGED <<partitions, defaulted, ensured>>
    BY <1>5 DEF UpsertDailyCount
  <1>6. CASE Read
    <2>1. UNCHANGED <<table, ensured>>
      BY <1>6 DEF Read, GetStats, ReferrerCounts, CountryCounts, OSCounts, BrowserCounts,
                  HourlyCounts, DailyCounts, Query, Respond
    <2> QED BY <2>1, <1>4 DEF table
  <1>7. CASE NextDay \/ StopWorker
    BY <1>7, <1>4 DEF NextDay, StopWorker, table
  <1>8. CASE UNCHANGED vars
    BY <1>8, <1>4 DEF vars, table
  <1> QED BY <1>1, <1>2, <1>3, <1>4, <1>5, <1>6, <1>7, <1>8 DEF Next, Record

\* After successful maintenance no row of that month, nor of the next one
\* unless it has no such day, lands in the DEFAULT partition, whatever fails or
\* stops later: ensurePartitions of cmd/worker.
THEOREM RowsHavePartitions == Spec => []DefaultExplained
  <1>1. Init => PartitionsInv
    BY DEF Init, PartitionsInv
  <1>2. PartitionsInv /\ [Next]_vars => PartitionsInv'
    BY PartitionsStep
  <1>3. PartitionsInv => DefaultExplained
    BY PartitionsExplain
  <1> QED BY <1>1, <1>2, <1>3, PTL DEF Spec

-----------------------------------------------------------------------------
(* Induction and sums.                                                     *)

\* A non-empty set of natural numbers has a least element.
LEMMA LeastNumber ==
  ASSUME NEW T \in SUBSET Nat, T # {}
  PROVE  \E x \in T : \A y \in T : x <= y
<1>1. PICK x \in T : \A y \in T : ~(<<y, x>> \in OpToRel(<, Nat))
  BY NatLessThanWellFounded, WFMin
<1>2. \A y \in T : ~(y < x)
  BY <1>1 DEF OpToRel
<1> QED
  BY <1>2

\* Induction over the natural numbers, for a set of them.
LEMMA NumberInduction ==
  ASSUME NEW T \in SUBSET Nat, 0 \in T, \A n \in T : n + 1 \in T
  PROVE  T = Nat
<1> SUFFICES ASSUME Nat \ T # {} PROVE FALSE
  OBVIOUS
<1>1. PICK m \in Nat \ T : \A n \in Nat \ T : m <= n
  BY LeastNumber
<1>2. m # 0 /\ m - 1 \in Nat /\ m - 1 \notin T
  <2>1. m # 0
    OBVIOUS
  <2>2. m - 1 \in Nat
    BY <2>1
  <2>3. m - 1 \in T => (m - 1) + 1 \in T
    OBVIOUS
  <2>4. (m - 1) + 1 = m
    OBVIOUS
  <2> QED BY <2>1, <2>2, <2>3, <2>4
<1> QED
  BY <1>1, <1>2

\* Induction over the subsets of a finite set, for a set of them.
LEMMA SubsetInduction ==
  ASSUME NEW S, IsFiniteSet(S), NEW T, {} \in T,
         \A s \in SUBSET S, x \in S : s \in T /\ x \notin s => s \cup {x} \in T
  PROVE  \A s \in SUBSET S : s \in T
<1> DEFINE Sizes == {n \in Nat : \A s \in SUBSET S : Cardinality(s) = n => s \in T}
<1>1. \A s \in SUBSET S : IsFiniteSet(s) /\ Cardinality(s) \in Nat
  BY FS_Subset, FS_CardinalityType
<1>2. 0 \in Sizes
  BY <1>1, FS_EmptySet
<1>3. ASSUME NEW n \in Sizes PROVE n + 1 \in Sizes
  <2> SUFFICES ASSUME NEW s \in SUBSET S, Cardinality(s) = n + 1 PROVE s \in T
    OBVIOUS
  <2>0. n \in Nat /\ n + 1 # 0
    OBVIOUS
  <2>1. s # {}
    BY <2>0, FS_EmptySet
  <2>2. PICK x \in s : TRUE
    BY <2>1
  <2>3. Cardinality(s \ {x}) = n
    BY <1>1, <2>2, FS_RemoveElement
  <2>4. s \ {x} \in T
    BY <1>3, <2>3
  <2>5. (s \ {x}) \cup {x} = s /\ s \ {x} \in SUBSET S /\ x \notin s \ {x} /\ x \in S
    OBVIOUS
  <2>6. (s \ {x}) \cup {x} \in T
    BY <2>4, <2>5
  <2> QED BY <2>5, <2>6
<1> HIDE DEF Sizes
<1>4. Sizes = Nat
  <2>1. Sizes \in SUBSET Nat
    BY DEF Sizes
  <2> QED BY <1>2, <1>3, <2>1, NumberInduction
<1> QED
  BY <1>1, <1>4 DEF Sizes

\* The element of s that the fold takes first.
Some(s) == CHOOSE x \in s : TRUE

\* The sums over the subsets of S, each from the one without an element.
Sums(f, S) ==
  CHOOSE g : g = [s \in SUBSET S |-> IF s = {} THEN 0 ELSE f[Some(s)] + g[s \ {Some(s)}]]

\* The sum is the last of them.
LEMMA SumIsLast ==
  ASSUME NEW f, NEW S
  PROVE  SumFunctionOnSet(f, S) = Sums(f, S)[S]
BY DEF SumFunctionOnSet, FoldFunctionOnSet, MapThenFoldSet, Sums, Some

\* g adds up the values of f over each subset of S.
Adds(g, f, S) ==
  \A s \in SUBSET S : g[s] = IF s = {} THEN 0 ELSE f[Some(s)] + g[s \ {Some(s)}]

\* There are such sums, so that is what the library's recursion finds.
LEMMA SumsAdd ==
  ASSUME NEW f, NEW S, IsFiniteSet(S)
  PROVE  Adds(Sums(f, S), f, S)
<1> DEFINE Up(n) == {s \in SUBSET S : Cardinality(s) <= n}
           Rec(h, D) == [s \in D |-> IF s = {} THEN 0 ELSE f[Some(s)] + h[s \ {Some(s)}]]
           Good == {n \in Nat : \E h : h = Rec(h, Up(n))}
<1>1. \A s \in SUBSET S : IsFiniteSet(s) /\ Cardinality(s) \in Nat
  BY FS_Subset, FS_CardinalityType
<1>2. \A s \in SUBSET S : s # {} => Some(s) \in s
  BY DEF Some
<1>3. 0 \in Good
  <2>1. \A s \in Up(0) : s = {}
    BY <1>1, FS_EmptySet
  <2> DEFINE h == [s \in Up(0) |-> 0]
  <2> HIDE DEF Up
  <2>2. h = Rec(h, Up(0))
    BY <2>1
  <2> HIDE DEF h
  <2> QED BY <2>2
<1>4. ASSUME NEW n \in Good PROVE n + 1 \in Good
  <2>1. n \in Nat
    OBVIOUS
  <2>2. PICK k : k = Rec(k, Up(n))
    OBVIOUS
  <2> DEFINE h == Rec(k, Up(n + 1))
  <2>3. \A s \in Up(n + 1) : s # {} => s \ {Some(s)} \in Up(n)
    <3> SUFFICES ASSUME NEW s \in Up(n + 1), s # {} PROVE s \ {Some(s)} \in Up(n)
      OBVIOUS
    <3>1. Cardinality(s \ {Some(s)}) = Cardinality(s) - 1
      BY <1>1, <1>2, FS_RemoveElement
    <3>2. Cardinality(s) \in Nat /\ Cardinality(s) <= n + 1
      BY <1>1
    <3>3. Cardinality(s \ {Some(s)}) <= n
      BY <2>1, <3>1, <3>2
    <3> QED BY <3>3
  <2>4. Up(n) \subseteq Up(n + 1)
    BY <1>1, <2>1
  <2> HIDE DEF Up
  <2>5. \A s \in Up(n) : h[s] = k[s]
    <3> SUFFICES ASSUME NEW s \in Up(n) PROVE h[s] = k[s]
      OBVIOUS
    <3>1. k[s] = IF s = {} THEN 0 ELSE f[Some(s)] + k[s \ {Some(s)}]
      BY <2>2
    <3>2. h[s] = IF s = {} THEN 0 ELSE f[Some(s)] + k[s \ {Some(s)}]
      BY <2>4
    <3> QED BY <3>1, <3>2
  <2>6. h = Rec(h, Up(n + 1))
    <3>1. \A s \in Up(n + 1) : s # {} => h[s \ {Some(s)}] = k[s \ {Some(s)}]
      BY <2>3, <2>5
    <3> HIDE DEF h
    <3>2. \A s \in Up(n + 1) : (IF s = {} THEN 0 ELSE f[Some(s)] + k[s \ {Some(s)}])
                             = IF s = {} THEN 0 ELSE f[Some(s)] + h[s \ {Some(s)}]
      BY <3>1
    <3> QED BY <3>2 DEF h
  <2> HIDE DEF h
  <2> QED BY <2>1, <2>6
<1>5. \E h : h = Rec(h, SUBSET S)
  <2>1. Good \in SUBSET Nat
    OBVIOUS
  <2>2. \A n \in Good : n + 1 \in Good
    BY <1>4
  <2> HIDE DEF Good
  <2>3. Good = Nat
    BY <1>3, <2>1, <2>2, NumberInduction
  <2>4. Cardinality(S) \in Good
    BY <2>3, FS_CardinalityType
  <2>5. Up(Cardinality(S)) = SUBSET S
    BY FS_Subset
  <2> QED BY <2>4, <2>5 DEF Good
<1> PICK g : g = Sums(f, S)
  OBVIOUS
<1>6. g = Rec(g, SUBSET S)
  BY <1>5 DEF Sums
<1>7. Adds(g, f, S)
  BY <1>6 DEF Adds
<1> QED
  BY <1>7

\* Nothing adds up to nothing.
LEMMA SumOfNone ==
  ASSUME NEW f
  PROVE  SumFunctionOnSet(f, {}) = 0
<1>1. IsFiniteSet({})
  BY FS_EmptySet
<1>2. Sums(f, {})[{}] = 0
  BY <1>1, SumsAdd DEF Adds
<1> QED
  BY <1>2, SumIsLast

\* The sum over a set does not depend on the set it is taken from.
LEMMA SumsAgree ==
  ASSUME NEW f, NEW R, IsFiniteSet(R), NEW a, NEW b, Adds(a, f, R), Adds(b, f, R)
  PROVE  a[R] = b[R]
<1> DEFINE Sizes == {n \in Nat : \A s \in SUBSET R : Cardinality(s) = n => a[s] = b[s]}
<1>1. \A s \in SUBSET R : IsFiniteSet(s) /\ Cardinality(s) \in Nat
  BY FS_Subset, FS_CardinalityType
<1>2. 0 \in Sizes
  <2>1. \A s \in SUBSET R : Cardinality(s) = 0 => s = {}
    BY <1>1, FS_EmptySet
  <2> QED BY <2>1 DEF Adds
<1>3. ASSUME NEW n \in Sizes PROVE n + 1 \in Sizes
  <2> SUFFICES ASSUME NEW s \in SUBSET R, Cardinality(s) = n + 1 PROVE a[s] = b[s]
    OBVIOUS
  <2>1. n \in Nat /\ n + 1 # 0
    OBVIOUS
  <2>2. s # {}
    BY <2>1, FS_EmptySet
  <2>3. Some(s) \in s
    BY <2>2 DEF Some
  <2>4. Cardinality(s \ {Some(s)}) = Cardinality(s) - 1
    BY <1>1, <2>3, FS_RemoveElement
  <2>5. a[s \ {Some(s)}] = b[s \ {Some(s)}]
    BY <2>1, <2>4
  <2> QED BY <2>2, <2>5 DEF Adds
<1>4. Sizes \in SUBSET Nat
  OBVIOUS
<1> HIDE DEF Sizes
<1>5. Sizes = Nat
  BY <1>2, <1>3, <1>4, NumberInduction
<1> QED
  BY <1>1, <1>5 DEF Sizes

\* A sum is that of one element and the others.
LEMMA SumOfSome ==
  ASSUME NEW f, NEW S, IsFiniteSet(S), S # {}
  PROVE  SumFunctionOnSet(f, S) = f[Some(S)] + SumFunctionOnSet(f, S \ {Some(S)})
<1>1. PICK R : R = S \ {Some(S)}
  OBVIOUS
<1>2. IsFiniteSet(R) /\ R \in SUBSET S
  BY <1>1, FS_Subset
<1>3. Adds(Sums(f, S), f, S) /\ Adds(Sums(f, R), f, R)
  BY <1>2, SumsAdd
<1>4. Adds(Sums(f, S), f, R)
  BY <1>2, <1>3 DEF Adds
<1>5. Sums(f, S)[R] = Sums(f, R)[R]
  BY <1>2, <1>3, <1>4, SumsAgree
<1>6. Sums(f, S)[S] = f[Some(S)] + Sums(f, S)[R]
  BY <1>1, <1>3 DEF Adds
<1> QED
  BY <1>1, <1>5, <1>6, SumIsLast

\* A sum of natural numbers is one.
LEMMA SumType ==
  ASSUME NEW f, NEW S, IsFiniteSet(S), \A x \in S : f[x] \in Nat
  PROVE  SumFunctionOnSet(f, S) \in Nat
<1> DEFINE Sizes == {n \in Nat : \A s \in SUBSET S :
                       Cardinality(s) = n => SumFunctionOnSet(f, s) \in Nat}
<1>1. \A s \in SUBSET S : IsFiniteSet(s) /\ Cardinality(s) \in Nat
  BY FS_Subset, FS_CardinalityType
<1>2. 0 \in Sizes
  <2>1. \A s \in SUBSET S : Cardinality(s) = 0 => s = {}
    BY <1>1, FS_EmptySet
  <2> QED BY <2>1, SumOfNone
<1>3. ASSUME NEW n \in Sizes PROVE n + 1 \in Sizes
  <2> SUFFICES ASSUME NEW s \in SUBSET S, Cardinality(s) = n + 1
               PROVE  SumFunctionOnSet(f, s) \in Nat
    OBVIOUS
  <2>1. n \in Nat /\ n + 1 # 0
    OBVIOUS
  <2>2. s # {}
    BY <2>1, FS_EmptySet
  <2>3. Some(s) \in s
    BY <2>2 DEF Some
  <2>4. Cardinality(s \ {Some(s)}) = Cardinality(s) - 1
    BY <1>1, <2>3, FS_RemoveElement
  <2>5. SumFunctionOnSet(f, s \ {Some(s)}) \in Nat
    BY <2>1, <2>4
  <2>6. SumFunctionOnSet(f, s) = f[Some(s)] + SumFunctionOnSet(f, s \ {Some(s)})
    BY <1>1, <2>2, SumOfSome
  <2> QED BY <2>3, <2>5, <2>6
<1>4. Sizes \in SUBSET Nat
  OBVIOUS
<1> HIDE DEF Sizes
<1>5. Sizes = Nat
  BY <1>2, <1>3, <1>4, NumberInduction
<1> QED
  BY <1>1, <1>5 DEF Sizes

\* A sum is that of any element and the others.
LEMMA SumOfAny ==
  ASSUME NEW f, NEW S, IsFiniteSet(S), \A x \in S : f[x] \in Nat, NEW y \in S
  PROVE  SumFunctionOnSet(f, S) = f[y] + SumFunctionOnSet(f, S \ {y})
<1> DEFINE Sum(s) == SumFunctionOnSet(f, s)
<1> DEFINE Sizes == {n \in Nat : \A s \in SUBSET S :
                       Cardinality(s) = n => \A x \in s : Sum(s) = f[x] + Sum(s \ {x})}
<1>1. \A s \in SUBSET S : IsFiniteSet(s) /\ Cardinality(s) \in Nat
  BY FS_Subset, FS_CardinalityType
<1>2. \A s \in SUBSET S : Sum(s) \in Nat
  BY <1>1, SumType
<1>3. \A s \in SUBSET S : s # {} => Some(s) \in s /\ Sum(s) = f[Some(s)] + Sum(s \ {Some(s)})
  BY <1>1, SumOfSome DEF Some
<1> HIDE DEF Sum
<1>4. 0 \in Sizes
  <2>1. \A s \in SUBSET S : Cardinality(s) = 0 => s = {}
    BY <1>1, FS_EmptySet
  <2> QED BY <2>1
<1>5. ASSUME NEW n \in Sizes PROVE n + 1 \in Sizes
  <2> SUFFICES ASSUME NEW s \in SUBSET S, Cardinality(s) = n + 1, NEW x \in s
               PROVE  Sum(s) = f[x] + Sum(s \ {x})
    OBVIOUS
  <2>1. n \in Nat /\ n + 1 # 0
    OBVIOUS
  <2>2. PICK z : z = Some(s)
    OBVIOUS
  <2>3. z \in s /\ Sum(s) = f[z] + Sum(s \ {z})
    BY <1>3, <2>2
  <2>4. CASE x = z
    BY <2>3, <2>4
  <2>5. CASE x # z
    <3>1. Cardinality(s \ {z}) = n /\ Cardinality(s \ {x}) = n
      <4>1. IsFiniteSet(s) /\ Cardinality(s) = n + 1
        BY <1>1
      <4>2. Cardinality(s \ {z}) = Cardinality(s) - 1 /\ Cardinality(s \ {x}) = Cardinality(s) - 1
        BY <2>3, <4>1, FS_RemoveElement
      <4> QED BY <2>1, <4>1, <4>2
    <3>2. x \in s \ {z} /\ z \in s \ {x}
      BY <2>3, <2>5
    <3>3. Sum(s \ {z}) = f[x] + Sum((s \ {z}) \ {x}) /\ Sum(s \ {x}) = f[z] + Sum((s \ {x}) \ {z})
      BY <3>1, <3>2
    <3>4. (s \ {z}) \ {x} = (s \ {x}) \ {z}
      OBVIOUS
    <3>5. PICK w \in Nat : w = Sum((s \ {x}) \ {z})
      BY <1>2
    <3>6. f[x] \in Nat /\ f[z] \in Nat
      BY <2>3
    <3>7. Sum(s) = f[z] + (f[x] + w) /\ Sum(s \ {x}) = f[z] + w
      BY <2>3, <3>3, <3>4, <3>5
    <3> QED BY <3>6, <3>7
  <2> QED BY <2>4, <2>5
<1>6. Sizes \in SUBSET Nat
  OBVIOUS
<1> HIDE DEF Sizes
<1>7. Sizes = Nat
  BY <1>4, <1>5, <1>6, NumberInduction
<1> QED
  BY <1>1, <1>7, FS_CardinalityType DEF Sizes, Sum

\* One more element adds its value.
LEMMA SumWith ==
  ASSUME NEW f, NEW S, IsFiniteSet(S), \A x \in S : f[x] \in Nat,
         NEW y, y \notin S, f[y] \in Nat
  PROVE  SumFunctionOnSet(f, S \cup {y}) = f[y] + SumFunctionOnSet(f, S)
<1>1. IsFiniteSet(S \cup {y}) /\ y \in S \cup {y} /\ \A x \in S \cup {y} : f[x] \in Nat
  BY FS_AddElement
<1>2. (S \cup {y}) \ {y} = S
  OBVIOUS
<1> QED
  BY <1>1, <1>2, SumOfAny

\* Greater values have a greater sum.
LEMMA SumMonotone ==
  ASSUME NEW f, NEW g, NEW S, IsFiniteSet(S),
         \A x \in S : f[x] \in Nat /\ g[x] \in Nat /\ f[x] <= g[x]
  PROVE  SumFunctionOnSet(f, S) <= SumFunctionOnSet(g, S)
<1> DEFINE T == {s \in SUBSET S : SumFunctionOnSet(f, s) <= SumFunctionOnSet(g, s)}
<1>1. {} \in T
  BY SumOfNone
<1>2. ASSUME NEW s \in SUBSET S, NEW x \in S, s \in T, x \notin s PROVE s \cup {x} \in T
  <2>1. IsFiniteSet(s)
    BY FS_Subset
  <2>2. /\ SumFunctionOnSet(f, s \cup {x}) = f[x] + SumFunctionOnSet(f, s)
        /\ SumFunctionOnSet(g, s \cup {x}) = g[x] + SumFunctionOnSet(g, s)
    BY <1>2, <2>1, SumWith
  <2>3. SumFunctionOnSet(f, s) \in Nat /\ SumFunctionOnSet(g, s) \in Nat
    BY <2>1, SumType
  <2>4. SumFunctionOnSet(f, s) <= SumFunctionOnSet(g, s)
    BY <1>2
  <2>5. f[x] \in Nat /\ g[x] \in Nat /\ f[x] <= g[x]
    OBVIOUS
  <2>6. SumFunctionOnSet(f, s \cup {x}) <= SumFunctionOnSet(g, s \cup {x})
    BY <2>2, <2>3, <2>4, <2>5
  <2> QED BY <2>6
<1>3. \A s \in SUBSET S, x \in S : s \in T /\ x \notin s => s \cup {x} \in T
  BY <1>2
<1>4. S \in SUBSET S
  OBVIOUS
<1> HIDE DEF T
<1>5. S \in T
  BY <1>1, <1>3, <1>4, SubsetInduction
<1> QED
  BY <1>5 DEF T

\* Equal values have the same sum.
LEMMA SumSame ==
  ASSUME NEW f, NEW g, NEW S, IsFiniteSet(S), \A x \in S : f[x] \in Nat /\ f[x] = g[x]
  PROVE  SumFunctionOnSet(f, S) = SumFunctionOnSet(g, S)
<1>1. SumFunctionOnSet(f, S) <= SumFunctionOnSet(g, S)
  BY SumMonotone
<1>2. SumFunctionOnSet(g, S) <= SumFunctionOnSet(f, S)
  BY SumMonotone
<1>3. SumFunctionOnSet(f, S) \in Nat /\ SumFunctionOnSet(g, S) \in Nat
  BY SumType
<1> QED
  BY <1>1, <1>2, <1>3

\* The sum of two disjoint sets is that of their sums.
LEMMA SumUnion ==
  ASSUME NEW f, NEW R, NEW S, IsFiniteSet(R), IsFiniteSet(S), R \cap S = {},
         \A x \in R \cup S : f[x] \in Nat
  PROVE  SumFunctionOnSet(f, R \cup S) = SumFunctionOnSet(f, R) + SumFunctionOnSet(f, S)
<1> DEFINE T == {s \in SUBSET S : SumFunctionOnSet(f, R \cup s) =
                                    SumFunctionOnSet(f, R) + SumFunctionOnSet(f, s)}
<1>1. {} \in T
  <2>1. R \cup {} = R
    OBVIOUS
  <2>2. SumFunctionOnSet(f, R) \in Nat
    BY SumType
  <2> QED BY <2>1, <2>2, SumOfNone
<1>2. ASSUME NEW s \in SUBSET S, NEW x \in S, s \in T, x \notin s PROVE s \cup {x} \in T
  <2>1. IsFiniteSet(s) /\ IsFiniteSet(R \cup s)
    BY FS_Subset, FS_Union
  <2>2. SumFunctionOnSet(f, s \cup {x}) = f[x] + SumFunctionOnSet(f, s)
    BY <1>2, <2>1, SumWith
  <2>3. SumFunctionOnSet(f, (R \cup s) \cup {x}) = f[x] + SumFunctionOnSet(f, R \cup s)
    <3>1. x \notin R \cup s /\ f[x] \in Nat /\ \A y \in R \cup s : f[y] \in Nat
      BY <1>2
    <3> QED BY <2>1, <3>1, SumWith
  <2>4. SumFunctionOnSet(f, R \cup s) = SumFunctionOnSet(f, R) + SumFunctionOnSet(f, s)
    BY <1>2
  <2>5. /\ SumFunctionOnSet(f, R) \in Nat /\ SumFunctionOnSet(f, s) \in Nat
        /\ f[x] \in Nat
    BY <2>1, SumType
  <2>6. (R \cup s) \cup {x} = R \cup (s \cup {x})
    OBVIOUS
  <2>7. SumFunctionOnSet(f, R \cup (s \cup {x})) =
          SumFunctionOnSet(f, R) + SumFunctionOnSet(f, s \cup {x})
    BY <2>2, <2>3, <2>4, <2>5, <2>6
  <2> QED BY <2>7
<1>3. \A s \in SUBSET S, x \in S : s \in T /\ x \notin s => s \cup {x} \in T
  BY <1>2
<1>4. S \in SUBSET S
  OBVIOUS
<1> HIDE DEF T
<1>5. S \in T
  BY <1>1, <1>3, <1>4, SubsetInduction
<1> QED
  BY <1>5 DEF T

-----------------------------------------------------------------------------
(* The calendar.                                                           *)

\* The concatenations of the first sequences.
Flattened(seqs) ==
  CHOOSE h : h = [i \in 1..Len(seqs) |-> IF i = 1 THEN seqs[i] ELSE h[i - 1] \o seqs[i]]

\* All of them are the last one.
LEMMA FlattenIsLast ==
  ASSUME NEW seqs, Len(seqs) # 0
  PROVE  FlattenSeq(seqs) = Flattened(seqs)[Len(seqs)]
BY DEF FlattenSeq, Flattened

\* Some sequences, the first of which has an element, have one together, and
\* none that is not of their type.
LEMMA FlattenType ==
  ASSUME NEW E, NEW seqs \in Seq(Seq(E)), seqs # <<>>, seqs[1] # <<>>
  PROVE  FlattenSeq(seqs) \in Seq(E) \ {<<>>}
<1>1. PICK N \in Nat : N = Len(seqs)
  OBVIOUS
<1>2. N # 0 /\ \A i \in 1..N : seqs[i] \in Seq(E)
  BY <1>1, EmptySeq
<1> DEFINE Rec(h, n) == [i \in 1..n |-> IF i = 1 THEN seqs[i] ELSE h[i - 1] \o seqs[i]]
           Good == {n \in Nat : \E h : h = Rec(h, n)}
<1>3. 0 \in Good
  <2> DEFINE h == [i \in 1..0 |-> 0]
  <2>1. h = Rec(h, 0)
    OBVIOUS
  <2> HIDE DEF h
  <2> QED BY <2>1
<1>4. ASSUME NEW n \in Good PROVE n + 1 \in Good
  <2>1. n \in Nat
    OBVIOUS
  <2>2. PICK k : k = Rec(k, n)
    OBVIOUS
  <2> DEFINE h == Rec(k, n + 1)
  <2>3. \A i \in 1..n : h[i] = k[i]
    <3> SUFFICES ASSUME NEW i \in 1..n PROVE h[i] = k[i]
      OBVIOUS
    <3>1. k[i] = IF i = 1 THEN seqs[i] ELSE k[i - 1] \o seqs[i]
      BY <2>2
    <3>2. i \in 1..(n + 1)
      BY <2>1
    <3> QED BY <3>1, <3>2
  <2>4. h = Rec(h, n + 1)
    <3>1. \A i \in 1..(n + 1) : i # 1 => i - 1 \in 1..n
      BY <2>1
    <3>2. \A i \in 1..(n + 1) : i # 1 => h[i - 1] = k[i - 1]
      BY <2>3, <3>1
    <3> HIDE DEF h
    <3>3. \A i \in 1..(n + 1) : (IF i = 1 THEN seqs[i] ELSE k[i - 1] \o seqs[i])
                              = IF i = 1 THEN seqs[i] ELSE h[i - 1] \o seqs[i]
      BY <3>2
    <3> QED BY <3>3 DEF h
  <2> HIDE DEF h, Rec
  <2>5. \E j : j = Rec(j, n + 1)
    BY <2>4
  <2>6. n + 1 \in Nat
    BY <2>1
  <2> QED BY <2>5, <2>6
<1>5. \E h : h = Rec(h, N)
  <2>1. Good \in SUBSET Nat
    OBVIOUS
  <2> HIDE DEF Good
  <2>2. Good = Nat
    BY <1>3, <1>4, <2>1, NumberInduction
  <2>3. N \in Good
    BY <2>2
  <2> QED BY <2>3 DEF Good
<1> PICK g : g = Flattened(seqs)
  OBVIOUS
<1>6. g = Rec(g, N)
  BY <1>1, <1>5 DEF Flattened
<1> DEFINE Typed == {n \in Nat : n + 1 <= N => g[n + 1] \in Seq(E) \ {<<>>}}
<1>7. 0 \in Typed
  <2>1. 1 \in 1..N
    BY <1>2
  <2>2. g[1] = seqs[1]
    BY <1>6, <2>1
  <2> QED BY <1>2, <2>1, <2>2
<1>8. ASSUME NEW n \in Typed PROVE n + 1 \in Typed
  <2> SUFFICES ASSUME n + 2 <= N PROVE g[n + 2] \in Seq(E) \ {<<>>}
    <3>1. n \in Nat /\ (n + 1) + 1 = n + 2
      OBVIOUS
    <3> QED BY <3>1
  <2>1. n \in Nat
    OBVIOUS
  <2>2. n + 1 <= N /\ n + 2 \in 1..N /\ n + 2 # 1 /\ (n + 2) - 1 = n + 1
    BY <2>1
  <2>3. g[n + 1] \in Seq(E) /\ g[n + 1] # <<>>
    BY <2>2
  <2>4. g[n + 2] = g[n + 1] \o seqs[n + 2]
    BY <1>6, <2>2
  <2>5. seqs[n + 2] \in Seq(E)
    BY <1>2, <2>2
  <2> QED BY <2>3, <2>4, <2>5, ConcatProperties, ConcatEqualIffEmpty
<1>9. Typed = Nat
  <2>1. Typed \in SUBSET Nat /\ \A n \in Typed : n + 1 \in Typed
    BY <1>8
  <2> HIDE DEF Typed
  <2> QED BY <1>7, <2>1, NumberInduction
<1>10. g[N] \in Seq(E) \ {<<>>}
  <2>1. N - 1 \in Nat /\ (N - 1) + 1 = N
    BY <1>2
  <2>2. N - 1 \in Typed
    BY <1>9, <2>1
  <2> QED BY <2>1, <2>2
<1> QED
  BY <1>1, <1>2, <1>10, FlattenIsLast

\* A function of the first numbers is a sequence.
LEMMA FunctionSeq ==
  ASSUME NEW E, NEW n \in Nat, NEW f \in [1..n -> E]
  PROVE  f \in Seq(E) /\ Len(f) = n
OBVIOUS

\* Days have a month and a number in it, and there is one.
LEMMA CalendarType ==
  Calendar \in Seq([month : 1..Len(Lengths), day : Nat]) \ {<<>>}
<1>1. Lengths \in Seq(Nat \ {0}) /\ Lengths # <<>>
  BY StatisticsAssumption
<1>2. PICK N \in Nat : N = Len(Lengths) /\ N # 0 /\ DOMAIN Lengths = 1..N
  BY <1>1, EmptySeq
<1> DEFINE E == [month : 1..N, day : Nat]
           months == [m \in DOMAIN Lengths |-> [d \in 1..Lengths[m] |-> [month |-> m, day |-> d]]]
<1>3. \A m \in 1..N : Lengths[m] \in Nat /\ Lengths[m] # 0
  BY <1>1, <1>2
<1>4. \A m \in 1..N : months[m] \in [1..Lengths[m] -> E]
  BY <1>2, <1>3
<1>5. \A m \in 1..N : months[m] \in Seq(E)
  <2> SUFFICES ASSUME NEW m \in 1..N PROVE months[m] \in Seq(E)
    OBVIOUS
  <2>1. PICK n \in Nat : n = Lengths[m]
    BY <1>3
  <2>2. months[m] \in [1..n -> E]
    BY <1>4, <2>1
  <2> HIDE DEF months, E
  <2> QED BY <2>2, FunctionSeq
<1>6. months \in [1..N -> Seq(E)]
  BY <1>2, <1>5
<1>7. months \in Seq(Seq(E)) /\ Len(months) = N
  <2> HIDE DEF months, E
  <2> QED BY <1>6, FunctionSeq
<1>8. months # <<>>
  BY <1>2, <1>7
<1>9. months[1] # <<>>
  <2>1. DOMAIN months[1] = 1..Lengths[1]
    BY <1>2
  <2>2. 1 \in DOMAIN months[1]
    BY <1>2, <1>3, <2>1
  <2> QED BY <2>2
<1> HIDE DEF months, E
<1>10. FlattenSeq(months) \in Seq(E) \ {<<>>}
  BY <1>7, <1>8, <1>9, FlattenType
<1> QED BY <1>2, <1>10 DEF Calendar, months, E

\* There is a first day, and days have a month of the calendar.
LEMMA DaysType ==
  /\ Days \subseteq Nat \ {0} /\ 1 \in Days /\ IsFiniteSet(Days)
  /\ \A d \in Days : MonthOf(d) \in 1..Len(Lengths)
<1>1. PICK E : E = [month : 1..Len(Lengths), day : Nat]
  OBVIOUS
<1>2. Calendar \in Seq(E) /\ Calendar # <<>>
  BY <1>1, CalendarType
<1>3. PICK n \in Nat : n # 0 /\ Days = 1..n /\ \A d \in 1..n : Calendar[d] \in E
  BY <1>2, EmptySeq DEF Days
<1>4. IsFiniteSet(1..n)
  BY FS_Interval
<1> QED BY <1>1, <1>3, <1>4 DEF MonthOf

-----------------------------------------------------------------------------
(* What the queries return.                                                *)

\* A set of numbers that are not all greater has a greatest one.
LEMMA Greatest ==
  ASSUME NEW f, NEW S, IsFiniteSet(S), S # {}, \A x \in S : f[x] \in Nat
  PROVE  \E x \in S : \A y \in S : f[y] <= f[x]
<1> DEFINE T == {s \in SUBSET S : s = {} \/ \E x \in s : \A y \in s : f[y] <= f[x]}
<1>1. {} \in T
  OBVIOUS
<1>2. ASSUME NEW s \in SUBSET S, NEW z \in S, s \in T, z \notin s PROVE s \cup {z} \in T
  <2>1. CASE s = {}
    <3>1. \A y \in s \cup {z} : f[y] <= f[z]
      BY <2>1
    <3> QED BY <3>1
  <2>2. CASE s # {}
    <3>1. PICK x \in s : \A y \in s : f[y] <= f[x]
      BY <1>2, <2>2
    <3>2. CASE f[z] <= f[x]
      <4>1. \A y \in s \cup {z} : f[y] <= f[x]
        BY <3>1, <3>2
      <4> QED BY <4>1
    <3>3. CASE ~(f[z] <= f[x])
      <4>1. \A y \in s \cup {z} : f[y] <= f[z]
        BY <3>1, <3>3
      <4> QED BY <4>1
    <3> QED BY <3>2, <3>3
  <2> QED BY <2>1, <2>2
<1>3. S \in SUBSET S
  OBVIOUS
<1> HIDE DEF T
<1>4. S \in T
  BY <1>1, <1>2, <1>3, SubsetInduction
<1> QED
  BY <1>4 DEF T

\* Some families are the top ones, however many are wanted.
LEMMA TopExists ==
  ASSUME NEW f, NEW S, IsFiniteSet(S), \A x \in S : f[x] \in Nat, NEW k \in Nat,
         k <= Cardinality(S)
  PROVE  \E top \in SUBSET S : Cardinality(top) = k /\ \A b \in top, c \in S \ top : f[b] >= f[c]
<1> DEFINE Ranked(top, n) == Cardinality(top) = n /\ \A b \in top, c \in S \ top : f[b] >= f[c]
           T == {n \in Nat : n <= Cardinality(S) => \E top \in SUBSET S : Ranked(top, n)}
<1>0. Cardinality(S) \in Nat
  BY FS_CardinalityType
<1>1. 0 \in T
  <2>1. Ranked({}, 0)
    BY FS_EmptySet
  <2> QED BY <2>1
<1>2. ASSUME NEW n \in T PROVE n + 1 \in T
  <2>1. n \in Nat /\ n + 1 \in Nat
    OBVIOUS
  <2> SUFFICES ASSUME n + 1 <= Cardinality(S) PROVE \E top \in SUBSET S : Ranked(top, n + 1)
    BY <2>1
  <2>2. n <= Cardinality(S) /\ n # Cardinality(S)
    BY <1>0, <2>1
  <2>3. PICK top \in SUBSET S : Ranked(top, n)
    BY <2>2
  <2>4. IsFiniteSet(S \ top) /\ S \ top # {} /\ IsFiniteSet(top)
    <3>1. IsFiniteSet(S \ top) /\ IsFiniteSet(top)
      BY FS_Subset
    <3>2. top # S
      BY <2>2, <2>3
    <3> QED BY <3>1, <3>2
  <2>5. PICK x \in S \ top : \A y \in S \ top : f[y] <= f[x]
    BY <2>4, Greatest
  <2>6. Ranked(top \cup {x}, n + 1)
    <3>1. Cardinality(top \cup {x}) = n + 1
      BY <2>3, <2>4, FS_AddElement
    <3>2. ASSUME NEW b \in top \cup {x}, NEW c \in S \ (top \cup {x}) PROVE f[b] >= f[c]
      <4>1. CASE b = x
        <5>1. f[c] <= f[x] /\ f[c] \in Nat /\ f[x] \in Nat
          BY <2>5
        <5> QED BY <4>1, <5>1
      <4>2. CASE b \in top
        BY <2>3, <4>2
      <4> QED BY <4>1, <4>2
    <3> QED BY <3>1, <3>2
  <2>7. top \cup {x} \in SUBSET S
    OBVIOUS
  <2> QED BY <2>6, <2>7
<1>3. T \in SUBSET Nat
  OBVIOUS
<1> HIDE DEF T
<1>4. T = Nat
  BY <1>1, <1>2, <1>3, NumberInduction
<1>5. k \in T
  BY <1>4
<1> QED
  BY <1>5 DEF T

LEMMA TopIsSome ==
  ASSUME NEW counts, IsFiniteSet(DOMAIN counts), \A b \in DOMAIN counts : counts[b] \in Nat
  PROVE  Top(counts) \in SUBSET DOMAIN counts
<1>1. PICK D : D = DOMAIN counts
  OBVIOUS
<1>2. PICK k : k = IF Cardinality(D) <= TopN THEN Cardinality(D) ELSE TopN
  OBVIOUS
<1>3. k \in Nat /\ k <= Cardinality(D)
  BY <1>1, <1>2, StatisticsAssumption, FS_CardinalityType
<1>4. \E top \in SUBSET D : Cardinality(top) = k /\ \A b \in top, c \in D \ top : counts[b] >= counts[c]
  BY <1>1, <1>3, TopExists
<1> QED
  BY <1>1, <1>2, <1>4 DEF Top

\* Whatever the families on their own, the buckets have every count.
LEMMA BucketSum ==
  ASSUME NEW counts, IsFiniteSet(DOMAIN counts), \A b \in DOMAIN counts : counts[b] \in Nat,
         Other \notin DOMAIN counts, NEW top \in SUBSET DOMAIN counts
  PROVE  SumFunction(Bucket(counts, top)) = SumFunctionOnSet(counts, DOMAIN counts)
<1>1. PICK D : D = DOMAIN counts
  OBVIOUS
<1>2. IsFiniteSet(D) /\ IsFiniteSet(top) /\ IsFiniteSet(D \ top) /\ Other \notin top
      /\ \A b \in D : counts[b] \in Nat
  BY <1>1, FS_Subset
<1>3. PICK rest : rest = SumFunctionOnSet(counts, D \ top)
  OBVIOUS
<1>4. PICK f : f = [b \in IF top = D THEN top ELSE top \cup {Other} |->
                      IF b \in top THEN counts[b] ELSE rest]
  OBVIOUS
<1>5. Bucket(counts, top) = f
  BY <1>1, <1>3, <1>4 DEF Bucket
<1>6. CASE top = D
  <2>1. DOMAIN f = D /\ \A b \in D : f[b] = counts[b]
    BY <1>4, <1>6
  <2>2. SumFunctionOnSet(f, D) = SumFunctionOnSet(counts, D)
    BY <1>2, <2>1, SumSame
  <2> QED BY <1>1, <1>5, <2>1, <2>2 DEF SumFunction
<1>7. CASE top # D
  <2>1. DOMAIN f = top \cup {Other} /\ f[Other] = rest /\ \A b \in top : f[b] = counts[b]
    BY <1>2, <1>4, <1>7
  <2>2. rest \in Nat /\ SumFunctionOnSet(counts, top) \in Nat
    BY <1>2, <1>3, SumType
  <2>3. \A b \in top : f[b] \in Nat /\ f[b] = counts[b]
    BY <1>1, <1>2, <2>1
  <2>4. SumFunctionOnSet(f, top \cup {Other}) = rest + SumFunctionOnSet(f, top)
    BY <1>2, <2>1, <2>2, <2>3, SumWith
  <2>5. SumFunctionOnSet(f, top) = SumFunctionOnSet(counts, top)
    BY <1>2, <2>3, SumSame
  <2>6. SumFunctionOnSet(counts, top \cup (D \ top)) = SumFunctionOnSet(counts, top) + rest
    <3>1. top \cap (D \ top) = {} /\ \A b \in top \cup (D \ top) : counts[b] \in Nat
      BY <1>1, <1>2
    <3> QED BY <1>2, <1>3, <3>1, SumUnion
  <2>7. top \cup (D \ top) = D
    BY <1>1
  <2>8. SumFunctionOnSet(f, DOMAIN f) = SumFunctionOnSet(counts, D)
    <3>1. PICK n \in Nat : n = SumFunctionOnSet(counts, top)
      BY <2>2
    <3>2. SumFunctionOnSet(f, DOMAIN f) = rest + n
      BY <2>1, <2>4, <2>5, <3>1
    <3>3. SumFunctionOnSet(counts, D) = n + rest
      BY <2>6, <2>7, <3>1
    <3> QED BY <2>2, <3>2, <3>3
  <2> QED BY <1>1, <1>5, <2>8 DEF SumFunction
<1> QED
  BY <1>6, <1>7

-----------------------------------------------------------------------------
\* The cells of the days from the first to before the last, for some browsers.
Cells(from, to, B) == {c \in Days \X B : from <= c[1] /\ c[1] < to}

RowsOK == rows \in [Days \X Browsers -> Nat]

LEMMA CellsFinite ==
  ASSUME NEW from \in Int, NEW to \in Int, NEW B \in SUBSET Browsers
  PROVE  IsFiniteSet(Cells(from, to, B)) /\ Cells(from, to, B) \subseteq Days \X Browsers
<1>1. IsFiniteSet(B) /\ IsFiniteSet(Days)
  BY StatisticsAssumption, DaysType, FS_Subset
<1>2. IsFiniteSet(Days \X B)
  BY <1>1, FS_Product
<1>3. Cells(from, to, B) \subseteq Days \X B
  BY DEF Cells
<1> QED
  BY <1>2, <1>3, FS_Subset

LEMMA RowsSum ==
  ASSUME RowsOK, NEW S \in SUBSET (Days \X Browsers), IsFiniteSet(S)
  PROVE  SumFunctionOnSet(rows, S) \in Nat
<1>1. \A c \in S : rows[c] \in Nat
  BY DEF RowsOK
<1> QED
  BY <1>1, SumType

\* What a query counts is what was asked for.
LEMMA EventCountIsAsked ==
  ASSUME NEW r \in Requests
  PROVE  EventCount(r.from, ToExclusive(r)) = Asked(r)
<1>1. r.from \in Int /\ r.to \in Int
  BY DEF Requests
<1>2. ASSUME NEW c \in Days \X Browsers
      PROVE  (r.from <= c[1] /\ c[1] < r.to + 1) <=> c[1] \in r.from..r.to
  <2>1. c[1] \in Nat
    BY DaysType
  <2> QED BY <1>1, <2>1
<1>3. {c \in Days \X Browsers : r.from <= c[1] /\ c[1] < r.to + 1}
        = {c \in Days \X Browsers : c[1] \in r.from..r.to}
  BY <1>2
<1> QED
  BY <1>3 DEF EventCount, Asked, ToExclusive

LEMMA EventCountType ==
  ASSUME RowsOK, NEW from \in Int, NEW to \in Int
  PROVE  EventCount(from, to) \in Nat
<1>1. EventCount(from, to) = SumFunctionOnSet(rows, Cells(from, to, Browsers))
  BY DEF EventCount, Cells
<1> QED
  BY <1>1, CellsFinite, RowsSum

\* The families without clicks have none, and the others have all.
LEMMA FamiliesSum ==
  ASSUME RowsOK, NEW from \in Int, NEW to \in Int,
         NEW counts, counts = [b \in {x \in Browsers : BrowserCount(from, to, x) > 0} |->
                                 BrowserCount(from, to, b)]
  PROVE  SumFunctionOnSet(counts, DOMAIN counts) = EventCount(from, to)
<1>1. PICK D : D = DOMAIN counts
  OBVIOUS
<1>2. D \subseteq Browsers /\ \A b \in Browsers : b \in D <=> BrowserCount(from, to, b) > 0
  BY <1>1
<1>3. \A b \in Browsers : BrowserCount(from, to, b) = SumFunctionOnSet(rows, Cells(from, to, {b}))
  BY DEF BrowserCount, Cells
<1>4. \A b \in Browsers : BrowserCount(from, to, b) \in Nat
  <2> SUFFICES ASSUME NEW b \in Browsers PROVE BrowserCount(from, to, b) \in Nat
    OBVIOUS
  <2>1. {b} \in SUBSET Browsers
    OBVIOUS
  <2>2. SumFunctionOnSet(rows, Cells(from, to, {b})) \in Nat
    BY <2>1, CellsFinite, RowsSum
  <2> QED BY <1>3, <2>2
<1>5. \A b \in D : counts[b] = BrowserCount(from, to, b) /\ counts[b] \in Nat
  BY <1>1, <1>4
<1> DEFINE T == {s \in SUBSET Browsers : SumFunctionOnSet(counts, s \cap D) =
                                           SumFunctionOnSet(rows, Cells(from, to, s))}
<1>6. {} \in T
  <2>1. {} \cap D = {} /\ Cells(from, to, {}) = {}
    BY DEF Cells
  <2> QED BY <2>1, SumOfNone
<1>7. ASSUME NEW s \in SUBSET Browsers, NEW b \in Browsers, s \in T, b \notin s
      PROVE  s \cup {b} \in T
  <2>1. /\ Cells(from, to, s) \cap Cells(from, to, {b}) = {}
        /\ Cells(from, to, s) \cup Cells(from, to, {b}) = Cells(from, to, s \cup {b})
    <3>1. ASSUME NEW c PROVE ~(c \in Cells(from, to, s) /\ c \in Cells(from, to, {b}))
      BY <1>7 DEF Cells
    <3>2. ASSUME NEW c
          PROVE  c \in Cells(from, to, s \cup {b}) <=>
                   c \in Cells(from, to, s) \/ c \in Cells(from, to, {b})
      BY DEF Cells
    <3> QED BY <3>1, <3>2
  <2>2. {b} \in SUBSET Browsers
    OBVIOUS
  <2>3. SumFunctionOnSet(rows, Cells(from, to, s \cup {b})) =
          SumFunctionOnSet(rows, Cells(from, to, s)) + BrowserCount(from, to, b)
    <3>1. /\ IsFiniteSet(Cells(from, to, s)) /\ IsFiniteSet(Cells(from, to, {b}))
          /\ \A c \in Cells(from, to, s) \cup Cells(from, to, {b}) : rows[c] \in Nat
      BY <2>2, CellsFinite DEF RowsOK
    <3>2. SumFunctionOnSet(rows, Cells(from, to, s) \cup Cells(from, to, {b})) =
            SumFunctionOnSet(rows, Cells(from, to, s)) + SumFunctionOnSet(rows, Cells(from, to, {b}))
      BY <2>1, <3>1, SumUnion
    <3> QED BY <1>3, <2>1, <3>2
  <2>4. SumFunctionOnSet(counts, s \cap D) = SumFunctionOnSet(rows, Cells(from, to, s))
    BY <1>7
  <2>5. IsFiniteSet(s \cap D) /\ \A x \in s \cap D : counts[x] \in Nat
    BY <1>5, StatisticsAssumption, FS_Subset
  <2>6. SumFunctionOnSet(counts, s \cap D) \in Nat
    BY <2>5, SumType
  <2>7. CASE b \in D
    <3>1. (s \cup {b}) \cap D = (s \cap D) \cup {b} /\ b \notin s \cap D
      BY <1>7, <2>7
    <3>2. SumFunctionOnSet(counts, (s \cap D) \cup {b}) = counts[b] + SumFunctionOnSet(counts, s \cap D)
      BY <1>5, <2>5, <2>7, <3>1, SumWith
    <3>3. counts[b] = BrowserCount(from, to, b) /\ counts[b] \in Nat
      BY <1>5, <2>7
    <3>4. PICK n \in Nat : n = SumFunctionOnSet(counts, s \cap D)
      BY <2>6
    <3>5. SumFunctionOnSet(rows, Cells(from, to, s \cup {b})) = n + counts[b]
      BY <2>3, <2>4, <3>3, <3>4
    <3>6. SumFunctionOnSet(counts, (s \cup {b}) \cap D) = counts[b] + n
      BY <3>1, <3>2, <3>4
    <3>7. SumFunctionOnSet(counts, (s \cup {b}) \cap D) =
            SumFunctionOnSet(rows, Cells(from, to, s \cup {b}))
      BY <3>3, <3>5, <3>6
    <3> QED BY <3>7
  <2>8. CASE b \notin D
    <3>1. (s \cup {b}) \cap D = s \cap D
      BY <2>8
    <3>2. BrowserCount(from, to, b) = 0
      BY <1>2, <1>4, <2>8
    <3>3. SumFunctionOnSet(counts, (s \cup {b}) \cap D) =
            SumFunctionOnSet(rows, Cells(from, to, s \cup {b}))
      BY <2>3, <2>4, <2>6, <3>1, <3>2
    <3> QED BY <3>3
  <2> QED BY <2>7, <2>8
<1> HIDE DEF T
<1>8. Browsers \in T
  <2>1. Browsers \in SUBSET Browsers
    OBVIOUS
  <2> QED BY <1>6, <1>7, <2>1, StatisticsAssumption, SubsetInduction
<1>9. Browsers \cap D = D
  BY <1>2
<1> QED
  BY <1>1, <1>8, <1>9 DEF T, EventCount, Cells

\* So the browser breakdown has every click as well.
LEMMA BrowserTotal ==
  ASSUME RowsOK, NEW from \in Int, NEW to \in Int,
         NEW counts, counts = [b \in {x \in Browsers : BrowserCount(from, to, x) > 0} |->
                                 BrowserCount(from, to, b)]
  PROVE  SumFunction(Bucket(counts, Top(counts))) = EventCount(from, to)
<1>1. DOMAIN counts \subseteq Browsers /\ IsFiniteSet(DOMAIN counts) /\ Other \notin DOMAIN counts
  BY StatisticsAssumption, FS_Subset
<1>2. \A b \in DOMAIN counts : counts[b] \in Nat
  <2> SUFFICES ASSUME NEW b \in Browsers PROVE BrowserCount(from, to, b) \in Nat
    OBVIOUS
  <2>1. BrowserCount(from, to, b) = SumFunctionOnSet(rows, Cells(from, to, {b}))
    BY DEF BrowserCount, Cells
  <2>2. {b} \in SUBSET Browsers
    OBVIOUS
  <2> QED BY <2>1, <2>2, CellsFinite, RowsSum
<1>3. Top(counts) \in SUBSET DOMAIN counts
  BY <1>1, <1>2, TopIsSome
<1>4. SumFunction(Bucket(counts, Top(counts))) = SumFunctionOnSet(counts, DOMAIN counts)
  BY <1>1, <1>2, <1>3, BucketSum
<1> QED
  BY <1>4, FamiliesSum

DailyOK == daily \in [Days -> Nat]

\* What is counted of a day has been inserted.
DailyFollows == \A d \in Days : daily[d] <= SumFunctionOnSet(rows, {d} \X Browsers)

LEMMA DailyTotal ==
  ASSUME RowsOK, DailyOK, DailyFollows, NEW from \in Int, NEW to \in Int
  PROVE  LET total == SumFunctionOnSet(daily, {d \in Days : from <= d /\ d < to})
         IN  total \in Nat /\ total <= EventCount(from, to)
<1>1. PICK D : D = {d \in Days : from <= d /\ d < to}
  OBVIOUS
<1>2. D \subseteq Days /\ IsFiniteSet(D) /\ IsFiniteSet(Browsers)
  BY <1>1, DaysType, StatisticsAssumption, FS_Subset
<1>3. \A s \in SUBSET D : IsFiniteSet(s)
  BY <1>2, FS_Subset
<1>4. \A s \in SUBSET D : SumFunctionOnSet(daily, s) \in Nat
  <2> SUFFICES ASSUME NEW s \in SUBSET D PROVE SumFunctionOnSet(daily, s) \in Nat
    OBVIOUS
  <2>1. \A d \in s : daily[d] \in Nat
    BY <1>2 DEF DailyOK
  <2> QED BY <1>3, <2>1, SumType
<1>5. \A s \in SUBSET D : /\ IsFiniteSet(s \X Browsers)
                          /\ SumFunctionOnSet(rows, s \X Browsers) \in Nat
  <2> SUFFICES ASSUME NEW s \in SUBSET D
               PROVE  /\ IsFiniteSet(s \X Browsers)
                      /\ SumFunctionOnSet(rows, s \X Browsers) \in Nat
    OBVIOUS
  <2>1. IsFiniteSet(s \X Browsers)
    BY <1>2, <1>3, FS_Product
  <2>2. s \X Browsers \in SUBSET (Days \X Browsers)
    BY <1>2
  <2> QED BY <2>1, <2>2, RowsSum
<1> DEFINE T == {s \in SUBSET D : SumFunctionOnSet(daily, s) <= SumFunctionOnSet(rows, s \X Browsers)}
<1>6. {} \in T
  <2>1. {} \X Browsers = {}
    OBVIOUS
  <2> QED BY <2>1, SumOfNone
<1>7. ASSUME NEW s \in SUBSET D, NEW d \in D, s \in T, d \notin s PROVE s \cup {d} \in T
  <2>1. {d} \in SUBSET D /\ s \cup {d} \in SUBSET D
    OBVIOUS
  <2>2. SumFunctionOnSet(daily, s \cup {d}) = daily[d] + SumFunctionOnSet(daily, s)
    <3>1. daily[d] \in Nat /\ \A e \in s : daily[e] \in Nat
      BY <1>2 DEF DailyOK
    <3> QED BY <1>3, <1>7, <3>1, SumWith
  <2>3. (s \cup {d}) \X Browsers = (s \X Browsers) \cup ({d} \X Browsers)
        /\ (s \X Browsers) \cap ({d} \X Browsers) = {}
    BY <1>7
  <2>4. SumFunctionOnSet(rows, (s \cup {d}) \X Browsers) =
          SumFunctionOnSet(rows, s \X Browsers) + SumFunctionOnSet(rows, {d} \X Browsers)
    <3>1. \A c \in (s \X Browsers) \cup ({d} \X Browsers) : rows[c] \in Nat
      BY <1>2 DEF RowsOK
    <3>2. PICK P : P = s \X Browsers
      OBVIOUS
    <3>3. PICK Q : Q = {d} \X Browsers
      OBVIOUS
    <3>4. IsFiniteSet(P) /\ IsFiniteSet(Q)
      BY <1>5, <2>1, <3>2, <3>3
    <3>5. P \cap Q = {} /\ \A c \in P \cup Q : rows[c] \in Nat
      BY <2>3, <3>1, <3>2, <3>3
    <3>6. SumFunctionOnSet(rows, P \cup Q) = SumFunctionOnSet(rows, P) + SumFunctionOnSet(rows, Q)
      BY <3>4, <3>5, SumUnion
    <3> QED BY <2>3, <3>2, <3>3, <3>6
  <2>5. daily[d] <= SumFunctionOnSet(rows, {d} \X Browsers) /\ daily[d] \in Nat
    BY <1>2 DEF DailyFollows, DailyOK
  <2>6. SumFunctionOnSet(daily, s) <= SumFunctionOnSet(rows, s \X Browsers)
    BY <1>7
  <2>7. /\ SumFunctionOnSet(daily, s) \in Nat
        /\ SumFunctionOnSet(rows, s \X Browsers) \in Nat
        /\ SumFunctionOnSet(rows, {d} \X Browsers) \in Nat
    BY <1>4, <1>5, <2>1
  <2>8. SumFunctionOnSet(daily, s \cup {d}) <= SumFunctionOnSet(rows, (s \cup {d}) \X Browsers)
    BY <2>2, <2>4, <2>5, <2>6, <2>7
  <2> QED BY <2>1, <2>8
<1> HIDE DEF T
<1>8. D \in T
  <2>1. D \in SUBSET D
    OBVIOUS
  <2> QED BY <1>2, <1>6, <1>7, <2>1, SubsetInduction
<1>9. D \X Browsers = {c \in Days \X Browsers : from <= c[1] /\ c[1] < to}
  BY <1>1
<1>10. D \in SUBSET D
  OBVIOUS
<1> QED
  BY <1>1, <1>4, <1>8, <1>9, <1>10 DEF T, EventCount

-----------------------------------------------------------------------------
(* The types, and the daily counts that follow the rows.                   *)

DaySum(d) == SumFunctionOnSet(rows, {d} \X Browsers)

\* One more row: sums that have its cell grow by one, the others stay.
LEMMA InsertSums ==
  ASSUME RowsOK, NEW d \in Days, NEW b \in Browsers, InsertClickEvent(d, b),
         NEW S \in SUBSET (Days \X Browsers), IsFiniteSet(S)
  PROVE  SumFunctionOnSet(rows', S) = IF <<d, b>> \in S THEN SumFunctionOnSet(rows, S) + 1
                                      ELSE SumFunctionOnSet(rows, S)
<1>1. PICK c \in Days \X Browsers : c = <<d, b>>
  OBVIOUS
<1>2. /\ \A x \in S : rows[x] \in Nat /\ rows'[x] \in Nat
      /\ \A x \in S \ {c} : rows'[x] = rows[x]
      /\ rows[c] \in Nat /\ rows'[c] = rows[c] + 1
  BY <1>1 DEF InsertClickEvent, RowsOK
<1>3. IsFiniteSet(S \ {c})
  BY FS_Subset
<1>4. SumFunctionOnSet(rows', S \ {c}) = SumFunctionOnSet(rows, S \ {c})
  BY <1>2, <1>3, SumSame
<1>5. CASE c \in S
  <2>1. /\ SumFunctionOnSet(rows, S) = rows[c] + SumFunctionOnSet(rows, S \ {c})
        /\ SumFunctionOnSet(rows', S) = rows'[c] + SumFunctionOnSet(rows', S \ {c})
    BY <1>2, <1>5, SumOfAny
  <2>2. SumFunctionOnSet(rows, S \ {c}) \in Nat
    BY <1>2, <1>3, SumType
  <2> QED BY <1>1, <1>2, <1>4, <1>5, <2>1, <2>2
<1>6. CASE c \notin S
  <2>1. S \ {c} = S
    BY <1>6
  <2> QED BY <1>1, <1>4, <1>6, <2>1
<1> QED
  BY <1>5, <1>6

LEMMA DayFinite ==
  ASSUME NEW d \in Days
  PROVE  {d} \X Browsers \in SUBSET (Days \X Browsers) /\ IsFiniteSet({d} \X Browsers)
BY StatisticsAssumption, FS_Singleton, FS_Product

LEMMA AskedType ==
  ASSUME RowsOK, NEW r \in Requests
  PROVE  Asked(r) \in Nat
<1>1. r.from \in Int /\ ToExclusive(r) \in Int
  BY DEF Requests, ToExclusive
<1> QED
  BY <1>1, EventCountType, EventCountIsAsked

TableOK == /\ today \in Days /\ ensured \subseteq Days /\ faults \in 0..MaxFaults
           /\ up \in BOOLEAN /\ due \in BOOLEAN
           /\ partitions \cup defaulted \subseteq 1..(Len(Lengths) + 2)

CountsOK == /\ RowsOK /\ DailyOK /\ delta \in [Days -> Nat]
            /\ \A d \in Days : daily[d] + delta[d] <= DaySum(d)

\* The breakdowns that precede each query.
Place ==
  [pc \in {"idle", "referrer", "country", "os", "browser", "day"} |->
     IF pc \in {"idle", "referrer"} THEN 0 ELSE IF pc = "country" THEN 1
     ELSE IF pc = "os" THEN 2 ELSE IF pc = "browser" THEN 3 ELSE 4]

\* What makes ResponseExplained inductive: the daily counts are read fifth, and
\* only for a request that is not hourly; and what there was of the days asked
\* for is still there.
ResponseInv ==
  /\ request.pc \in DOMAIN Place => Len(request.totals) = Place[request.pc]
  /\ request.pc = "day" => ~request.hourly
  /\ request.before <= Asked(request)
  /\ ResponseExplained

RequestOK == request \in Requests

TypeInv == TableOK /\ CountsOK /\ RequestOK

LEMMA TypeOKIs == TypeInv <=> TypeOK
BY DEF TypeInv, TypeOK, TableOK, CountsOK, RequestOK, RowsOK, DailyOK, DaySum

LEMMA CountsFollow == CountsOK => DailyFollows
<1> SUFFICES ASSUME CountsOK, NEW d \in Days PROVE daily[d] <= DaySum(d)
  BY DEF DailyFollows, DaySum
<1>1. DaySum(d) \in Nat
  BY DayFinite, RowsSum DEF DaySum, CountsOK
<1>2. daily[d] \in Nat /\ delta[d] \in Nat /\ daily[d] + delta[d] <= DaySum(d)
  BY DEF CountsOK, DailyOK
<1> QED BY <1>1, <1>2

-----------------------------------------------------------------------------
(* Steps of the worker.                                                    *)

LEMMA MonthsType ==
  ASSUME NEW d \in Days
  PROVE  MonthOf(d) \in 1..(Len(Lengths) + 2) /\ MonthAfter(d) \in 1..(Len(Lengths) + 2)
<1>1. Len(Lengths) \in Nat
  BY StatisticsAssumption
<1>2. MonthOf(d) \in 1..Len(Lengths)
  BY DaysType
<1>3. PICK m \in 1..Len(Lengths) : m = MonthOf(d)
  BY <1>2
<1>4. MonthAfter(d) \in {m + 1, m + 2}
  BY <1>3 DEF MonthAfter
<1> QED BY <1>1, <1>3, <1>4

LEMMA EnsureTypes ==
  ASSUME TableOK, EnsurePartitions(today) \/ EnsureFails(today), UNCHANGED defaulted
  PROVE  /\ partitions' \cup defaulted' \subseteq 1..(Len(Lengths) + 2)
         /\ ensured' \subseteq Days /\ faults' \in 0..MaxFaults
<1>1. MaxFaults \in Nat /\ today \in Days /\ faults \in 0..MaxFaults
  BY StatisticsAssumption DEF TableOK
<1>2. MonthOf(today) \in 1..(Len(Lengths) + 2) /\ MonthAfter(today) \in 1..(Len(Lengths) + 2)
  BY <1>1, MonthsType
<1>3. CASE EnsurePartitions(today)
  BY <1>1, <1>2, <1>3 DEF EnsurePartitions, TableOK
<1>4. CASE EnsureFails(today)
  BY <1>1, <1>2, <1>4 DEF EnsureFails, Fault, TableOK
<1> QED BY <1>3, <1>4

LEMMA TableStep ==
  ASSUME TableOK, Next
  PROVE  TableOK'
<1>1. CASE StartWorker
  BY <1>1, EnsureTypes DEF StartWorker, TableOK
<1>2. CASE Maintain
  BY <1>2, EnsureTypes DEF Maintain, TableOK
<1>3. CASE NextDay
  BY <1>3 DEF NextDay, TableOK, table
<1>4. CASE StopWorker
  <2>1. MaxFaults \in Nat
    BY StatisticsAssumption
  <2>2. UNCHANGED <<today, partitions, defaulted, ensured>> /\ up' = FALSE /\ due' = FALSE
    BY <1>4 DEF StopWorker, table
  <2>3. faults' \in 0..MaxFaults
    BY <1>4, <2>1 DEF StopWorker, Fault, TableOK
  <2>4. up' \in BOOLEAN /\ due' \in BOOLEAN
    BY <2>2
  <2> QED BY <2>2, <2>3, <2>4 DEF TableOK
<1>5. ASSUME NEW d \in Days, UpsertDailyCount(d) PROVE TableOK'
  BY <1>5 DEF UpsertDailyCount, TableOK
<1>6. ASSUME NEW d \in Days, NEW b \in Browsers, InsertClickEvent(d, b) PROVE TableOK'
  <2>1. PICK m : m = MonthOf(d) /\ m \in 1..(Len(Lengths) + 2)
    BY MonthsType
  <2>2. UNCHANGED <<today, up, due, partitions, ensured, faults>>
        /\ defaulted' \subseteq defaulted \cup {m}
    BY <1>6, <2>1 DEF InsertClickEvent
  <2> QED BY <2>1, <2>2 DEF TableOK
<1>7. CASE Read
  <2>1. UNCHANGED <<today, up, due, table, ensured, faults>>
    BY <1>7 DEF Read, GetStats, ReferrerCounts, CountryCounts, OSCounts, BrowserCounts,
                HourlyCounts, DailyCounts, Query, Respond
  <2> QED BY <2>1 DEF TableOK, table
<1> QED
  BY <1>1, <1>2, <1>3, <1>4, <1>5, <1>6, <1>7 DEF Next, Record

\* A step that is not of the reader leaves the counts, or moves them.
LEMMA CountsStep ==
  ASSUME CountsOK, Next
  PROVE  CountsOK'
<1>0. \A d \in Days : DaySum(d) \in Nat
  <2> SUFFICES ASSUME NEW d \in Days PROVE DaySum(d) \in Nat
    OBVIOUS
  <2> QED BY DayFinite, RowsSum DEF DaySum, CountsOK
<1>1. CASE UNCHANGED <<rows, daily, delta>>
  BY <1>1 DEF CountsOK, RowsOK, DailyOK, DaySum
<1>2. CASE StartWorker \/ Maintain \/ NextDay
  BY <1>1, <1>2 DEF StartWorker, Maintain, NextDay, table
<1>3. CASE Read
  <2>1. UNCHANGED <<rows, daily, delta>>
    BY <1>3 DEF Read, GetStats, ReferrerCounts, CountryCounts, OSCounts, BrowserCounts,
                HourlyCounts, DailyCounts, Query, Respond, table
  <2> QED BY <1>1, <2>1
<1>4. CASE StopWorker
  <2>1. UNCHANGED <<rows, daily>> /\ delta' = [d \in Days |-> 0]
    BY <1>4 DEF StopWorker, table
  <2>2. RowsOK' /\ DailyOK' /\ delta' \in [Days -> Nat]
    BY <2>1 DEF CountsOK, RowsOK, DailyOK
  <2>3. ASSUME NEW d \in Days PROVE daily'[d] + delta'[d] <= DaySum(d)'
    <3>1. daily[d] + delta[d] <= DaySum(d) /\ daily[d] \in Nat /\ delta[d] \in Nat
      BY DEF CountsOK, DailyOK
    <3>2. DaySum(d)' = DaySum(d) /\ daily'[d] + delta'[d] = daily[d]
      BY <2>1, <3>1 DEF DaySum
    <3> QED BY <1>0, <3>1, <3>2
  <2> QED BY <2>2, <2>3 DEF CountsOK
<1>5. ASSUME NEW e \in Days, UpsertDailyCount(e) PROVE CountsOK'
  <2>1. /\ UNCHANGED rows
        /\ daily' = [daily EXCEPT ![e] = @ + delta[e]] /\ delta' = [delta EXCEPT ![e] = 0]
    BY <1>5 DEF UpsertDailyCount
  <2>2. RowsOK' /\ DailyOK' /\ delta' \in [Days -> Nat]
    BY <2>1 DEF CountsOK, RowsOK, DailyOK
  <2>3. ASSUME NEW d \in Days PROVE daily'[d] + delta'[d] <= DaySum(d)'
    <3>1. daily[d] + delta[d] <= DaySum(d) /\ daily[d] \in Nat /\ delta[d] \in Nat
      BY DEF CountsOK, DailyOK
    <3>2. DaySum(d)' = DaySum(d) /\ daily'[d] + delta'[d] = daily[d] + delta[d]
      BY <2>1, <3>1 DEF DaySum, CountsOK, DailyOK
    <3> QED BY <3>1, <3>2
  <2> QED BY <2>2, <2>3 DEF CountsOK
<1>6. ASSUME NEW e \in Days, NEW b \in Browsers, InsertClickEvent(e, b) PROVE CountsOK'
  <2>1. /\ UNCHANGED daily /\ delta' = [delta EXCEPT ![e] = @ + 1]
        /\ rows' = [rows EXCEPT ![<<e, b>>] = @ + 1]
    BY <1>6 DEF InsertClickEvent
  <2>2. RowsOK' /\ DailyOK' /\ delta' \in [Days -> Nat]
    BY <2>1 DEF CountsOK, RowsOK, DailyOK
  <2>3. ASSUME NEW d \in Days PROVE daily'[d] + delta'[d] <= DaySum(d)'
    <3>1. daily[d] + delta[d] <= DaySum(d) /\ daily[d] \in Nat /\ delta[d] \in Nat
      BY DEF CountsOK, DailyOK
    <3>2. DaySum(d)' = IF d = e THEN DaySum(d) + 1 ELSE DaySum(d)
      <4>1. <<e, b>> \in {d} \X Browsers <=> d = e
        OBVIOUS
      <4>2. RowsOK
        BY DEF CountsOK
      <4> QED BY <1>6, <4>1, <4>2, DayFinite, InsertSums DEF DaySum
    <3>3. daily'[d] = daily[d] /\ delta'[d] = IF d = e THEN delta[d] + 1 ELSE delta[d]
      BY <2>1 DEF CountsOK
    <3> QED BY <1>0, <3>1, <3>2, <3>3
  <2> QED BY <2>2, <2>3 DEF CountsOK
<1> QED
  BY <1>2, <1>3, <1>4, <1>5, <1>6 DEF Next, Record

-----------------------------------------------------------------------------
(* Steps of the reader.                                                    *)

Pcs == {"idle", "referrer", "country", "os", "browser", "day", "hour", "respond"}

\* A request keeps its days, so what is asked for is the same.
LEMMA AskedSame ==
  ASSUME NEW r \in Requests, NEW s \in Requests, r.from = s.from, r.to = s.to
  PROVE  Asked(r) = Asked(s)
BY DEF Asked

\* A query that finds what is there, or is the fifth of a request by the day and
\* finds no more, keeps the response explained.
LEMMA QueryStep ==
  ASSUME CountsOK, RequestOK, ResponseInv, NEW pc \in Pcs, NEW next \in Pcs, NEW total \in Nat,
         Query(pc, next, total), next # "idle",
         next \in DOMAIN Place => pc \in DOMAIN Place /\ Place[next] = Place[pc] + 1,
         next = "day" => ~request.hourly,
         total = Asked(request) \/ (pc = "day" /\ total <= Asked(request))
  PROVE  RequestOK' /\ ResponseInv'
<1>1. PICK r \in Requests : r = request
  BY DEF RequestOK
<1>2. PICK s : s = [r EXCEPT !.pc = next, !.totals = Append(@, total)]
  OBVIOUS
<1>3. request' = s /\ r.pc = pc /\ UNCHANGED rows
  BY <1>1, <1>2 DEF Query, table
<1>4. /\ r.pc \in Pcs /\ r.from \in Int /\ r.to \in Int /\ r.hourly \in BOOLEAN
      /\ r.totals \in Seq(Nat) /\ r.before \in Nat
  BY DEF Requests, Pcs
<1>5. PICK n \in Nat : n = Len(r.totals) /\ DOMAIN r.totals = 1..n
  BY <1>4
<1>6. PICK t : t = Append(r.totals, total)
  OBVIOUS
<1>7. /\ t \in Seq(Nat) /\ Len(t) = n + 1 /\ DOMAIN t = 1..(n + 1) /\ t[n + 1] = total
      /\ \A i \in 1..n : t[i] = r.totals[i] /\ t[i] \in Nat
  BY <1>4, <1>5, <1>6
<1>8. s = [pc |-> next, from |-> r.from, to |-> r.to, hourly |-> r.hourly,
           totals |-> t, before |-> r.before]
  BY <1>2, <1>6 DEF Requests
<1>9. s \in Requests
  BY <1>4, <1>7, <1>8 DEF Requests, Pcs
<1>10. PICK a \in Nat : a = Asked(r)
  BY AskedType DEF CountsOK
<1>11. Asked(s) = a
  BY <1>8, <1>9, <1>10, AskedSame
<1>12. Asked(request)' = a
  BY <1>3, <1>11 DEF Asked
<1>13. /\ r.pc \in DOMAIN Place => n = Place[r.pc]
       /\ r.pc = "day" => ~r.hourly
       /\ r.before <= a
       /\ \A i \in 1..n : r.totals[i] <= a
       /\ \A i \in IF r.hourly THEN 1..n ELSE 1..n \ {5} : r.before <= r.totals[i]
       /\ \A i, j \in IF r.hourly THEN 1..n ELSE 1..n \ {5} : i < j => r.totals[i] <= r.totals[j]
  BY <1>1, <1>5, <1>10 DEF ResponseInv, ResponseExplained
<1>14. total = a \/ (pc = "day" /\ total <= a)
  BY <1>1, <1>10
<1>15. pc = "day" => n + 1 = 5 /\ ~r.hourly
  BY <1>3, <1>13 DEF Place
<1> DEFINE events == IF r.hourly THEN 1..(n + 1) ELSE 1..(n + 1) \ {5}
           before == IF r.hourly THEN 1..n ELSE 1..n \ {5}
<1>16. \A i \in events : i \in before \/ (i = n + 1 /\ total = a)
  <2> SUFFICES ASSUME NEW i \in events, i \notin before PROVE i = n + 1 /\ total = a
    OBVIOUS
  <2>1. i = n + 1 /\ (r.hourly \/ i # 5)
    OBVIOUS
  <2>2. pc # "day"
    BY <1>15, <2>1
  <2> QED BY <1>14, <2>1, <2>2
<1>17. \A i \in before : i \in 1..n
  OBVIOUS
<1>18. \A i \in 1..(n + 1) : t[i] <= a
  BY <1>7, <1>13, <1>14
<1>19. \A i \in events : r.before <= t[i]
  <2> SUFFICES ASSUME NEW i \in events PROVE r.before <= t[i]
    OBVIOUS
  <2>1. CASE i \in before
    BY <1>7, <1>13, <1>17, <2>1
  <2>2. CASE i = n + 1 /\ total = a
    BY <1>7, <1>13, <2>2
  <2> QED BY <1>16, <2>1, <2>2
<1>20. \A i, j \in events : i < j => t[i] <= t[j]
  <2> SUFFICES ASSUME NEW i \in events, NEW j \in events, i < j PROVE t[i] <= t[j]
    OBVIOUS
  <2>1. i \in 1..(n + 1) /\ j \in 1..(n + 1)
    OBVIOUS
  <2>2. i \in before
    BY <1>16, <2>1
  <2>3. CASE j \in before
    BY <1>7, <1>13, <1>17, <2>2, <2>3
  <2>4. CASE j = n + 1 /\ total = a
    BY <1>7, <1>18, <2>1, <2>4
  <2> QED BY <1>16, <2>3, <2>4
<1>21. ResponseExplained'
  <2>1. /\ DOMAIN s.totals = 1..(n + 1) /\ s.totals = t /\ s.before = r.before
        /\ s.hourly = r.hourly
    BY <1>7, <1>8
  <2>2. /\ \A i \in DOMAIN s.totals : s.totals[i] <= a
        /\ \A i \in events : s.before <= s.totals[i]
        /\ \A i, j \in events : i < j => s.totals[i] <= s.totals[j]
    BY <1>18, <1>19, <1>20, <2>1
  <2>3. events = IF s.hourly THEN DOMAIN s.totals ELSE DOMAIN s.totals \ {5}
    BY <2>1
  <2> HIDE DEF events
  <2> QED BY <1>3, <1>12, <2>2, <2>3 DEF ResponseExplained
<1>22. RequestOK'
  BY <1>3, <1>9 DEF RequestOK
<1>23. next \in DOMAIN Place => Len(t) = Place[next]
  BY <1>3, <1>7, <1>13
<1>24. s.pc = next /\ s.totals = t /\ s.before = r.before /\ s.hourly = r.hourly
  BY <1>8
<1>25. next = "day" => ~s.hourly
  BY <1>1, <1>24
<1>26. /\ s.pc \in DOMAIN Place => Len(s.totals) = Place[s.pc]
       /\ s.pc = "day" => ~s.hourly
       /\ s.before <= a
  BY <1>13, <1>23, <1>24, <1>25
<1> QED
  BY <1>3, <1>12, <1>21, <1>22, <1>26 DEF ResponseInv, Place

LEMMA IdleOK == Idle \in Requests /\ Idle.totals = <<>> /\ Idle.before = 0 /\ Idle.pc = "idle"
BY DEF Idle, Requests

\* Nothing is told without a request, nor before its first query.
LEMMA FreshRequest ==
  ASSUME CountsOK, NEW r \in Requests, request' = r, UNCHANGED rows, r.totals = <<>>,
         r.pc \in {"idle", "referrer"}, r.before <= Asked(r)
  PROVE  RequestOK' /\ ResponseInv'
<1>1. Asked(request)' = Asked(r)
  BY DEF Asked
<1>2. DOMAIN r.totals = {} /\ Len(r.totals) = 0
  OBVIOUS
<1>3. ResponseExplained'
  BY <1>2 DEF ResponseExplained
<1>4. r.pc \in DOMAIN Place => Len(r.totals) = Place[r.pc]
  BY <1>2 DEF Place
<1> QED
  BY <1>1, <1>3, <1>4 DEF ResponseInv, RequestOK, Place

LEMMA ReadStep ==
  ASSUME TypeInv, ResponseInv, Read
  PROVE  RequestOK' /\ ResponseInv'
<1>1. CountsOK /\ RowsOK /\ DailyOK /\ RequestOK /\ DailyFollows
  BY CountsFollow DEF TypeInv, CountsOK
<1>2. PICK r \in Requests : r = request
  BY <1>1 DEF RequestOK
<1>3. r.from \in Int /\ r.to \in Int /\ ToExclusive(r) \in Int
  BY DEF Requests, ToExclusive
<1>4. EventCount(r.from, ToExclusive(r)) = Asked(r) /\ Asked(r) \in Nat
  BY <1>1, AskedType, EventCountIsAsked
<1>5. ASSUME NEW from \in AskDays, NEW to \in AskDays, NEW hourly \in BOOLEAN,
             GetStats(from, to, hourly)
      PROVE  RequestOK' /\ ResponseInv'
  <2>1. PICK p : p = RangeOf(from, to)
    OBVIOUS
  <2>2. today \in Nat /\ DefaultDays \in Nat
    BY DaysType, StatisticsAssumption DEF TypeInv, TableOK
  <2>3. (from = None \/ from \in Int) /\ (to = None \/ to \in Int)
    BY StatisticsAssumption
  <2>4. p \in Requests /\ p.totals = <<>>
    <3>0. today - (DefaultDays - 1) \in Int
      BY <2>2
    <3>1. PICK f \in Int : f = IF from = None THEN today - (DefaultDays - 1) ELSE from
      BY <2>3, <3>0
    <3>2. PICK t \in Int : t = IF to = None THEN today ELSE to
      BY <2>2, <2>3
    <3>3. p = [Idle EXCEPT !.from = f, !.to = t]
      BY <2>1, <3>1, <3>2 DEF RangeOf
    <3>4. p = [pc |-> "idle", from |-> f, to |-> t, hourly |-> FALSE, totals |-> <<>>, before |-> 0]
      BY <3>3 DEF Idle
    <3>5. <<>> \in Seq(Nat) /\ FALSE \in BOOLEAN /\ 0 \in Nat
      OBVIOUS
    <3> QED BY <3>4, <3>5 DEF Requests
  <2>5. PICK s : s = [p EXCEPT !.pc = "referrer", !.hourly = hourly, !.before = Asked(p)]
    OBVIOUS
  <2>6. Asked(p) \in Nat
    BY <1>1, <2>4, AskedType
  <2>7. /\ s \in Requests /\ s.totals = <<>> /\ s.pc = "referrer" /\ s.before = Asked(p)
        /\ s.from = p.from /\ s.to = p.to
    BY <2>4, <2>5, <2>6 DEF Requests
  <2>8. Asked(s) = Asked(p)
    BY <2>4, <2>7, AskedSame
  <2>9. request' = s /\ UNCHANGED rows
    BY <1>5, <2>1, <2>5 DEF GetStats, table
  <2>10. s.before <= Asked(s)
    BY <2>6, <2>7, <2>8
  <2> QED BY <1>1, <2>7, <2>9, <2>10, FreshRequest
<1>6. CASE ReferrerCounts
  BY <1>1, <1>2, <1>4, <1>6, QueryStep DEF ReferrerCounts, Pcs, Place
<1>7. CASE CountryCounts
  BY <1>1, <1>2, <1>4, <1>7, QueryStep DEF CountryCounts, Pcs, Place
<1>8. CASE OSCounts
  BY <1>1, <1>2, <1>4, <1>8, QueryStep DEF OSCounts, Pcs, Place
<1>9. CASE BrowserCounts
  <2>1. PICK counts : counts = [b \in {x \in Browsers : BrowserCount(r.from, ToExclusive(r), x) > 0} |->
                                  BrowserCount(r.from, ToExclusive(r), b)]
    OBVIOUS
  <2>2. PICK total : total = SumFunction(Bucket(counts, Top(counts)))
    OBVIOUS
  <2>3. total = Asked(r)
    BY <1>1, <1>3, <1>4, <2>1, <2>2, BrowserTotal
  <2>4. Query("browser", IF r.hourly THEN "hour" ELSE "day", total)
    BY <1>2, <1>9, <2>1, <2>2 DEF BrowserCounts
  <2>5. CASE r.hourly
    <3>1. Query("browser", "hour", total)
      BY <2>4, <2>5
    <3> QED BY <1>1, <1>2, <1>4, <2>3, <3>1, QueryStep DEF Pcs, Place
  <2>6. CASE ~r.hourly
    <3>1. Query("browser", "day", total)
      BY <2>4, <2>6
    <3> QED BY <1>1, <1>2, <1>4, <2>3, <2>6, <3>1, QueryStep DEF Pcs, Place
  <2> QED BY <2>5, <2>6
<1>10. CASE HourlyCounts
  BY <1>1, <1>2, <1>4, <1>10, QueryStep DEF HourlyCounts, Pcs, Place
<1>11. CASE DailyCounts
  <2>1. PICK total : total = SumFunctionOnSet(daily, {d \in Days : r.from <= d /\ d < ToExclusive(r)})
    OBVIOUS
  <2>2. total \in Nat /\ total <= Asked(r)
    BY <1>1, <1>3, <1>4, <2>1, DailyTotal
  <2>3. Query("day", "respond", total)
    BY <1>2, <1>11, <2>1 DEF DailyCounts
  <2> QED BY <1>1, <1>2, <2>2, <2>3, QueryStep DEF Pcs, Place
<1>12. CASE Respond
  <2>1. request' = Idle /\ UNCHANGED rows
    BY <1>12 DEF Respond, table
  <2>2. Asked(Idle) \in Nat
    BY <1>1, IdleOK, AskedType
  <2> QED BY <1>1, <2>1, <2>2, IdleOK, FreshRequest
<1> QED
  BY <1>5, <1>6, <1>7, <1>8, <1>9, <1>10, <1>11, <1>12 DEF Read

\* A step of the worker only adds to what was asked for.
LEMMA OthersStep ==
  ASSUME TypeInv, ResponseInv, UNCHANGED request,
         UNCHANGED rows \/ \E d \in Days, b \in Browsers : InsertClickEvent(d, b)
  PROVE  RequestOK' /\ ResponseInv'
<1>1. CountsOK /\ RowsOK /\ RequestOK
  BY DEF TypeInv, CountsOK
<1>2. PICK r \in Requests : r = request
  BY <1>1 DEF RequestOK
<1>3. Asked(r) \in Nat /\ Asked(r)' \in Nat /\ Asked(r) <= Asked(r)'
  <2>1. PICK S : S = {c \in Days \X Browsers : c[1] \in r.from..r.to}
    OBVIOUS
  <2>2. S \in SUBSET (Days \X Browsers) /\ IsFiniteSet(S)
    <3>1. IsFiniteSet(Days \X Browsers)
      BY DaysType, StatisticsAssumption, FS_Product
    <3>2. S \in SUBSET (Days \X Browsers)
      BY <2>1
    <3> QED BY <3>1, <3>2, FS_Subset
  <2>3. Asked(r) = SumFunctionOnSet(rows, S) /\ Asked(r)' = SumFunctionOnSet(rows', S)
    BY <2>1 DEF Asked
  <2>4. Asked(r) \in Nat
    BY <1>1, AskedType
  <2>5. CASE UNCHANGED rows
    BY <2>3, <2>4, <2>5
  <2>6. ASSUME NEW d \in Days, NEW b \in Browsers, InsertClickEvent(d, b)
        PROVE  Asked(r)' = Asked(r) \/ Asked(r)' = Asked(r) + 1
    BY <1>1, <2>2, <2>3, <2>6, InsertSums
  <2> QED BY <2>4, <2>5, <2>6
<1>4. Asked(request) = Asked(r) /\ Asked(request)' = Asked(r)'
  BY <1>2 DEF Asked
<1>5. r.totals \in Seq(Nat) /\ r.before \in Nat
  BY DEF Requests
<1>6. \A i \in DOMAIN r.totals : r.totals[i] \in Nat /\ r.totals[i] <= Asked(r)
  BY <1>2, <1>4, <1>5 DEF ResponseInv, ResponseExplained
<1>7. r.before <= Asked(r)
  BY <1>2, <1>4 DEF ResponseInv
<1>8. PICK a \in Nat : a = Asked(r)
  BY <1>3
<1>9. PICK b \in Nat : b = Asked(r)'
  BY <1>3
<1>10. (\A i \in DOMAIN r.totals : r.totals[i] <= b) /\ r.before <= b
  BY <1>3, <1>5, <1>6, <1>7, <1>8, <1>9
<1>11. ResponseExplained'
  BY <1>2, <1>4, <1>9, <1>10 DEF ResponseInv, ResponseExplained
<1> QED
  BY <1>2, <1>4, <1>9, <1>10, <1>11 DEF ResponseInv, RequestOK, Place

ReadInv == TypeInv /\ ResponseInv

LEMMA ReadInit == Init => ReadInv
<1> SUFFICES ASSUME Init PROVE ReadInv
  OBVIOUS
<1>1. RowsOK /\ DailyOK /\ delta \in [Days -> Nat]
  BY DEF Init, RowsOK, DailyOK
<1>2. ASSUME NEW d \in Days PROVE daily[d] + delta[d] <= DaySum(d)
  <2>1. daily[d] = 0 /\ delta[d] = 0
    BY DEF Init
  <2>2. DaySum(d) \in Nat
    BY <1>1, DayFinite, RowsSum DEF DaySum
  <2> QED BY <2>1, <2>2
<1>3. CountsOK
  BY <1>1, <1>2 DEF CountsOK
<1>4. TableOK
  <2>1. today \in Days /\ faults \in 0..MaxFaults
    BY DaysType, StatisticsAssumption DEF Init
  <2>2. up \in BOOLEAN /\ due \in BOOLEAN
    BY DEF Init
  <2> QED BY <2>1, <2>2 DEF Init, TableOK
<1>5. request = Idle
  BY DEF Init
<1>6. Asked(Idle) \in Nat
  BY <1>1, IdleOK, AskedType
<1>7. ResponseExplained
  BY <1>5, IdleOK DEF ResponseExplained
<1>8. ResponseInv
  BY <1>5, <1>6, <1>7, IdleOK DEF ResponseInv, Place
<1> QED
  BY <1>3, <1>4, <1>5, <1>8, IdleOK DEF ReadInv, TypeInv, RequestOK

LEMMA NextStep == ReadInv /\ [Next]_vars => ReadInv'
<1> SUFFICES ASSUME ReadInv, [Next]_vars PROVE ReadInv'
  OBVIOUS
<1>1. CASE Next
  <2>1. TableOK' /\ CountsOK'
    BY <1>1, TableStep, CountsStep DEF ReadInv, TypeInv
  <2>2. RequestOK' /\ ResponseInv'
    <3>1. CASE Read
      BY <3>1, ReadStep DEF ReadInv
    <3>2. CASE StartWorker \/ Maintain \/ NextDay \/ StopWorker
      <4>1. UNCHANGED <<request, rows>>
        BY <3>2 DEF StartWorker, Maintain, NextDay, StopWorker, table
      <4> QED BY <4>1, OthersStep DEF ReadInv
    <3>3. ASSUME NEW d \in Days, UpsertDailyCount(d) PROVE RequestOK' /\ ResponseInv'
      <4>1. UNCHANGED <<request, rows>>
        BY <3>3 DEF UpsertDailyCount
      <4> QED BY <4>1, OthersStep DEF ReadInv
    <3>4. ASSUME NEW d \in Days, NEW b \in Browsers, InsertClickEvent(d, b)
          PROVE  RequestOK' /\ ResponseInv'
      <4>1. UNCHANGED request
        BY <3>4 DEF InsertClickEvent
      <4> QED BY <3>4, <4>1, OthersStep DEF ReadInv
    <3> QED BY <1>1, <3>1, <3>2, <3>3, <3>4 DEF Next, Record
  <2> QED BY <2>1, <2>2 DEF ReadInv, TypeInv
<1>2. CASE UNCHANGED vars
  BY <1>2 DEF vars, table, ReadInv, TypeInv, TableOK, CountsOK, RowsOK, DailyOK, DaySum, RequestOK,
              ResponseInv, ResponseExplained, Asked, Place
<1> QED BY <1>1, <1>2

\* Every variable has its type, and no day has been counted, or is about to be,
\* more often than clicks of it were inserted: UpsertDailyCount follows
\* InsertClickEvent, whatever stops in between.
THEOREM TypeCorrect == Spec => []TypeOK
<1>1. ReadInv => TypeOK
  BY TypeOKIs DEF ReadInv
<1> QED BY <1>1, ReadInit, NextStep, PTL DEF Spec

\* Every breakdown of a response has the clicks of the days that were asked for,
\* both included: none that is outside, all that there were when the request
\* began, and at least what the breakdowns before it have; and the daily counts
\* never show more.  GetStats, between the steps of the worker.
THEOREM ResponsesAreExplained == Spec => []ResponseExplained
<1>1. ReadInv => ResponseExplained
  BY DEF ReadInv, ResponseInv
<1> QED BY <1>1, ReadInit, NextStep, PTL DEF Spec
=============================================================================
