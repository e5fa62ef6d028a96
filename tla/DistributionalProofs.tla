------------------------- MODULE DistributionalProofs -------------------------
(***************************************************************************)
(* What a verdict of a distributional grader means, for any grader, any    *)
(* population of cases and slices, any size and level of the bootstrap and *)
(* every draw of the generator.                                            *)
(*                                                                         *)
(* The invariant (Inv) says that the resamples at hand are an ascending    *)
(* list of sums of the population whose turn it is (Drawn), and that each  *)
(* population that had its turn has one report, judged by its own cases    *)
(* (Reported).  From the first it follows that a bound of the interval has *)
(* few resamples past it, so a pass is conservative; from the second, that *)
(* the results of slices are distinct fractions, so that a stable sort has *)
(* one result at each rank and the worst are the first of them.            *)
(*                                                                         *)
(* First come sums over finite sets, as in BudgetProofs, and the extremes  *)
(* of sets of integers; last the order of the results.                     *)
(***************************************************************************)
EXTENDS Distributional, SequenceTheorems, FiniteSetTheorems, TLAPS

-----------------------------------------------------------------------------
(* Sums.  MapThenSumSet folds over a finite set; it is defined by CHOOSE   *)
(* of a recursion on subsets.  That this recursion exists and is unique is *)
(* proved by well-founded induction on the strict subsets.  Used here:     *)
(* that a sum of integers is one, and is bounded by its terms.             *)

\* Induction over the subsets of a finite set, for a property given as the set
\* of the subsets that have it.
LEMMA SubsetInduction ==
    ASSUME NEW S, IsFiniteSet(S), NEW Good,
           \A T \in SUBSET S : (\A U \in SUBSET T : U # T => U \in Good) => T \in Good
    PROVE  S \in Good
  <1> DEFINE Bad == {T \in SUBSET S : T \notin Good}
  <1>1. IsWellFoundedOn(StrictSubsetOrdering(S), SUBSET S)
    BY FS_StrictSubsetOrderingWellFounded, FS_FiniteSubsetsOfFinite
  <1>2. SUFFICES Bad = {}
    OBVIOUS
  <1>3. SUFFICES ASSUME Bad # {}
                 PROVE  FALSE
    OBVIOUS
  <1>4. PICK T \in Bad : \A U \in Bad : <<U, T>> \notin StrictSubsetOrdering(S)
    <2> HIDE DEF Bad
    <2>1. Bad \subseteq SUBSET S
      BY DEF Bad
    <2>2. QED
      BY <1>1, <1>3, <2>1, WFMin
  <1>5. ASSUME NEW U \in SUBSET T, U # T
        PROVE  U \in Good
    <2>1. T \in SUBSET S /\ U \in SUBSET S
      OBVIOUS
    <2>2. <<U, T>> \in StrictSubsetOrdering(S)
      BY <2>1, <1>5 DEF StrictSubsetOrdering
    <2>3. QED
      BY <1>4, <2>1, <2>2
  <1>6. QED
    BY <1>4, <1>5

Pick(s) == CHOOSE x \in s : TRUE

\* h is the recursion of the sum of f on the subsets of S.
SumsOn(h, f, S) ==
    h = [s \in SUBSET S |-> IF s = {} THEN 0 ELSE f[Pick(s)] + h[s \ {Pick(s)}]]

\* The fold is the value of such a recursion.
LEMMA Unfold ==
    ASSUME NEW f, NEW S
    PROVE  MapThenSumSet(LAMBDA x : f[x], S) = (CHOOSE h : SumsOn(h, f, S))[S]
  BY DEF MapThenSumSet, MapThenFoldSet, SumsOn, Pick

\* The element a recursion takes out first is an element.
LEMMA PickIn == \A s : s # {} => Pick(s) \in s
  BY DEF Pick

\* Two such recursions agree where both are defined.
LEMMA SumsUnique ==
    ASSUME NEW f, NEW S, IsFiniteSet(S), NEW g, NEW h, NEW A, NEW B,
           S \subseteq A, S \subseteq B, SumsOn(g, f, A), SumsOn(h, f, B)
    PROVE  g[S] = h[S]
  <1> DEFINE Good == {T \in SUBSET S : g[T] = h[T]}
  <1>1. ASSUME NEW T \in SUBSET S, \A U \in SUBSET T : U # T => U \in Good
        PROVE  T \in Good
    <2>1. T \in SUBSET A /\ T \in SUBSET B
      OBVIOUS
    <2>2. /\ g[T] = IF T = {} THEN 0 ELSE f[Pick(T)] + g[T \ {Pick(T)}]
          /\ h[T] = IF T = {} THEN 0 ELSE f[Pick(T)] + h[T \ {Pick(T)}]
      BY <2>1 DEF SumsOn
    <2>3. T # {} => g[T \ {Pick(T)}] = h[T \ {Pick(T)}]
      BY <1>1, PickIn
    <2>4. QED
      BY <2>2, <2>3
  <1>2. S \in Good
    <2> HIDE DEF Good
    <2>1. QED
      BY <1>1, SubsetInduction
  <1>3. QED
    BY <1>2

\* Over a finite set there is such a recursion.
LEMMA SumsExist ==
    ASSUME NEW f, NEW S, IsFiniteSet(S)
    PROVE  SumsOn(CHOOSE h : SumsOn(h, f, S), f, S)
  <1> SUFFICES \E h : SumsOn(h, f, S)
    OBVIOUS
  <1> DEFINE Good == {T \in SUBSET S : \E h : SumsOn(h, f, T)}
  <1>1. ASSUME NEW T \in SUBSET S, \A U \in SUBSET T : U # T => U \in Good
        PROVE  T \in Good
    <2> DEFINE H(U) == CHOOSE h : SumsOn(h, f, U)
               Value(U) == IF U = {} THEN 0 ELSE f[Pick(U)] + H(U \ {Pick(U)})[U \ {Pick(U)}]
               h == [U \in SUBSET T |-> Value(U)]
    <2>1. ASSUME NEW U \in SUBSET T, U # T
          PROVE  SumsOn(H(U), f, U)
      BY <1>1, <2>1
    <2>2. ASSUME NEW U \in SUBSET T, U # T
          PROVE  H(U)[U] = Value(U)
      <3> DEFINE V == U \ {Pick(U)}
      <3> HIDE DEF H
      <3>1. SumsOn(H(U), f, U)
        BY <2>1, <2>2
      <3>2. H(U)[U] = IF U = {} THEN 0 ELSE f[Pick(U)] + H(U)[V]
        BY <3>1 DEF SumsOn
      <3>3. CASE U # {}
        <4>1. V \in SUBSET T /\ V # T /\ V \subseteq U
          BY <2>2
        <4>2. SumsOn(H(V), f, V)
          BY <2>1, <4>1
        <4>3. IsFiniteSet(V)
          BY <4>1, FS_Subset
        <4>4. H(U)[V] = H(V)[V]
          BY <4>1, <4>2, <4>3, <3>1, SumsUnique
        <4>5. QED
          BY <3>2, <3>3, <4>4
      <3>4. CASE U = {}
        BY <3>2, <3>4
      <3>5. QED
        BY <3>3, <3>4
    <2>3. ASSUME NEW U \in SUBSET T
          PROVE  h[U] = IF U = {} THEN 0 ELSE f[Pick(U)] + h[U \ {Pick(U)}]
      <3> DEFINE V == U \ {Pick(U)}
      <3> HIDE DEF H
      <3>1. CASE U # {}
        <4>1. V \in SUBSET T /\ V # T
          BY <3>1, PickIn
        <4>2. h[V] = H(V)[V]
          BY <2>2, <4>1
        <4>3. QED
          BY <3>1, <4>2
      <3>2. QED
        BY <3>1
    <2>4. SumsOn(h, f, T)
      <3> HIDE DEF Value
      <3>1. h = [U \in SUBSET T |-> h[U]]
        OBVIOUS
      <3> HIDE DEF h
      <3>2. QED
        BY <2>3, <3>1 DEF SumsOn
    <2>5. QED
      BY <2>4
  <1>2. S \in Good
    <2> HIDE DEF Good
    <2>1. QED
      BY <1>1, SubsetInduction
  <1>3. QED
    BY <1>2

\* A sum is the picked term plus the sum of the rest.
LEMMA SumStep ==
    ASSUME NEW f, NEW S, IsFiniteSet(S)
    PROVE  Total(f, S) = IF S = {} THEN 0 ELSE f[Pick(S)] + Total(f, S \ {Pick(S)})
  <1> DEFINE H(U) == CHOOSE h : SumsOn(h, f, U)
             V == S \ {Pick(S)}
  <1>1. Total(f, S) = H(S)[S] /\ Total(f, V) = H(V)[V]
    BY Unfold DEF Total
  <1>2. IsFiniteSet(V) /\ V \subseteq S
    BY FS_Subset
  <1>3. SumsOn(H(S), f, S) /\ SumsOn(H(V), f, V)
    BY <1>2, SumsExist
  <1> HIDE DEF H
  <1>4. H(S)[S] = IF S = {} THEN 0 ELSE f[Pick(S)] + H(S)[V]
    BY <1>3 DEF SumsOn
  <1>5. H(S)[V] = H(V)[V]
    BY <1>2, <1>3, SumsUnique
  <1>6. QED
    BY <1>1, <1>4, <1>5

\* The sum of no terms.
LEMMA SumEmpty == \A f : Total(f, {}) = 0
  BY SumStep, FS_EmptySet

\* The range, for sums of naturals and of integers.
LEMMA SumType ==
    ASSUME NEW S, IsFiniteSet(S), NEW N, N = Nat \/ N = Int,
           NEW f, \A x \in S : f[x] \in N
    PROVE  Total(f, S) \in N
  <1> DEFINE Good == {T \in SUBSET S : Total(f, T) \in N}
  <1>1. ASSUME NEW T \in SUBSET S, \A U \in SUBSET T : U # T => U \in Good
        PROVE  T \in Good
    <2>1. Total(f, T) = IF T = {} THEN 0 ELSE f[Pick(T)] + Total(f, T \ {Pick(T)})
      BY SumStep, FS_Subset
    <2>2. T # {} => Total(f, T \ {Pick(T)}) \in N /\ f[Pick(T)] \in N
      BY <1>1, PickIn
    <2>3. QED
      BY <2>1, <2>2
  <1>2. S \in Good
    <2> HIDE DEF Good
    <2>1. QED
      BY <1>1, SubsetInduction
  <1>3. QED
    BY <1>2

\* A sum is bounded by its terms.
LEMMA TotalBounded ==
    ASSUME NEW S, IsFiniteSet(S), NEW f, \A x \in S : f[x] \in Int, NEW c \in Int
    PROVE  /\ (\A x \in S : f[x] >= c) => Total(f, S) >= c * Cardinality(S)
           /\ (\A x \in S : f[x] <= c) => Total(f, S) <= c * Cardinality(S)
  <1> DEFINE Low(T) == (\A x \in T : f[x] >= c) => Total(f, T) >= c * Cardinality(T)
             High(T) == (\A x \in T : f[x] <= c) => Total(f, T) <= c * Cardinality(T)
             Good == {T \in SUBSET S : Low(T) /\ High(T)}
  <1>1. ASSUME NEW T \in SUBSET S, \A U \in SUBSET T : U # T => U \in Good
        PROVE  T \in Good
    <2>1. CASE T = {}
      <3>1. Total(f, T) = 0 /\ Cardinality(T) = 0
        BY <2>1, SumEmpty, FS_EmptySet
      <3>2. QED
        BY <3>1
    <2>2. CASE T # {}
      <3> DEFINE p == Pick(T)
                 V == T \ {p}
      <3>1. p \in T
        BY <2>2, PickIn
      <3> HIDE DEF p
      <3>2. IsFiniteSet(T) /\ IsFiniteSet(V) /\ V \subseteq S /\ V # T /\ V \in SUBSET T
        BY <3>1, FS_Subset
      <3>3. Total(f, T) = f[p] + Total(f, V)
        BY <2>2, <3>2, SumStep DEF p
      <3>4. V \in Good
        BY <1>1, <3>2
      <3>5. Cardinality(V) = Cardinality(T) - 1 /\ Cardinality(T) \in Nat
        BY <3>1, <3>2, FS_RemoveElement, FS_CardinalityType
      <3>6. Total(f, V) \in Int /\ f[p] \in Int
        BY <3>1, <3>2, SumType
      <3> DEFINE n == Cardinality(T)
      <3>7. c * n = c * Cardinality(V) + c
        <4>1. n \in Int /\ Cardinality(V) = n - 1
          BY <3>5
        <4> HIDE DEF n
        <4>2. QED
          BY <4>1
      <3>8. Low(V) /\ High(V)
        BY <3>4
      <3>9. Low(T)
        <4> SUFFICES ASSUME \A x \in T : f[x] >= c
                     PROVE  Total(f, T) >= c * n
          OBVIOUS
        <4>1. Total(f, V) >= c * Cardinality(V) /\ f[p] >= c
          BY <3>1, <3>8
        <4>2. c * Cardinality(V) \in Int
          BY <3>5
        <4>3. QED
          BY <3>3, <3>6, <3>7, <4>1, <4>2
      <3>10. High(T)
        <4> SUFFICES ASSUME \A x \in T : f[x] <= c
                     PROVE  Total(f, T) <= c * n
          OBVIOUS
        <4>1. Total(f, V) <= c * Cardinality(V) /\ f[p] <= c
          BY <3>1, <3>8
        <4>2. c * Cardinality(V) \in Int
          BY <3>5
        <4>3. QED
          BY <3>3, <3>6, <3>7, <4>1, <4>2
      <3>11. QED
        BY <3>9, <3>10
    <2>3. QED
      BY <2>1, <2>2
  <1>2. S \in Good
    <2> HIDE DEF Good
    <2>1. QED
      BY <1>1, SubsetInduction
  <1>3. QED
    BY <1>2

-----------------------------------------------------------------------------
(* The least and the greatest of a set.                                    *)

\* A finite set of integers that is not empty has a least and a greatest element.
LEMMA ExtremesOfFinite ==
    ASSUME NEW S \in SUBSET Int, IsFiniteSet(S), S # {}
    PROVE  /\ Min(S) \in S /\ \A y \in S : Min(S) <= y
           /\ Max(S) \in S /\ \A y \in S : Max(S) >= y
  <1> DEFINE Least(T) == \E x \in T : \A y \in T : x <= y
             Greatest(T) == \E x \in T : \A y \in T : x >= y
             Good == {T \in SUBSET S : T = {} \/ (Least(T) /\ Greatest(T))}
  <1>1. ASSUME NEW T \in SUBSET S, \A U \in SUBSET T : U # T => U \in Good
        PROVE  T \in Good
    <2>1. CASE T # {}
      <3> DEFINE p == Pick(T)
                 V == T \ {p}
      <3>1. p \in T
        BY <2>1, PickIn
      <3>2. V \in SUBSET T /\ V # T
        BY <3>1
      <3> HIDE DEF p, V
      <3>6. V \in Good
        BY <1>1, <3>2
      <3> USE DEF V
      <3>3. CASE V = {}
        <4>1. T = {p}
          BY <3>1, <3>3
        <4>2. QED
          BY <4>1
      <3>4. CASE V # {}
        <4>1. Least(V) /\ Greatest(V)
          BY <3>4, <3>6
        <4>2. Least(T)
          <5>1. PICK x \in V : \A y \in V : x <= y
            BY <4>1
          <5>2. CASE p <= x
            BY <3>1, <5>1, <5>2
          <5>3. CASE ~(p <= x)
            BY <3>1, <5>1, <5>3
          <5>4. QED
            BY <5>2, <5>3
        <4>3. Greatest(T)
          <5>1. PICK x \in V : \A y \in V : x >= y
            BY <4>1
          <5>2. CASE p >= x
            BY <3>1, <5>1, <5>2
          <5>3. CASE ~(p >= x)
            BY <3>1, <5>1, <5>3
          <5>4. QED
            BY <5>2, <5>3
        <4>4. QED
          BY <4>2, <4>3
      <3>5. QED
        BY <3>3, <3>4
    <2>2. QED
      BY <2>1
  <1>2. S \in Good
    <2> HIDE DEF Good
    <2>1. QED
      BY <1>1, SubsetInduction
  <1>3. Least(S) /\ Greatest(S)
    BY <1>2
  <1>4. QED
    BY <1>3 DEF Min, Max

\* A set of naturals that is not empty has a least element.
LEMMA MinOfNaturals ==
    ASSUME NEW S \in SUBSET Nat, S # {}
    PROVE  Min(S) \in S /\ \A y \in S : Min(S) <= y
  <1>1. PICK n \in S : TRUE
    OBVIOUS
  <1> DEFINE T == {y \in S : y <= n}
  <1>2. n \in Nat /\ n \in T /\ T \in SUBSET Nat /\ T \in SUBSET Int /\ \A y \in T : y <= n
    <2>1. n \in Nat /\ n <= n
      BY <1>1
    <2>2. n \in T
      BY <1>1, <2>1
    <2>3. T \in SUBSET Nat /\ T \in SUBSET Int
      <3>1. T \subseteq S /\ S \subseteq Nat
        OBVIOUS
      <3> HIDE DEF T
      <3>2. \A y \in T : y \in Nat
        BY <3>1
      <3>3. QED
        BY <3>2
    <2>4. QED
      BY <2>1, <2>2, <2>3
  <1>3. \A x \in T : x \in S /\ ((\A y \in T : x <= y) => \A y \in S : x <= y)
    OBVIOUS
  <1> HIDE DEF T
  <1>4. IsFiniteSet(T)
    BY <1>2, FS_BoundedSetOfNaturals
  <1>5. Min(T) \in T /\ \A y \in T : Min(T) <= y
    BY <1>2, <1>4, ExtremesOfFinite
  <1>6. \E x \in S : \A y \in S : x <= y
    BY <1>3, <1>5
  <1>7. QED
    BY <1>6 DEF Min

\* Of two integers.
LEMMA MinMaxOfTwo ==
    ASSUME NEW a \in Int, NEW b \in Int
    PROVE  /\ Min({a, b}) = IF a <= b THEN a ELSE b
           /\ Max({a, b}) = IF a >= b THEN a ELSE b
  <1>1. \E x \in {a, b} : \A y \in {a, b} : x <= y
    OBVIOUS
  <1>2. Min({a, b}) \in {a, b} /\ \A y \in {a, b} : Min({a, b}) <= y
    BY <1>1 DEF Min
  <1>3. \E x \in {a, b} : \A y \in {a, b} : x >= y
    OBVIOUS
  <1>4. Max({a, b}) \in {a, b} /\ \A y \in {a, b} : Max({a, b}) >= y
    BY <1>3 DEF Max
  <1>5. QED
    BY <1>2, <1>4

\* The values of a function on a finite set are finitely many.
LEMMA ImageFinite ==
    ASSUME NEW S, IsFiniteSet(S), NEW f
    PROVE  IsFiniteSet({f[x] : x \in S})
  <1> DEFINE T == {f[x] : x \in S}
             g == [x \in S |-> f[x]]
  <1>1. g \in Surjection(S, T)
    BY DEF Surjection
  <1>2. QED
    BY <1>1, FS_Surjection

-----------------------------------------------------------------------------
(* The metrics are numbers, or infinite.                                   *)

\* A number of elements is a natural, and zero of the empty set only.
LEMMA CardinalityIs ==
    ASSUME NEW S, IsFiniteSet(S)
    PROVE  Cardinality(S) \in Nat /\ (S # {} => Cardinality(S) > 0)
  BY FS_CardinalityType, FS_EmptySet

\* The overlaps are numbers.
LEMMA OverlapIsNumber ==
    ASSUME NEW p, NEW t, IsFiniteSet(p), IsFiniteSet(t)
    PROVE  Dice(p, t) \in Int /\ Iou(p, t) \in Int
  <1>1. IsFiniteSet(p \cap t) /\ IsFiniteSet(p \cup t)
    BY FS_Intersection, FS_Union
  <1>2. /\ Cardinality(p) \in Nat /\ Cardinality(t) \in Nat
        /\ Cardinality(p \cap t) \in Nat /\ Cardinality(p \cup t) \in Nat
    BY <1>1, CardinalityIs
  <1>3. Scale \in Nat
    BY DistributionalParameters
  <1>4. p # {} \/ t # {} => Cardinality(p) + Cardinality(t) > 0
    BY <1>2, CardinalityIs
  <1>5. p \cup t # {} => Cardinality(p \cup t) > 0
    BY <1>1, CardinalityIs
  <1>6. Dice(p, t) \in Int
    <2> DEFINE a == 2 * Cardinality(p \cap t) * Scale
               b == Cardinality(p) + Cardinality(t)
    <2>1. a \in Int /\ b \in Int
      BY <1>2, <1>3
    <2>2. p # {} \/ t # {} => b > 0
      BY <1>4
    <2>3. Dice(p, t) = IF p = {} /\ t = {} THEN Scale ELSE a \div b
      BY DEF Dice
    <2> HIDE DEF a, b
    <2>4. QED
      BY <1>3, <2>1, <2>2, <2>3
  <1>7. Iou(p, t) \in Int
    <2> DEFINE a == Cardinality(p \cap t) * Scale
               b == Cardinality(p \cup t)
    <2>1. a \in Int /\ b \in Int
      BY <1>2, <1>3
    <2>2. p \cup t # {} => b > 0
      BY <1>5
    <2>3. Iou(p, t) = IF p \cup t = {} THEN Scale ELSE a \div b
      BY DEF Iou
    <2> HIDE DEF a, b
    <2>4. QED
      BY <1>3, <2>1, <2>2, <2>3
  <1>8. QED
    BY <1>6, <1>7

\* The error of as many landmarks is a number.
LEMMA LandmarkErrorIsNumber ==
    ASSUME NEW p \in SUBSET Int, NEW t \in SUBSET Int, IsFiniteSet(p), IsFiniteSet(t), p # {}
    PROVE  LandmarkError(p, t) \in Int
  <1> DEFINE pairs == {pair \in p \X t : Place(p, pair[1]) = Place(t, pair[2])}
             f == [pair \in pairs |-> Scale * Distance(pair[1], pair[2])]
  <1>1. IsFiniteSet(p \X t) /\ pairs \subseteq p \X t
    BY FS_Product
  <1>2. IsFiniteSet(pairs)
    BY <1>1, FS_Subset
  <1>3. Scale \in Int
    BY DistributionalParameters
  <1>4. ASSUME NEW pair \in pairs
        PROVE  f[pair] \in Int
    <2>1. pair[1] \in Int /\ pair[2] \in Int
      OBVIOUS
    <2>2. Distance(pair[1], pair[2]) \in Int
      BY <2>1 DEF Distance
    <2>3. f[pair] = Scale * Distance(pair[1], pair[2])
      OBVIOUS
    <2> HIDE DEF f
    <2>4. QED
      BY <1>3, <2>2, <2>3
  <1> HIDE DEF f
  <1>5. Total(f, pairs) \in Int
    <2> HIDE DEF pairs
    <2>1. QED
      BY <1>2, <1>4, SumType
  <1>6. Cardinality(p) \in Nat /\ Cardinality(p) > 0
    BY CardinalityIs
  <1>7. LandmarkError(p, t) = Total(f, pairs) \div Cardinality(p)
    BY DEF LandmarkError, f
  <1> HIDE DEF pairs
  <1>8. QED
    BY <1>5, <1>6, <1>7

\* A distance of points from points is a natural.
LEMMA DirectedIsNumber ==
    ASSUME NEW p \in SUBSET Int, NEW t \in SUBSET Int, IsFiniteSet(p), p # {}, t # {}
    PROVE  Directed(p, t) \in Nat
  <1> DEFINE f == [a \in p |-> Min({Distance(a, b) : b \in t})]
             S == {f[a] : a \in p}
  <1>1. ASSUME NEW a \in p
        PROVE  f[a] \in Nat
    <2> DEFINE D == {Distance(a, b) : b \in t}
    <2>1. \A b \in t : Distance(a, b) \in Nat
      BY DEF Distance
    <2>2. D \in SUBSET Nat /\ D # {}
      BY <2>1
    <2> HIDE DEF D
    <2>3. Min(D) \in Nat
      BY <2>2, MinOfNaturals
    <2>4. f[a] = Min(D)
      BY DEF D
    <2>5. QED
      BY <2>3, <2>4
  <1>2. Directed(p, t) = Max(S)
    <2>1. S = {Min({Distance(a, b) : b \in t}) : a \in p}
      OBVIOUS
    <2>2. QED
      BY <2>1 DEF Directed
  <1> HIDE DEF f
  <1>3. S \in SUBSET Nat /\ S # {} /\ IsFiniteSet(S)
    BY <1>1, ImageFinite
  <1> HIDE DEF S
  <1>4. Max(S) \in S
    BY <1>3, ExtremesOfFinite
  <1>5. QED
    BY <1>2, <1>3, <1>4

\* What a grader can measure of a case.
LEMMA MetricIsNumber ==
    ASSUME NEW g \in Graders, NEW list \in Populations, NEW n \in DOMAIN list
    PROVE  PerSampleMetric(g.kind, list[n]) \in Int \cup {Inf}
  <1> DEFINE p == list[n].pred
             t == list[n].truth
  <1>1. /\ p \in SUBSET Int /\ t \in SUBSET Int /\ IsFiniteSet(p) /\ IsFiniteSet(t)
        /\ g.kind \in {"dice", "iou", "landmark", "assd"}
    BY DistributionalParameters
  <1>2. Dice(p, t) \in Int /\ Iou(p, t) \in Int
    BY <1>1, OverlapIsNumber
  <1>3. p # {} => LandmarkError(p, t) \in Int
    BY <1>1, LandmarkErrorIsNumber
  <1>4. Hausdorff(p, t) \in Int \cup {Inf}
    <2>1. CASE p # {} /\ t # {}
      <3> DEFINE a == Directed(p, t)
                 b == Directed(t, p)
      <3>1. a \in Nat /\ b \in Nat
        BY <1>1, <2>1, DirectedIsNumber
      <3>2. Hausdorff(p, t) = Scale * Max({a, b})
        BY <2>1 DEF Hausdorff
      <3> HIDE DEF a, b
      <3>3. Max({a, b}) \in Int
        <4>1. a \in Int /\ b \in Int
          BY <3>1
        <4>2. Max({a, b}) = IF a >= b THEN a ELSE b
          BY <4>1, MinMaxOfTwo
        <4>3. QED
          BY <4>1, <4>2
      <3>4. Scale \in Int
        BY DistributionalParameters
      <3>5. QED
        BY <3>2, <3>3, <3>4
    <2>2. CASE ~(p # {} /\ t # {})
      BY <2>2 DEF Hausdorff
    <2>3. QED
      BY <2>1, <2>2
  <1> HIDE DEF p, t
  <1>5. /\ g.kind = "dice" => PerSampleMetric(g.kind, list[n]) = Dice(p, t)
        /\ g.kind = "iou" => PerSampleMetric(g.kind, list[n]) = Iou(p, t)
        /\ g.kind = "landmark" => PerSampleMetric(g.kind, list[n])
               = IF Cardinality(p) # Cardinality(t) \/ p = {} THEN Inf ELSE LandmarkError(p, t)
        /\ g.kind = "assd" => PerSampleMetric(g.kind, list[n]) = Hausdorff(p, t)
    BY DEF PerSampleMetric, p, t
  <1>6. QED
    BY <1>1, <1>2, <1>3, <1>4, <1>5

-----------------------------------------------------------------------------
(* The two indices of an interval.                                         *)

\* What int() makes of a quotient is less than it by one at most.
LEMMA TruncationsAre ==
    ASSUME NEW a \in Nat, NEW b \in Nat, b > 0, NEW u \in Truncations(a, b)
    PROVE  u \in Nat /\ b * u <= a /\ a <= b * u + b
  <1> DEFINE q == a \div b
             r == a % b
  <1>1. q \in Nat /\ r \in Nat /\ a = b * q + r /\ r < b
    OBVIOUS
  <1>2. u = q \/ (a > 0 /\ r = 0 /\ u = q - 1)
    BY DEF Truncations
  <1> HIDE DEF q, r
  <1>3. b * q \in Nat
    BY <1>1
  <1>4. CASE u = q
    BY <1>1, <1>3, <1>4
  <1>5. CASE a > 0 /\ r = 0 /\ u = q - 1
    <2>1. q # 0
      BY <1>1, <1>5
    <2>2. b * (q - 1) = b * q - b
      BY <1>1
    <2>3. QED
      BY <1>1, <1>3, <1>5, <2>1, <2>2
  <1>6. QED
    BY <1>2, <1>4, <1>5

\* A confidence level.
Level(ci) == ci.num \in Nat /\ ci.num > 0 /\ ci.den \in Nat /\ ci.num < ci.den

\* The lower index leaves the share of one tail below it, at most.
LEMMA LowerIndexIs ==
    ASSUME NEW ci, Level(ci), NEW n \in Nat, n > 0, NEW low \in LowerIndices(ci, n)
    PROVE  low \in 0 .. n - 1 /\ 2 * ci.den * low <= (ci.den - ci.num) * n
  <1> DEFINE d == ci.den
             m == ci.num
             a == (d - m) * n
  <1>1. d \in Nat /\ m \in Nat /\ m > 0 /\ m < d
    BY DEF Level
  <1>2. low \in Truncations(a, 2 * d)
    BY DEF LowerIndices
  <1> HIDE DEF d, m
  <1>3. a \in Nat /\ 2 * d \in Nat /\ 2 * d > 0
    <2>1. d - m \in Nat
      BY <1>1
    <2>2. QED
      BY <1>1, <2>1
  <1>4. low \in Nat /\ 2 * d * low <= a
    <2> HIDE DEF a
    <2>1. QED
      BY <1>2, <1>3, TruncationsAre
  <1>5. low < n
    <2> SUFFICES ASSUME low >= n
                 PROVE  FALSE
      BY <1>4
    <2>1. PICK e \in Nat : low = n + e
      <3>1. low - n \in Nat /\ low = n + (low - n)
        BY <1>4
      <3>2. QED
        BY <3>1
    <2>2. 2 * d * low = 2 * d * n + 2 * d * e
      BY <1>1, <2>1
    <2>3. a = d * n - m * n
      BY <1>1
    <2>4. m * n > 0 /\ d * n > 0 /\ m * n \in Nat /\ d * n \in Nat /\ d * e \in Nat
      BY <1>1, <2>1
    <2>5. 2 * d * n = 2 * (d * n) /\ 2 * d * e = 2 * (d * e)
      BY <1>1, <2>1
    <2>6. 2 * d * low = 2 * (d * n) + 2 * (d * e)
      BY <2>2, <2>5
    <2> HIDE DEF a
    <2>7. QED
      BY <1>3, <1>4, <2>3, <2>4, <2>6
  <1>6. low \in 0 .. n - 1
    BY <1>4, <1>5
  <1>7. QED
    BY <1>4, <1>6 DEF d, m

\* The upper index leaves that share, and one resample more, above it.
LEMMA UpperIndexIs ==
    ASSUME NEW ci, Level(ci), NEW n \in Nat, n > 0, NEW low \in 0 .. n - 1,
           NEW up \in UpperIndices(ci, n, low)
    PROVE  /\ up \in low .. n - 1
           /\ 2 * ci.den * (n - 1 - up) <= (ci.den - ci.num) * n + 2 * ci.den
  <1> DEFINE d == ci.den
             m == ci.num
             a == (d + m) * n
  <1>1. d \in Nat /\ m \in Nat /\ m > 0 /\ m < d
    BY DEF Level
  <1>2. PICK u \in Truncations(a, 2 * d) : up = Max({low, Min({n - 1, u - 1})})
    BY DEF UpperIndices
  <1> HIDE DEF d, m
  <1>3. a \in Nat /\ 2 * d \in Nat /\ 2 * d > 0
    BY <1>1
  <1>4. u \in Nat /\ a <= 2 * d * u + 2 * d
    <2> HIDE DEF a
    <2>1. QED
      BY <1>3, TruncationsAre
  <1>5. up = IF low >= (IF n - 1 <= u - 1 THEN n - 1 ELSE u - 1) THEN low
             ELSE IF n - 1 <= u - 1 THEN n - 1 ELSE u - 1
    <2> DEFINE least == Min({n - 1, u - 1})
    <2>1. n - 1 \in Int /\ u - 1 \in Int /\ low \in Int
      BY <1>4
    <2>2. least = IF n - 1 <= u - 1 THEN n - 1 ELSE u - 1
      BY <2>1, MinMaxOfTwo
    <2> HIDE DEF least
    <2>3. least \in Int
      BY <2>1, <2>2
    <2>4. Max({low, least}) = IF low >= least THEN low ELSE least
      BY <2>1, <2>3, MinMaxOfTwo
    <2>5. QED
      BY <1>2, <2>2, <2>4 DEF least
  <1>6. up \in low .. n - 1 /\ (up = n - 1 \/ up >= u - 1)
    BY <1>4, <1>5
  <1>7. (d - m) * n = d * n - m * n /\ a = d * n + m * n
    BY <1>1
  <1>8. /\ d * n \in Nat /\ m * n \in Nat /\ (d - m) * n \in Nat
    <2>1. d - m \in Nat
      BY <1>1
    <2>2. QED
      BY <1>1, <2>1
  <1>9. CASE up = n - 1
    <2>1. n - 1 - up = 0
      BY <1>9
    <2>2. 2 * d * (n - 1 - up) = 0
      BY <1>1, <2>1
    <2>3. QED
      BY <1>1, <1>6, <1>8, <2>2 DEF d, m
  <1>10. CASE up >= u - 1
    <2>1. PICK e \in Nat : up = u - 1 + e
      <3>1. up - (u - 1) \in Nat /\ up = u - 1 + (up - (u - 1))
        BY <1>4, <1>6, <1>10
      <3>2. QED
        BY <3>1
    <2>2. n - 1 - up = n - u - e
      BY <1>4, <2>1
    <2>3. 2 * d * (n - u - e) = 2 * (d * n) - 2 * d * u - 2 * (d * e)
      BY <1>1, <1>4
    <2>4. d * e \in Nat /\ 2 * d * u \in Nat
      BY <1>1, <1>4
    <2> HIDE DEF a
    <2>5. 2 * d * (n - u - e) <= (d - m) * n + 2 * d
      BY <1>1, <1>3, <1>4, <1>7, <1>8, <2>3, <2>4
    <2>6. QED
      BY <1>6, <2>2, <2>5 DEF d, m
  <1>11. QED
    BY <1>6, <1>9, <1>10

-----------------------------------------------------------------------------
(* The sorted list of resamples.                                           *)

Ascends(s) == \A m, n \in DOMAIN s : m <= n => s[m] <= s[n]

\* The positions of what is not above x come first.
LEMMA FirstPositions ==
    ASSUME NEW s \in Seq(Int), Ascends(s), NEW x \in Int
    PROVE  LET c == Cardinality({n \in DOMAIN s : s[n] <= x})
           IN c \in 0 .. Len(s) /\ \A n \in DOMAIN s : s[n] <= x <=> n <= c
  <1> DEFINE A == {n \in DOMAIN s : s[n] <= x}
  <1>1. DOMAIN s = 1 .. Len(s) /\ Len(s) \in Nat /\ \A n \in DOMAIN s : s[n] \in Int
    OBVIOUS
  <1>2. IsFiniteSet(1 .. Len(s)) /\ A \in SUBSET (1 .. Len(s))
    BY <1>1, FS_Interval
  <1>3. IsFiniteSet(A)
    BY <1>2, FS_Subset
  <1>4. A \in SUBSET Int
    BY <1>2
  <1>5. ASSUME NEW n \in A, NEW m \in DOMAIN s, m <= n
        PROVE  m \in A
    BY <1>1, <1>5 DEF Ascends
  <1>6. \A n \in DOMAIN s : s[n] <= x <=> n \in A
    OBVIOUS
  <1> HIDE DEF A
  <1>7. \E c \in 0 .. Len(s) : A = 1 .. c
    <2>1. CASE A = {}
      <3>1. A = 1 .. 0 /\ 0 \in 0 .. Len(s)
        BY <1>1, <2>1
      <3>2. QED
        BY <3>1
    <2>2. CASE A # {}
      <3> DEFINE c == Max(A)
      <3>1. c \in A /\ \A y \in A : c >= y
        BY <1>3, <1>4, <2>2, ExtremesOfFinite
      <3> HIDE DEF c
      <3>2. c \in 1 .. Len(s)
        BY <1>2, <3>1
      <3>3. A \subseteq 1 .. c
        BY <1>1, <1>2, <3>1, <3>2
      <3>4. 1 .. c \subseteq A
        BY <1>1, <1>5, <3>1, <3>2
      <3>5. A = 1 .. c
        BY <3>3, <3>4
      <3>6. c \in 0 .. Len(s)
        BY <1>1, <3>2
      <3>7. QED
        BY <3>5, <3>6
    <2>3. QED
      BY <2>1, <2>2
  <1>8. PICK c \in 0 .. Len(s) : A = 1 .. c
    BY <1>7
  <1>9. Cardinality(A) = c
    <2>1. Cardinality(1 .. c) = IF 1 > c THEN 0 ELSE c - 1 + 1
      BY <1>8, FS_Interval
    <2>2. QED
      BY <1>8, <2>1
  <1>10. \A n \in DOMAIN s : s[n] <= x <=> n <= c
    BY <1>1, <1>6, <1>8
  <1>11. QED
    BY <1>8, <1>9, <1>10 DEF A

\* A list with one more element, each in its place.
LEMMA InsertIs ==
    ASSUME NEW s \in Seq(Int), Ascends(s), NEW x \in Int
    PROVE  /\ Insert(s, x) \in Seq(Int) /\ Len(Insert(s, x)) = Len(s) + 1
           /\ Ascends(Insert(s, x))
           /\ \A n \in DOMAIN Insert(s, x) :
                 Insert(s, x)[n] = x \/ \E m \in DOMAIN s : Insert(s, x)[n] = s[m]
  <1> DEFINE c == Cardinality({n \in DOMAIN s : s[n] <= x})
             t == Insert(s, x)
             low == SubSeq(s, 1, c)
             high == SubSeq(s, c + 1, Len(s))
             left == low \o <<x>>
  <1>1. c \in 0 .. Len(s) /\ \A n \in DOMAIN s : s[n] <= x <=> n <= c
    BY FirstPositions
  <1>2. t = SubSeq(s, 1, (c + 1) - 1) \o <<x>> \o SubSeq(s, c + 1, Len(s))
    BY DEF Insert, InsertAt
  <1> HIDE DEF c
  <1>3. DOMAIN s = 1 .. Len(s) /\ Len(s) \in Nat /\ \A n \in 1 .. Len(s) : s[n] \in Int
    OBVIOUS
  <1>4. (c + 1) - 1 = c /\ c \in Int /\ c + 1 \in Int /\ Len(s) \in Int
    BY <1>1
  <1>5. t = low \o <<x>> \o high
    BY <1>2, <1>4
  <1>6. low \in Seq(Int) /\ Len(low) = c /\ \A i \in 1 .. c : low[i] = s[i]
    <2>1. \A i \in 1 .. c : s[i] \in Int
      BY <1>1, <1>3
    <2>2. /\ low \in Seq(Int) /\ Len(low) = IF 1 <= c THEN c - 1 + 1 ELSE 0
          /\ \A i \in 1 .. c - 1 + 1 : low[i] = s[1 + i - 1]
      BY <1>4, <2>1, SubSeqProperties
    <2> HIDE DEF low
    <2>3. QED
      BY <1>1, <2>2
  <1>7. high \in Seq(Int) /\ Len(high) = Len(s) - c /\ \A i \in 1 .. Len(s) - c : high[i] = s[c + i]
    <2>1. \A i \in c + 1 .. Len(s) : s[i] \in Int
      BY <1>1, <1>3
    <2>2. /\ high \in Seq(Int) /\ Len(high) = IF c + 1 <= Len(s) THEN Len(s) - (c + 1) + 1 ELSE 0
          /\ \A i \in 1 .. Len(s) - (c + 1) + 1 : high[i] = s[c + 1 + i - 1]
      BY <1>4, <2>1, SubSeqProperties
    <2> HIDE DEF high
    <2>3. Len(high) = Len(s) - c
      <3>1. c \in Int /\ 0 <= c /\ c <= Len(s) /\ Len(s) \in Int
        BY <1>1, <1>3
      <3>2. QED
        BY <2>2, <3>1
    <2>4. ASSUME NEW i \in 1 .. Len(s) - c
          PROVE  high[i] = s[c + i]
      <3>1. i \in 1 .. Len(s) - (c + 1) + 1 /\ c + 1 + i - 1 = c + i
        BY <1>1, <1>3
      <3>2. QED
        BY <2>2, <3>1
    <2>5. QED
      BY <2>2, <2>3, <2>4
  <1> HIDE DEF low, high
  <1>8. left \in Seq(Int) /\ Len(left) = c + 1 /\ \A i \in 1 .. c + 1 : left[i] = IF i <= c THEN s[i] ELSE x
    <2>1. <<x>> \in Seq(Int) /\ Len(<<x>>) = 1 /\ <<x>>[1] = x
      OBVIOUS
    <2>2. /\ left \in Seq(Int) /\ Len(left) = Len(low) + Len(<<x>>)
          /\ \A i \in 1 .. Len(low) + Len(<<x>>) : left[i] = IF i <= Len(low) THEN low[i] ELSE <<x>>[i - Len(low)]
      BY <1>6, <2>1, ConcatProperties
    <2> HIDE DEF left
    <2>3. ASSUME NEW i \in 1 .. c + 1
          PROVE  left[i] = IF i <= c THEN s[i] ELSE x
      <3>1. left[i] = IF i <= c THEN low[i] ELSE <<x>>[i - c]
        BY <1>6, <2>1, <2>2
      <3>2. CASE i <= c
        BY <1>1, <1>6, <3>1, <3>2
      <3>3. CASE ~(i <= c)
        <4>1. i - c = 1
          BY <1>1, <3>3
        <4>2. QED
          BY <2>1, <3>1, <3>3, <4>1
      <3>4. QED
        BY <3>2, <3>3
    <2>4. QED
      BY <1>6, <2>1, <2>2, <2>3
  <1>9. t = left \o high
    BY <1>5
  <1> HIDE DEF left, t
  <1>10. /\ t \in Seq(Int) /\ Len(t) = Len(left) + Len(high)
         /\ \A i \in 1 .. Len(left) + Len(high) : t[i] = IF i <= Len(left) THEN left[i] ELSE high[i - Len(left)]
    BY <1>7, <1>8, <1>9, ConcatProperties
  <1>11. Len(t) = Len(s) + 1 /\ DOMAIN t = 1 .. Len(s) + 1
    <2>1. Len(t) = Len(s) + 1
      BY <1>1, <1>3, <1>7, <1>8, <1>10
    <2>2. QED
      BY <1>10, <2>1
  <1>12. ASSUME NEW i \in 1 .. Len(s) + 1
         PROVE  t[i] = IF i <= c THEN s[i] ELSE IF i = c + 1 THEN x ELSE s[i - 1]
    <2>1. t[i] = IF i <= c + 1 THEN left[i] ELSE high[i - (c + 1)]
      BY <1>3, <1>10, <1>8, <1>11
    <2>2. CASE i <= c + 1
      BY <1>1, <1>8, <2>1, <2>2
    <2>3. CASE ~(i <= c + 1)
      <3>1. i - (c + 1) \in 1 .. Len(s) - c /\ c + (i - (c + 1)) = i - 1
        BY <1>1, <1>3, <2>3
      <3>2. high[i - (c + 1)] = s[i - 1]
        BY <1>7, <3>1
      <3>3. QED
        BY <1>1, <2>1, <2>3, <3>2
    <2>4. QED
      BY <2>2, <2>3
  <1>13. ASSUME NEW m \in 1 .. Len(s) + 1, NEW n \in 1 .. Len(s) + 1, m <= n
         PROVE  t[m] <= t[n]
    <2>1. \A k \in 1 .. Len(s) : (k <= c => s[k] <= x) /\ (~(k <= c) => x <= s[k])
      BY <1>1, <1>3
    <2>2. \A j, k \in 1 .. Len(s) : j <= k => s[j] <= s[k]
      BY <1>3 DEF Ascends
    <2>3. CASE m <= c /\ n <= c
      <3>1. m \in 1 .. Len(s) /\ n \in 1 .. Len(s)
        BY <1>1, <1>3, <2>3
      <3>2. QED
        BY <1>12, <1>13, <2>2, <2>3, <3>1
    <2>4. CASE m <= c /\ n = c + 1
      <3>1. m \in 1 .. Len(s) /\ ~(n <= c)
        BY <1>1, <1>3, <2>4
      <3>2. QED
        BY <1>12, <2>1, <2>4, <3>1
    <2>5. CASE m <= c /\ n > c + 1
      <3>1. m \in 1 .. Len(s) /\ n - 1 \in 1 .. Len(s) /\ m <= n - 1 /\ ~(n <= c) /\ n # c + 1
        BY <1>1, <1>3, <2>5
      <3>2. QED
        BY <1>12, <2>2, <2>5, <3>1
    <2>6. CASE m = c + 1 /\ n > c + 1
      <3>1. n - 1 \in 1 .. Len(s) /\ ~(n - 1 <= c) /\ ~(n <= c) /\ n # c + 1 /\ ~(m <= c)
        BY <1>1, <1>3, <2>6
      <3>2. QED
        BY <1>12, <2>1, <2>6, <3>1
    <2>7. CASE m = c + 1 /\ n = c + 1
      <3>1. t[m] = x /\ t[n] = x
        BY <1>1, <1>12, <2>7
      <3>2. QED
        BY <3>1
    <2>8. CASE m > c + 1
      <3>1. /\ m - 1 \in 1 .. Len(s) /\ n - 1 \in 1 .. Len(s) /\ m - 1 <= n - 1
            /\ ~(m <= c) /\ m # c + 1 /\ ~(n <= c) /\ n # c + 1
        BY <1>1, <1>3, <1>13, <2>8
      <3>2. QED
        BY <1>12, <2>2, <3>1
    <2>9. QED
      BY <1>1, <1>13, <2>3, <2>4, <2>5, <2>6, <2>7, <2>8
  <1>14. Ascends(t)
    BY <1>11, <1>13 DEF Ascends
  <1>15. ASSUME NEW n \in DOMAIN t
         PROVE  t[n] = x \/ \E m \in DOMAIN s : t[n] = s[m]
    <2>1. n \in 1 .. Len(s) + 1
      BY <1>11
    <2>2. n <= c => n \in 1 .. Len(s)
      BY <1>1, <1>3, <2>1
    <2>3. ~(n <= c) /\ n # c + 1 => n - 1 \in 1 .. Len(s)
      BY <1>1, <1>3, <2>1
    <2>4. QED
      BY <1>3, <1>12, <2>1, <2>2, <2>3
  <1>16. QED
    BY <1>10, <1>11, <1>14, <1>15 DEF t

\* What is at a position of an ascending list bounds how many are past a value.
LEMMA FewMiss ==
    ASSUME NEW s \in Seq(Int), Ascends(s), NEW i \in 1 .. Len(s), NEW c \in Int
    PROVE  /\ s[i] >= c => Cardinality({n \in DOMAIN s : s[n] < c}) <= i - 1
           /\ s[i] <= c => Cardinality({n \in DOMAIN s : s[n] > c}) <= Len(s) - i
  <1>1. DOMAIN s = 1 .. Len(s) /\ Len(s) \in Nat /\ \A n \in DOMAIN s : s[n] \in Int
    OBVIOUS
  <1>2. ASSUME s[i] >= c
        PROVE  Cardinality({n \in DOMAIN s : s[n] < c}) <= i - 1
    <2> DEFINE A == {n \in DOMAIN s : s[n] < c}
    <2>1. A \in SUBSET (1 .. i - 1)
      <3>1. ASSUME NEW n \in DOMAIN s, s[n] < c
            PROVE  n \in 1 .. i - 1
        <4>1. n \in 1 .. Len(s) /\ s[n] \in Int /\ s[i] \in Int
          BY <1>1
        <4>2. ~(i <= n)
          BY <1>1, <1>2, <3>1, <4>1 DEF Ascends
        <4>3. QED
          BY <1>1, <4>1, <4>2
      <3>2. QED
        BY <3>1
    <2>2. IsFiniteSet(1 .. i - 1) /\ Cardinality(1 .. i - 1) = i - 1
      <3>1. i - 1 \in Int /\ 1 \in Int
        BY <1>1
      <3>2. IsFiniteSet(1 .. i - 1) /\ Cardinality(1 .. i - 1) = IF 1 > i - 1 THEN 0 ELSE (i - 1) - 1 + 1
        BY <3>1, FS_Interval
      <3>3. QED
        BY <1>1, <3>2
    <2> HIDE DEF A
    <2>3. Cardinality(A) <= Cardinality(1 .. i - 1)
      BY <2>1, <2>2, FS_Subset
    <2>4. QED
      BY <2>2, <2>3 DEF A
  <1>3. ASSUME s[i] <= c
        PROVE  Cardinality({n \in DOMAIN s : s[n] > c}) <= Len(s) - i
    <2> DEFINE A == {n \in DOMAIN s : s[n] > c}
    <2>1. A \in SUBSET (i + 1 .. Len(s))
      <3>1. ASSUME NEW n \in DOMAIN s, s[n] > c
            PROVE  n \in i + 1 .. Len(s)
        <4>1. n \in 1 .. Len(s) /\ s[n] \in Int /\ s[i] \in Int
          BY <1>1
        <4>2. ~(n <= i)
          BY <1>1, <1>3, <3>1, <4>1 DEF Ascends
        <4>3. QED
          BY <1>1, <4>1, <4>2
      <3>2. QED
        BY <3>1
    <2>2. IsFiniteSet(i + 1 .. Len(s)) /\ Cardinality(i + 1 .. Len(s)) = Len(s) - i
      <3>1. i + 1 \in Int /\ Len(s) \in Int
        BY <1>1
      <3>2. /\ IsFiniteSet(i + 1 .. Len(s))
            /\ Cardinality(i + 1 .. Len(s)) = IF i + 1 > Len(s) THEN 0 ELSE Len(s) - (i + 1) + 1
        BY <3>1, FS_Interval
      <3>3. QED
        BY <1>1, <3>2
    <2> HIDE DEF A
    <2>3. Cardinality(A) <= Cardinality(i + 1 .. Len(s))
      BY <2>1, <2>2, FS_Subset
    <2>4. QED
      BY <2>2, <2>3 DEF A
  <1>4. QED
    BY <1>2, <1>3

-----------------------------------------------------------------------------
(* The inductive invariant.                                                *)

NameOf(k) == IF k = 0 THEN All ELSE Slices[k]

\* What is bootstrapped at all.
Enough(k) == k = 0 \/ Cardinality(CasesOf(k)) >= SliceMinN

\* Cases that are on one side of the threshold decide.
Judged(rep, cases) ==
    grader.threshold # None =>
        /\ (\A n \in cases : ~Misses(metrics[n], 1)) => rep.passed
        /\ (\A n \in cases : Misses(metrics[n], 1)) => ~rep.passed

Sound(rep, k) == rep.name = NameOf(k) /\ rep.n > 0 /\ Judged(rep, CasesOf(k))

Shown ==
    [name : {All} \cup ToSet(Slices), n : Nat, point : Int, lower : Int, upper : Int,
     passed : BOOLEAN]

Shaped ==
    /\ grader \in Graders /\ samples \in Populations /\ turn \in 0 .. Over
    /\ reports \in Seq(Shown)
    /\ samples = <<>> => metrics = <<>> /\ Len(reports) <= 1

Numbers == \A n \in DOMAIN samples : metrics[n] \in Int

\* An evaluation goes on with numbers only.
Measured ==
    /\ metrics = <<>> => drawn = <<>> /\ (samples # <<>> => turn = 0 /\ reports = <<>>)
    /\ metrics # <<>> => DOMAIN metrics = DOMAIN samples
    /\ metrics # <<>> /\ (turn # Over \/ reports # <<>>) => Numbers

\* The resamples are those of the population whose turn it is.
Drawn ==
    /\ drawn \in Seq(Int) /\ Ascends(drawn) /\ Len(drawn) <= Wanted
    /\ \A n \in DOMAIN drawn : drawn[n] \in ResampleSums(CasesOf(turn))
    /\ turn = Over => drawn = <<>>
    /\ turn # Over => Enough(turn)

\* One report of every population that had its turn.
Reported ==
    samples # <<>> =>
        /\ \A r \in DOMAIN reports : \E k \in 0 .. turn - 1 : Enough(k) /\ Sound(reports[r], k)
        /\ turn # Over \/ reports # <<>> => \A k \in 0 .. turn - 1 :
              Enough(k) => \E r \in DOMAIN reports : reports[r].name = NameOf(k)
        /\ \A q, r \in DOMAIN reports : reports[q].name = reports[r].name => q = r

Inv == Shaped /\ Measured /\ Drawn /\ Reported

-----------------------------------------------------------------------------
(* The populations.                                                        *)

\* What the assumptions on the parameters say of a state.
LEMMA ParametersOfState ==
    ASSUME Shaped
    PROVE  /\ Level(grader.ci) /\ grader.bootstraps \in Nat /\ grader.bootstraps > 0
           /\ grader.threshold # None => grader.threshold \in Nat
           /\ DOMAIN samples = 1 .. Len(samples) /\ Len(samples) \in Nat
           /\ samples # <<>> => Len(samples) > 0
           /\ Len(Slices) \in Nat /\ DOMAIN Slices = 1 .. Len(Slices) /\ Over = Len(Slices) + 1
           /\ SliceMinN \in Nat /\ SliceMinN > 0
  <1>1. grader \in Graders /\ samples \in Populations
    BY DEF Shaped
  <1>2. /\ grader.threshold \in Nat \cup {None}
        /\ grader.bootstraps \in Nat \ {0}
        /\ grader.ci.num \in Nat \ {0} /\ grader.ci.den \in Nat /\ grader.ci.num < grader.ci.den
    BY <1>1, DistributionalParameters
  <1>3. samples \in Seq(ToSet(samples)) /\ Slices \in Seq(ToSet(Slices))
    BY <1>1, DistributionalParameters
  <1>4. DOMAIN samples = 1 .. Len(samples) /\ Len(samples) \in Nat /\ (samples # <<>> => Len(samples) > 0)
    BY <1>3
  <1>5. Len(Slices) \in Nat /\ DOMAIN Slices = 1 .. Len(Slices)
    BY <1>3
  <1>6. SliceMinN \in Nat /\ SliceMinN > 0
    BY DistributionalParameters
  <1>7. QED
    BY <1>2, <1>4, <1>5, <1>6 DEF Level, Over

\* As many resamples are wanted as is possible: at least one.
LEMMA WantedIs ==
    ASSUME Shaped
    PROVE  Wanted \in Nat /\ Wanted > 0
  <1>1. grader.bootstraps \in Int /\ grader.bootstraps > 0
    BY ParametersOfState
  <1>2. SliceCap \in Int /\ SliceCap > 0
    BY DistributionalParameters
  <1>3. Min({grader.bootstraps, SliceCap})
            = IF grader.bootstraps <= SliceCap THEN grader.bootstraps ELSE SliceCap
    BY <1>1, <1>2, MinMaxOfTwo
  <1>4. QED
    BY <1>1, <1>2, <1>3 DEF Wanted

\* The cases of a population, and that there are some of those that are bootstrapped.
LEMMA CasesAre ==
    ASSUME Shaped, NEW k
    PROVE  /\ CasesOf(k) \subseteq DOMAIN samples /\ IsFiniteSet(CasesOf(k))
           /\ Cardinality(CasesOf(k)) \in Nat
           /\ samples # <<>> /\ Enough(k) => Cardinality(CasesOf(k)) > 0 /\ CasesOf(k) # {}
  <1>1. IsFiniteSet(DOMAIN samples) /\ (samples # <<>> => DOMAIN samples # {})
    <2>1. DOMAIN samples = 1 .. Len(samples) /\ Len(samples) \in Int /\ (samples # <<>> => Len(samples) > 0)
      BY ParametersOfState
    <2>2. IsFiniteSet(1 .. Len(samples))
      BY <2>1, FS_Interval
    <2>3. QED
      BY <2>1, <2>2
  <1>2. CasesOf(k) \subseteq DOMAIN samples
    BY DEF CasesOf, Carriers
  <1>3. IsFiniteSet(CasesOf(k))
    BY <1>1, <1>2, FS_Subset
  <1>4. Cardinality(CasesOf(k)) \in Nat /\ (CasesOf(k) # {} => Cardinality(CasesOf(k)) > 0)
    BY <1>3, CardinalityIs
  <1>5. ASSUME samples # <<>>, Enough(k)
        PROVE  CasesOf(k) # {}
    <2>1. CASE k = 0
      BY <1>1, <1>5, <2>1 DEF CasesOf
    <2>2. CASE Cardinality(CasesOf(k)) >= SliceMinN
      <3>1. SliceMinN \in Nat /\ SliceMinN > 0
        BY ParametersOfState
      <3>2. Cardinality(CasesOf(k)) # 0
        BY <1>4, <2>2, <3>1
      <3>3. QED
        BY <3>2, FS_EmptySet
    <2>3. QED
      BY <1>5, <2>1, <2>2 DEF Enough
  <1>6. QED
    BY <1>2, <1>3, <1>4, <1>5

\* The population after this one is the next with enough cases.
LEMMA FollowingIs ==
    ASSUME Shaped, NEW k \in 0 .. Len(Slices)
    PROVE  /\ Following(k) \in k + 1 .. Over
           /\ Following(k) # Over => Enough(Following(k))
           /\ \A m \in k + 1 .. Following(k) - 1 : ~Enough(m)
  <1> DEFINE S == {m \in k + 1 .. Over : m = Over \/ Cardinality(CasesOf(m)) >= SliceMinN}
             f == Min(S)
  <1>1. Len(Slices) \in Nat /\ Over = Len(Slices) + 1
    BY ParametersOfState
  <1>2. k \in Int /\ 0 <= k /\ Over \in Int /\ k + 1 <= Over
    BY <1>1
  <1>3. Following(k) = f
    BY DEF Following
  <1>4. Over \in S
    BY <1>2
  <1>5. S \in SUBSET Nat
    BY <1>2
  <1>6. \A m \in S : m \in k + 1 .. Over /\ (m = Over \/ Cardinality(CasesOf(m)) >= SliceMinN)
    OBVIOUS
  <1>7. \A m \in k + 1 .. Over : Cardinality(CasesOf(m)) >= SliceMinN => m \in S
    OBVIOUS
  <1> HIDE DEF S
  <1>8. f \in S /\ \A m \in S : f <= m
    BY <1>4, <1>5, MinOfNaturals
  <1> HIDE DEF f
  <1>9. f \in k + 1 .. Over /\ (f # Over => Enough(f))
    BY <1>6, <1>8 DEF Enough
  <1>10. ASSUME NEW m \in k + 1 .. f - 1
         PROVE  ~Enough(m)
    <2>1. m \in k + 1 .. Over /\ ~(f <= m) /\ m # 0
      BY <1>2, <1>9
    <2>2. m \notin S
      BY <1>8, <2>1
    <2>3. QED
      BY <1>7, <2>1, <2>2 DEF Enough
  <1>11. QED
    BY <1>3, <1>9, <1>10

-----------------------------------------------------------------------------
(* The sums of resamples.                                                  *)

\* A resample is made of the cases.
LEMMA ResampleIs ==
    ASSUME Shaped, Numbers, NEW k, NEW sum \in ResampleSums(CasesOf(k))
    PROVE  /\ sum \in Int
           /\ \A c \in Int : (\A n \in CasesOf(k) : metrics[n] >= c) => sum >= c * Cardinality(CasesOf(k))
           /\ \A c \in Int : (\A n \in CasesOf(k) : metrics[n] <= c) => sum <= c * Cardinality(CasesOf(k))
  <1> DEFINE cases == CasesOf(k)
  <1>1. cases \subseteq DOMAIN samples /\ IsFiniteSet(cases)
    BY CasesAre
  <1>2. PICK draw \in [cases -> cases] : sum = Total([n \in cases |-> metrics[draw[n]]], cases)
    BY DEF ResampleSums
  <1> DEFINE f == [n \in cases |-> metrics[draw[n]]]
  <1> HIDE DEF cases
  <1>3. ASSUME NEW n \in cases
        PROVE  draw[n] \in cases /\ f[n] = metrics[draw[n]] /\ f[n] \in Int
    BY <1>1 DEF Numbers
  <1>4. sum = Total(f, cases)
    BY <1>2
  <1> HIDE DEF f
  <1>5. sum \in Int
    BY <1>1, <1>3, <1>4, SumType
  <1>6. ASSUME NEW c \in Int, \A n \in cases : metrics[n] >= c
        PROVE  sum >= c * Cardinality(cases)
    <2>1. \A n \in cases : f[n] >= c
      BY <1>3, <1>6
    <2>2. QED
      BY <1>1, <1>3, <1>4, <2>1, TotalBounded
  <1>7. ASSUME NEW c \in Int, \A n \in cases : metrics[n] <= c
        PROVE  sum <= c * Cardinality(cases)
    <2>1. \A n \in cases : f[n] <= c
      BY <1>3, <1>7
    <2>2. QED
      BY <1>1, <1>3, <1>4, <2>1, TotalBounded
  <1>8. QED
    BY <1>5, <1>6, <1>7 DEF cases

\* Where all cases are on one side of the threshold, each resample is.
LEMMA ResampleSides ==
    ASSUME Shaped, Numbers, samples # <<>>, NEW k, Enough(k), grader.threshold # None,
           NEW sum \in ResampleSums(CasesOf(k))
    PROVE  LET n == Cardinality(CasesOf(k)) IN
           /\ (\A c \in CasesOf(k) : ~Misses(metrics[c], 1)) => ~Misses(sum, n)
           /\ (\A c \in CasesOf(k) : Misses(metrics[c], 1)) => Misses(sum, n)
  <1> DEFINE cases == CasesOf(k)
             n == Cardinality(cases)
             t == grader.threshold
  <1>1. n \in Nat /\ n > 0 /\ cases \subseteq DOMAIN samples
    BY CasesAre
  <1>2. t \in Nat
    BY ParametersOfState
  <1>3. /\ sum \in Int
        /\ \A c \in Int : (\A m \in cases : metrics[m] >= c) => sum >= c * n
        /\ \A c \in Int : (\A m \in cases : metrics[m] <= c) => sum <= c * n
    BY ResampleIs
  <1>4. \A m \in cases : metrics[m] \in Int
    BY <1>1 DEF Numbers
  <1>5. t * 1 = t
    BY <1>2
  <1>6. Misses(sum, n) <=> IF HigherIsBetter(grader.kind) THEN sum < t * n ELSE sum > t * n
    BY DEF Misses
  <1>7. \A m \in cases : Misses(metrics[m], 1) <=>
            IF HigherIsBetter(grader.kind) THEN metrics[m] < t ELSE metrics[m] > t
    BY <1>5 DEF Misses
  <1> HIDE DEF cases, n, t
  <1>8. /\ t * n \in Int /\ (t - 1) * n = t * n - n /\ (t + 1) * n = t * n + n
        /\ t \in Int /\ t - 1 \in Int /\ t + 1 \in Int
    BY <1>1, <1>2
  <1>9. ASSUME \A m \in cases : ~Misses(metrics[m], 1)
        PROVE  ~Misses(sum, n)
    <2>1. CASE HigherIsBetter(grader.kind)
      <3>1. \A m \in cases : metrics[m] >= t
        BY <1>2, <1>4, <1>7, <1>9, <2>1
      <3>2. sum >= t * n
        BY <1>3, <1>8, <3>1
      <3>3. QED
        BY <1>3, <1>6, <1>8, <2>1, <3>2
    <2>2. CASE ~HigherIsBetter(grader.kind)
      <3>1. \A m \in cases : metrics[m] <= t
        BY <1>2, <1>4, <1>7, <1>9, <2>2
      <3>2. sum <= t * n
        BY <1>3, <1>8, <3>1
      <3>3. QED
        BY <1>3, <1>6, <1>8, <2>2, <3>2
    <2>3. QED
      BY <2>1, <2>2
  <1>10. ASSUME \A m \in cases : Misses(metrics[m], 1)
         PROVE  Misses(sum, n)
    <2>1. CASE HigherIsBetter(grader.kind)
      <3>1. \A m \in cases : metrics[m] <= t - 1
        BY <1>2, <1>4, <1>7, <1>10, <2>1
      <3>2. sum <= (t - 1) * n
        BY <1>3, <1>8, <3>1
      <3>3. QED
        BY <1>1, <1>3, <1>6, <1>8, <2>1, <3>2
    <2>2. CASE ~HigherIsBetter(grader.kind)
      <3>1. \A m \in cases : metrics[m] >= t + 1
        BY <1>2, <1>4, <1>7, <1>10, <2>2
      <3>2. sum >= (t + 1) * n
        BY <1>3, <1>8, <3>1
      <3>3. QED
        BY <1>1, <1>3, <1>6, <1>8, <2>2, <3>2
    <2>3. QED
      BY <2>1, <2>2
  <1>11. QED
    BY <1>9, <1>10 DEF cases, n

\* The point estimate is a number.
LEMMA PointIsNumber ==
    ASSUME Shaped, Numbers, NEW k
    PROVE  Total(metrics, CasesOf(k)) \in Int
  <1>1. CasesOf(k) \subseteq DOMAIN samples /\ IsFiniteSet(CasesOf(k))
    BY CasesAre
  <1>2. \A n \in CasesOf(k) : metrics[n] \in Int
    BY <1>1 DEF Numbers
  <1>3. QED
    BY <1>1, <1>2, SumType

-----------------------------------------------------------------------------
(* What a report says.                                                     *)

\* The bounds of a report are resamples, the lower one early and the upper one late.
LEMMA BoundsAre ==
    ASSUME Shaped, Drawn, Len(drawn) = Wanted,
           NEW low \in LowerIndices(grader.ci, Wanted), NEW up \in UpperIndices(grader.ci, Wanted, low)
    PROVE  /\ low + 1 \in DOMAIN drawn /\ up + 1 \in DOMAIN drawn
           /\ At(drawn, low) = drawn[low + 1] /\ At(drawn, up) = drawn[up + 1]
           /\ At(drawn, low) \in Int /\ At(drawn, up) \in Int /\ At(drawn, low) <= At(drawn, up)
           /\ 2 * grader.ci.den * low <= (grader.ci.den - grader.ci.num) * Wanted
           /\ 2 * grader.ci.den * (Wanted - 1 - up)
                  <= (grader.ci.den - grader.ci.num) * Wanted + 2 * grader.ci.den
  <1> DEFINE N == Wanted
  <1>1. N \in Nat /\ N > 0 /\ Level(grader.ci)
    BY WantedIs, ParametersOfState
  <1>2. drawn \in Seq(Int) /\ Ascends(drawn) /\ Len(drawn) = N
    BY DEF Drawn
  <1> HIDE DEF N
  <1>3. low \in 0 .. N - 1 /\ 2 * grader.ci.den * low <= (grader.ci.den - grader.ci.num) * N
    <2>1. low \in LowerIndices(grader.ci, N)
      BY DEF N
    <2>2. QED
      BY <1>1, <2>1, LowerIndexIs
  <1>4. /\ up \in low .. N - 1
        /\ 2 * grader.ci.den * (N - 1 - up) <= (grader.ci.den - grader.ci.num) * N + 2 * grader.ci.den
    <2>1. up \in UpperIndices(grader.ci, N, low)
      BY DEF N
    <2>2. QED
      BY <1>1, <1>3, <2>1, UpperIndexIs
  <1>5. DOMAIN drawn = 1 .. N /\ \A n \in DOMAIN drawn : drawn[n] \in Int
    BY <1>2
  <1>6. low + 1 \in 1 .. N /\ up + 1 \in 1 .. N /\ low + 1 <= up + 1
    BY <1>1, <1>3, <1>4
  <1>7. low % N = low /\ up % N = up
    <2>1. \A i \in 0 .. N - 1 : i % N = i
      BY <1>1
    <2>2. low \in 0 .. N - 1 /\ up \in 0 .. N - 1
      BY <1>1, <1>3, <1>4
    <2>3. QED
      BY <2>1, <2>2
  <1>8. At(drawn, low) = drawn[low + 1] /\ At(drawn, up) = drawn[up + 1]
    BY <1>2, <1>7 DEF At
  <1>9. drawn[low + 1] <= drawn[up + 1]
    BY <1>2, <1>5, <1>6 DEF Ascends
  <1>10. QED
    BY <1>3, <1>4, <1>5, <1>6, <1>8, <1>9 DEF N

\* The verdict is that of one bound.
LEMMA PassedMeans ==
    ASSUME Shaped, grader.threshold # None, NEW n \in Nat, NEW a \in Int, NEW b \in Int
    PROVE  Passed(grader, n, a, b) <=> ~Misses(IF HigherIsBetter(grader.kind) THEN a ELSE b, n)
  <1> DEFINE t == grader.threshold
  <1>1. t \in Nat
    BY ParametersOfState
  <1>2. Passed(grader, n, a, b) <=> IF HigherIsBetter(grader.kind) THEN a >= t * n ELSE b <= t * n
    BY DEF Passed
  <1>3. \A s : Misses(s, n) <=> IF HigherIsBetter(grader.kind) THEN s < t * n ELSE s > t * n
    BY DEF Misses
  <1> HIDE DEF t
  <1>4. t * n \in Int
    BY <1>1
  <1>5. QED
    BY <1>2, <1>3, <1>4

\* Cases on one side decide the verdict, whatever was drawn.
LEMMA VerdictJudged ==
    ASSUME Shaped, Numbers, Drawn, samples # <<>>, turn # Over, Len(drawn) = Wanted,
           NEW low \in LowerIndices(grader.ci, Wanted), NEW up \in UpperIndices(grader.ci, Wanted, low),
           NEW rep, rep.passed = Passed(grader, Cardinality(CasesOf(turn)), At(drawn, low), At(drawn, up))
    PROVE  Judged(rep, CasesOf(turn))
  <1> SUFFICES ASSUME grader.threshold # None
               PROVE  /\ (\A n \in CasesOf(turn) : ~Misses(metrics[n], 1)) => rep.passed
                      /\ (\A n \in CasesOf(turn) : Misses(metrics[n], 1)) => ~rep.passed
    BY DEF Judged
  <1> DEFINE bound == IF HigherIsBetter(grader.kind) THEN At(drawn, low) ELSE At(drawn, up)
             n == Cardinality(CasesOf(turn))
  <1>1. /\ low + 1 \in DOMAIN drawn /\ up + 1 \in DOMAIN drawn
        /\ At(drawn, low) = drawn[low + 1] /\ At(drawn, up) = drawn[up + 1]
        /\ At(drawn, low) \in Int /\ At(drawn, up) \in Int
    BY BoundsAre
  <1>2. bound \in ResampleSums(CasesOf(turn))
    BY <1>1 DEF Drawn
  <1>3. Enough(turn)
    BY DEF Drawn
  <1>4. n \in Nat
    BY CasesAre
  <1>5. rep.passed <=> ~Misses(bound, n)
    BY <1>1, <1>4, PassedMeans
  <1> HIDE DEF bound
  <1>6. /\ (\A c \in CasesOf(turn) : ~Misses(metrics[c], 1)) => ~Misses(bound, n)
        /\ (\A c \in CasesOf(turn) : Misses(metrics[c], 1)) => Misses(bound, n)
    BY <1>2, <1>3, ResampleSides
  <1>7. QED
    BY <1>5, <1>6

\* A pass leaves few resamples on the wrong side.
LEMMA PassIsConservative ==
    ASSUME Shaped, Drawn, Len(drawn) = Wanted, grader.threshold # None, NEW n \in Nat,
           NEW low \in LowerIndices(grader.ci, Wanted), NEW up \in UpperIndices(grader.ci, Wanted, low),
           Passed(grader, n, At(drawn, low), At(drawn, up))
    PROVE  2 * grader.ci.den * Cardinality({i \in DOMAIN drawn : Misses(drawn[i], n)})
               <= (grader.ci.den - grader.ci.num) * Len(drawn) + 2 * grader.ci.den
  <1> DEFINE t == grader.threshold
             c == t * n
             d == grader.ci.den
             share == (grader.ci.den - grader.ci.num) * Wanted
             missing == {i \in DOMAIN drawn : Misses(drawn[i], n)}
  <1>1. /\ low + 1 \in DOMAIN drawn /\ up + 1 \in DOMAIN drawn
        /\ At(drawn, low) = drawn[low + 1] /\ At(drawn, up) = drawn[up + 1]
        /\ At(drawn, low) \in Int /\ At(drawn, up) \in Int
        /\ 2 * d * low <= share /\ 2 * d * (Wanted - 1 - up) <= share + 2 * d
    BY BoundsAre
  <1>2. t \in Nat /\ Level(grader.ci) /\ Wanted \in Nat
    BY ParametersOfState, WantedIs
  <1>3. d \in Nat /\ share \in Int
    <2>1. d - grader.ci.num \in Int /\ d \in Nat
      BY <1>2 DEF Level
    <2>2. QED
      BY <1>2, <2>1
  <1>4. c \in Int
    BY <1>2
  <1>5. drawn \in Seq(Int) /\ Ascends(drawn) /\ DOMAIN drawn = 1 .. Wanted
    BY DEF Drawn
  <1>6. IsFiniteSet(missing)
    <2>1. IsFiniteSet(1 .. Wanted)
      BY <1>2, FS_Interval
    <2>2. QED
      BY <1>5, <2>1, FS_Subset
  <1>7. low + 1 \in 1 .. Wanted /\ up + 1 \in 1 .. Wanted
    BY <1>1, <1>5
  <1>8. Cardinality(missing) \in Nat
    BY <1>6, CardinalityIs
  <1>9. ASSUME NEW k \in Int, Cardinality(missing) <= k, 2 * d * k <= share + 2 * d
        PROVE  2 * d * Cardinality(missing) <= share + 2 * d
    <2> DEFINE m == Cardinality(missing)
    <2> HIDE DEF m, d, share
    <2>1. PICK e \in Nat : k = m + e
      <3>1. k - m \in Nat /\ k = m + (k - m)
        BY <1>8, <1>9 DEF m
      <3>2. QED
        BY <3>1
    <2>2. 2 * d * k = 2 * d * m + 2 * (d * e) /\ d * e \in Nat /\ 2 * d * m \in Int
      BY <1>3, <1>8, <2>1 DEF m
    <2>3. QED
      BY <1>3, <1>9, <2>2 DEF m
  <1>10. CASE HigherIsBetter(grader.kind)
    <2>1. drawn[low + 1] >= c
      BY <1>1, <1>10 DEF Passed
    <2>2. missing = {i \in DOMAIN drawn : drawn[i] < c}
      BY <1>10 DEF Misses
    <2>3. Cardinality({i \in DOMAIN drawn : drawn[i] < c}) <= (low + 1) - 1
      <3> HIDE DEF c
      <3>1. low + 1 \in 1 .. Len(drawn)
        BY <1>7
      <3>2. QED
        BY <1>4, <1>5, <2>1, <3>1, FewMiss
    <2>4. low \in Int /\ (low + 1) - 1 = low
      <3>1. low \in Int
        BY <1>2, LowerIndexIs, WantedIs
      <3>2. QED
        BY <3>1
    <2>5. 2 * d * low <= share + 2 * d
      <3>1. 2 * d * low \in Int
        BY <1>3, <2>4
      <3> HIDE DEF d, share
      <3>2. QED
        BY <1>1, <1>3, <3>1
    <2> HIDE DEF missing, d, share
    <2>6. 2 * d * Cardinality(missing) <= share + 2 * d
      BY <1>9, <2>2, <2>3, <2>4, <2>5
    <2>7. QED
      BY <2>6 DEF missing, d, share
  <1>11. CASE ~HigherIsBetter(grader.kind)
    <2>1. drawn[up + 1] <= c
      BY <1>1, <1>11 DEF Passed
    <2>2. missing = {i \in DOMAIN drawn : drawn[i] > c}
      BY <1>11 DEF Misses
    <2>3. Cardinality({i \in DOMAIN drawn : drawn[i] > c}) <= Len(drawn) - (up + 1)
      <3> HIDE DEF c
      <3>1. up + 1 \in 1 .. Len(drawn)
        BY <1>7
      <3>2. QED
        BY <1>4, <1>5, <2>1, <3>1, FewMiss
    <2>4. up \in Int /\ Len(drawn) - (up + 1) = Wanted - 1 - up
      <3>1. low \in 0 .. Wanted - 1
        BY <1>2, LowerIndexIs, WantedIs
      <3>2. up \in low .. Wanted - 1
        BY <1>2, <3>1, UpperIndexIs, WantedIs
      <3>3. QED
        BY <1>2, <3>1, <3>2
    <2> HIDE DEF missing, d, share
    <2>5. Wanted - 1 - up \in Int
      BY <1>2, <2>4
    <2>6. 2 * d * Cardinality(missing) <= share + 2 * d
      BY <1>1, <1>9, <2>2, <2>3, <2>4, <2>5
    <2>7. QED
      BY <2>6 DEF missing, d, share
  <1>12. QED
    BY <1>10, <1>11

-----------------------------------------------------------------------------
(* The invariant is kept, action by action.                                *)

\* Before the evaluation.
LEMMA InvInit == Init => Inv
  <1> SUFFICES ASSUME Init PROVE Inv
    OBVIOUS
  <1>1. /\ grader \in Graders /\ samples \in Populations /\ metrics = <<>> /\ turn = 0
        /\ drawn = <<>> /\ reports = <<>>
    BY DEF Init
  <1>2. Len(Slices) \in Nat
    BY DistributionalParameters
  <1>3. DOMAIN drawn = {} /\ DOMAIN reports = {} /\ Len(drawn) = 0 /\ Len(reports) = 0
    BY <1>1
  <1>4. drawn \in Seq(Int) /\ reports \in Seq(Shown)
    BY <1>1
  <1>5. Shaped
    BY <1>1, <1>2, <1>3, <1>4 DEF Shaped, Over
  <1>6. Measured
    BY <1>1 DEF Measured
  <1>7. Drawn
    <2>1. Wanted \in Nat
      BY <1>5, WantedIs
    <2>2. Ascends(drawn)
      BY <1>3 DEF Ascends
    <2>3. QED
      BY <1>1, <1>3, <1>4, <2>1, <2>2 DEF Drawn, Enough
  <1>8. Reported
    <2>1. 0 .. turn - 1 = {}
      BY <1>1
    <2>2. QED
      BY <1>3, <2>1 DEF Reported
  <1>9. QED
    BY <1>5, <1>6, <1>7, <1>8 DEF Inv

\* Nothing to evaluate: one report, of nothing.
LEMMA InvNothing ==
    ASSUME Inv, EvaluateNothing
    PROVE  Inv'
  <1> DEFINE rep == [name |-> All, n |-> 0, point |-> 0, lower |-> 0, upper |-> 0, passed |-> FALSE]
  <1>1. /\ samples = <<>> /\ reports' = <<rep>> /\ turn' = Over
        /\ grader' = grader /\ samples' = samples /\ metrics' = metrics /\ drawn' = drawn
    BY DEF EvaluateNothing
  <1>2. Shaped /\ Measured /\ metrics = <<>>
    BY <1>1 DEF Inv, Shaped
  <1>3. drawn = <<>> /\ DOMAIN drawn = {} /\ Len(drawn) = 0
    BY <1>2 DEF Measured
  <1>4. Over \in 0 .. Over
    BY <1>2, ParametersOfState
  <1>5. rep \in Shown
    BY DEF Shown
  <1> HIDE DEF rep
  <1>6. reports' \in Seq(Shown) /\ Len(reports') = 1
    BY <1>1, <1>5
  <1>7. Shaped'
    BY <1>1, <1>2, <1>4, <1>6 DEF Shaped
  <1>8. Measured'
    BY <1>1, <1>2, <1>3 DEF Measured
  <1>9. Drawn'
    <2>1. (Wanted \in Nat)'
      BY <1>7, WantedIs, PTL
    <2>2. Ascends(drawn)'
      BY <1>1, <1>3 DEF Ascends
    <2>3. drawn' \in Seq(Int)
      BY <1>1, <1>3
    <2>4. Over' = Over
      BY DEF Over
    <2>5. QED
      BY <1>1, <1>3, <2>1, <2>2, <2>3, <2>4 DEF Drawn
  <1>10. Reported'
    BY <1>1 DEF Reported
  <1>11. QED
    BY <1>7, <1>8, <1>9, <1>10 DEF Inv

\* The metrics are numbers, or the evaluation is over.
LEMMA InvMeasure ==
    ASSUME Inv, Measure
    PROVE  Inv'
  <1> DEFINE values == [n \in DOMAIN samples |-> PerSampleMetric(grader.kind, samples[n])]
  <1>1. /\ samples # <<>> /\ metrics = <<>> /\ metrics' = values
        /\ turn' = IF \E n \in DOMAIN values : values[n] = Inf THEN Over ELSE 0
        /\ grader' = grader /\ samples' = samples /\ drawn' = drawn /\ reports' = reports
    BY DEF Measure
  <1>2. Shaped /\ drawn = <<>> /\ turn = 0 /\ reports = <<>>
    BY <1>1 DEF Inv, Measured
  <1>3. DOMAIN drawn = {} /\ Len(drawn) = 0 /\ DOMAIN reports = {}
    BY <1>2
  <1>4. DOMAIN samples = 1 .. Len(samples) /\ Len(samples) > 0 /\ Len(samples) \in Nat
    BY <1>1, <1>2, ParametersOfState
  <1>5. \A n \in DOMAIN samples : values[n] \in Int \cup {Inf}
    <2>1. grader \in Graders /\ samples \in Populations
      BY <1>2 DEF Shaped
    <2>2. QED
      BY <2>1, MetricIsNumber
  <1>6. DOMAIN values = DOMAIN samples
    OBVIOUS
  <1> HIDE DEF values
  <1>7. metrics' # <<>>
    <2>1. DOMAIN metrics' # {}
      BY <1>1, <1>4, <1>6
    <2>2. QED
      BY <2>1
  <1>8. Over \in Nat /\ Over # 0 /\ Over' = Over
    BY <1>2, ParametersOfState DEF Over
  <1>9. turn' \in 0 .. Over /\ (turn' # Over => turn' = 0 /\ \A n \in DOMAIN values : values[n] # Inf)
    BY <1>1, <1>8
  <1>10. Shaped'
    BY <1>1, <1>2, <1>8, <1>9 DEF Shaped
  <1>11. Measured'
    <2>1. turn' # Over => Numbers'
      BY <1>1, <1>5, <1>6, <1>9 DEF Numbers
    <2>2. QED
      BY <1>1, <1>2, <1>6, <1>7, <1>8, <2>1 DEF Measured
  <1>12. Drawn'
    <2>1. (Wanted \in Nat)'
      BY <1>10, WantedIs, PTL
    <2>2. Ascends(drawn)'
      BY <1>1, <1>3 DEF Ascends
    <2>3. drawn' \in Seq(Int)
      BY <1>1, <1>2
    <2>4. turn' # Over' => Enough(turn)'
      BY <1>8, <1>9 DEF Enough
    <2>5. QED
      BY <1>1, <1>2, <1>3, <2>1, <2>2, <2>3, <2>4 DEF Drawn
  <1>13. Reported'
    <2>1. turn' # Over => 0 .. turn' - 1 = {}
      BY <1>9
    <2>2. QED
      BY <1>1, <1>2, <1>3, <1>8, <2>1 DEF Reported
  <1>14. QED
    BY <1>10, <1>11, <1>12, <1>13 DEF Inv

\* A resample takes its place among those of its population.
LEMMA InvResample ==
    ASSUME Inv, Resample
    PROVE  Inv'
  <1>1. PICK sum \in ResampleSums(CasesOf(turn)) : drawn' = Insert(drawn, sum)
    BY DEF Resample
  <1>2. /\ metrics # <<>> /\ turn # Over /\ Len(drawn) < Wanted
        /\ grader' = grader /\ samples' = samples /\ metrics' = metrics
        /\ turn' = turn /\ reports' = reports
    BY DEF Resample
  <1>3. Shaped /\ Measured /\ Drawn /\ Reported /\ Numbers
    BY <1>2 DEF Inv, Measured
  <1>4. /\ CasesOf(turn)' = CasesOf(turn) /\ ResampleSums(CasesOf(turn))' = ResampleSums(CasesOf(turn))
        /\ Wanted' = Wanted /\ Over' = Over
    BY <1>2 DEF CasesOf, Carriers, ResampleSums, Wanted, Over
  <1>5. Shaped'
    BY <1>2, <1>3, <1>4 DEF Shaped
  <1>6. Measured'
    BY <1>2, <1>3, <1>4 DEF Measured, Numbers
  <1>7. Drawn'
    <2>1. sum \in Int /\ drawn \in Seq(Int) /\ Ascends(drawn)
      BY <1>3, ResampleIs DEF Drawn
    <2>2. /\ drawn' \in Seq(Int) /\ Len(drawn') = Len(drawn) + 1 /\ Ascends(drawn')
          /\ \A n \in DOMAIN drawn' : drawn'[n] = sum \/ \E m \in DOMAIN drawn : drawn'[n] = drawn[m]
      BY <1>1, <2>1, InsertIs
    <2>3. \A n \in DOMAIN drawn' : drawn'[n] \in ResampleSums(CasesOf(turn))
      BY <1>3, <2>2 DEF Drawn
    <2>4. Len(drawn') <= Wanted
      <3>1. Wanted \in Nat /\ Len(drawn) \in Nat
        BY <1>3, <2>1, WantedIs
      <3>2. QED
        BY <1>2, <2>2, <3>1
    <2>5. Ascends(drawn)'
      BY <2>2 DEF Ascends
    <2>6. Enough(turn)'
      BY <1>2, <1>3, <1>4 DEF Drawn, Enough
    <2>7. \A n \in DOMAIN drawn' : drawn'[n] \in ResampleSums(CasesOf(turn))'
      BY <1>4, <2>3
    <2>8. QED
      BY <1>2, <1>4, <2>2, <2>4, <2>5, <2>6, <2>7 DEF Drawn
  <1>8. Reported'
    <2>1. ASSUME NEW k PROVE Enough(k)' <=> Enough(k)
      BY <1>2 DEF Enough, CasesOf, Carriers
    <2>2. ASSUME NEW k, NEW r PROVE Sound(reports[r], k)' <=> Sound(reports[r], k)
      BY <1>2 DEF Sound, Judged, Misses, CasesOf, Carriers, NameOf
    <2>3. QED
      BY <1>2, <1>3, <1>4, <2>1, <2>2 DEF Reported, NameOf
  <1>9. QED
    BY <1>5, <1>6, <1>7, <1>8 DEF Inv

\* What a report adds.
LEMMA ReportAdds ==
    ASSUME Inv, Report
    PROVE  /\ samples # <<>> /\ turn \in 0 .. Len(Slices) /\ Numbers
           /\ \E rep \in Shown : Sound(rep, turn) /\ reports' = Append(reports, rep)
  <1> DEFINE cases == CasesOf(turn)
             n == Cardinality(cases)
  <1>1. PICK low \in LowerIndices(grader.ci, Wanted) : \E up \in UpperIndices(grader.ci, Wanted, low) :
            reports' = Append(reports,
                [name |-> IF turn = 0 THEN All ELSE Slices[turn], n |-> n, point |-> Total(metrics, cases),
                 lower |-> At(drawn, low), upper |-> At(drawn, up),
                 passed |-> Passed(grader, n, At(drawn, low), At(drawn, up))])
    BY DEF Report
  <1>2. PICK up \in UpperIndices(grader.ci, Wanted, low) :
            reports' = Append(reports,
                [name |-> IF turn = 0 THEN All ELSE Slices[turn], n |-> n, point |-> Total(metrics, cases),
                 lower |-> At(drawn, low), upper |-> At(drawn, up),
                 passed |-> Passed(grader, n, At(drawn, low), At(drawn, up))])
    BY <1>1
  <1>3. metrics # <<>> /\ turn # Over /\ Len(drawn) = Wanted
    BY DEF Report
  <1>4. Shaped /\ Measured /\ Drawn /\ Numbers /\ samples # <<>>
    BY <1>3 DEF Inv, Measured, Shaped
  <1>5. turn \in 0 .. Len(Slices) /\ Len(Slices) \in Nat /\ DOMAIN Slices = 1 .. Len(Slices)
    <2>1. turn \in 0 .. Over /\ Len(Slices) \in Nat /\ Over = Len(Slices) + 1 /\ DOMAIN Slices = 1 .. Len(Slices)
      BY <1>4, ParametersOfState DEF Shaped
    <2>2. QED
      BY <1>3, <2>1
  <1>6. Enough(turn)
    BY <1>3, <1>4 DEF Drawn
  <1>7. n \in Nat /\ n > 0
    BY <1>4, <1>6, CasesAre
  <1>8. Total(metrics, cases) \in Int
    BY <1>4, PointIsNumber
  <1>9. At(drawn, low) \in Int /\ At(drawn, up) \in Int
    BY <1>3, <1>4, BoundsAre
  <1>10. NameOf(turn) \in {All} \cup ToSet(Slices)
    <2>1. turn # 0 => turn \in DOMAIN Slices
      BY <1>5
    <2>2. QED
      BY <2>1 DEF NameOf, ToSet
  <1> DEFINE passed == Passed(grader, n, At(drawn, low), At(drawn, up))
             rep == [name |-> NameOf(turn), n |-> n, point |-> Total(metrics, cases),
                     lower |-> At(drawn, low), upper |-> At(drawn, up), passed |-> passed]
  <1>11. reports' = Append(reports, rep)
    BY <1>2 DEF NameOf
  <1>12. passed \in BOOLEAN
    BY DEF Passed
  <1>13. rep.passed = passed /\ rep.n = n /\ rep.name = NameOf(turn)
    OBVIOUS
  <1>14. Judged(rep, CasesOf(turn))
    <2> HIDE DEF rep
    <2>1. QED
      BY <1>3, <1>4, <1>13, VerdictJudged
  <1>15. rep \in Shown
    <2> HIDE DEF passed, n
    <2>1. QED
      BY <1>7, <1>8, <1>9, <1>10, <1>12 DEF Shown
  <1> HIDE DEF rep
  <1>16. Sound(rep, turn)
    BY <1>7, <1>13, <1>14 DEF Sound
  <1>17. QED
    BY <1>4, <1>5, <1>11, <1>15, <1>16

\* Names tell populations apart.
LEMMA NamesDiffer ==
    ASSUME NEW j \in 0 .. Len(Slices), NEW k \in 0 .. Len(Slices), NameOf(j) = NameOf(k)
    PROVE  j = k
  <1>1. DOMAIN Slices = 1 .. Len(Slices) /\ Len(Slices) \in Nat
    BY DistributionalParameters
  <1>2. \A m \in DOMAIN Slices : Slices[m] # All
    BY DistributionalParameters DEF ToSet
  <1>3. \A m, n \in DOMAIN Slices : Slices[m] = Slices[n] => m = n
    BY DistributionalParameters
  <1>4. (j # 0 => j \in DOMAIN Slices) /\ (k # 0 => k \in DOMAIN Slices)
    BY <1>1
  <1>5. QED
    BY <1>2, <1>3, <1>4 DEF NameOf

\* A report is one of the population whose turn it was, and the next one follows.
LEMMA InvReport ==
    ASSUME Inv, Report
    PROVE  Inv'
  <1>1. /\ metrics # <<>> /\ turn # Over
        /\ grader' = grader /\ samples' = samples /\ metrics' = metrics
        /\ drawn' = <<>> /\ turn' = Following(turn)
    BY DEF Report
  <1>2. samples # <<>> /\ turn \in 0 .. Len(Slices) /\ Numbers
    BY ReportAdds
  <1>3. PICK rep \in Shown : Sound(rep, turn) /\ reports' = Append(reports, rep)
    BY ReportAdds
  <1>4. Shaped /\ Measured /\ Drawn /\ Reported
    BY DEF Inv
  <1>5. /\ turn' \in turn + 1 .. Over
        /\ turn' # Over => Enough(turn')
        /\ \A m \in turn + 1 .. turn' - 1 : ~Enough(m)
    BY <1>1, <1>2, <1>4, FollowingIs
  <1>6. Over' = Over /\ Over = Len(Slices) + 1 /\ Len(Slices) \in Nat
    BY <1>4, ParametersOfState DEF Over
  <1>7. reports \in Seq(Shown)
    BY <1>4 DEF Shaped
  <1>8. /\ reports' \in Seq(Shown) /\ Len(reports') = Len(reports) + 1
        /\ \A r \in 1 .. Len(reports) : reports'[r] = reports[r]
        /\ reports'[Len(reports) + 1] = rep
    BY <1>3, <1>7, AppendProperties
  <1>9. /\ DOMAIN reports = 1 .. Len(reports) /\ DOMAIN reports' = 1 .. Len(reports) + 1
        /\ Len(reports) \in Nat
    BY <1>7, <1>8
  <1>10. turn \in Int /\ 0 <= turn /\ turn' \in Int /\ turn + 1 <= turn' /\ turn' <= Over
    BY <1>2, <1>5, <1>6
  <1>25. /\ \A k \in Int : 0 <= k /\ k <= turn => k \in 0 .. turn' - 1
         /\ \A k \in 0 .. turn' - 1 : k > turn => k \in turn + 1 .. turn' - 1
    <2> DEFINE next == turn'
    <2>1. next \in Int /\ turn \in Int /\ 0 <= turn /\ turn + 1 <= next
      BY <1>10
    <2> HIDE DEF next
    <2>2. \A k \in Int : 0 <= k /\ k <= turn => k \in 0 .. next - 1
      BY <2>1
    <2>3. \A k \in 0 .. next - 1 : k > turn => k \in turn + 1 .. next - 1
      BY <2>1
    <2>4. QED
      BY <2>2, <2>3 DEF next
  <1>11. Shaped'
    <2>1. turn' \in 0 .. Over'
      BY <1>6, <1>10
    <2>2. QED
      BY <1>1, <1>2, <1>4, <1>8, <2>1 DEF Shaped
  <1>12. Measured'
    BY <1>1, <1>2, <1>4 DEF Measured, Numbers
  <1>13. DOMAIN drawn' = {} /\ Len(drawn') = 0 /\ drawn' \in Seq(Int)
    BY <1>1
  <1>14. \A k : Enough(k)' <=> Enough(k)
    <2>1. ASSUME NEW k PROVE Enough(k)' <=> Enough(k)
      BY <1>1 DEF Enough, CasesOf, Carriers
    <2>2. QED
      BY <2>1
  <1>15. Drawn'
    <2>1. (Wanted \in Nat)'
      BY <1>11, WantedIs, PTL
    <2>2. Ascends(drawn)'
      BY <1>13 DEF Ascends
    <2>3. turn' # Over' => Enough(turn)'
      BY <1>1, <1>5, <1>6 DEF Enough, CasesOf, Carriers
    <2>4. QED
      BY <1>1, <1>13, <2>1, <2>2, <2>3 DEF Drawn
  <1>16. /\ \A r \in DOMAIN reports : \E k \in 0 .. turn - 1 : Enough(k) /\ Sound(reports[r], k)
         /\ \A k \in 0 .. turn - 1 : Enough(k) => \E r \in DOMAIN reports : reports[r].name = NameOf(k)
         /\ \A q, r \in DOMAIN reports : reports[q].name = reports[r].name => q = r
    BY <1>1, <1>2, <1>4 DEF Reported
  <1>17. Enough(turn)
    BY <1>1, <1>4 DEF Drawn
  <1>18. ASSUME NEW r \in DOMAIN reports'
         PROVE  \E k \in 0 .. turn' - 1 : Enough(k) /\ Sound(reports'[r], k)
    <2>1. CASE r \in DOMAIN reports
      <3>1. PICK k \in 0 .. turn - 1 : Enough(k) /\ Sound(reports[r], k)
        BY <1>16, <2>1
      <3>2. k \in 0 .. turn' - 1
        <4>1. k \in Int /\ 0 <= k /\ k <= turn
          BY <1>2, <1>6
        <4>2. QED
          BY <1>25, <4>1
      <3>3. reports'[r] = reports[r]
        BY <1>8, <1>9, <2>1
      <3>4. QED
        BY <3>1, <3>2, <3>3
    <2>2. CASE r = Len(reports) + 1
      <3>1. turn \in 0 .. turn' - 1
        <4>1. turn \in Int /\ 0 <= turn /\ turn <= turn
          BY <1>2, <1>6
        <4>2. QED
          BY <1>25, <4>1
      <3>2. QED
        BY <1>3, <1>8, <1>17, <2>2, <3>1
    <2>3. QED
      BY <1>9, <2>1, <2>2
  <1>19. ASSUME NEW k \in 0 .. turn' - 1, Enough(k)
         PROVE  \E r \in DOMAIN reports' : reports'[r].name = NameOf(k)
    <2>1. CASE k < turn
      <3>1. k \in 0 .. turn - 1
        BY <1>10, <2>1
      <3>2. PICK r \in DOMAIN reports : reports[r].name = NameOf(k)
        BY <1>16, <1>19, <3>1
      <3>3. r \in DOMAIN reports' /\ reports'[r] = reports[r]
        BY <1>8, <1>9
      <3>4. QED
        BY <3>2, <3>3
    <2>2. CASE k = turn
      <3>1. Len(reports) + 1 \in DOMAIN reports' /\ reports'[Len(reports) + 1].name = NameOf(k)
        BY <1>3, <1>8, <1>9, <2>2 DEF Sound
      <3>2. QED
        BY <3>1
    <2>3. CASE k > turn
      <3>1. k \in turn + 1 .. turn' - 1
        BY <1>25, <2>3
      <3>2. QED
        BY <1>5, <1>19, <3>1
    <2>4. QED
      BY <1>10, <2>1, <2>2, <2>3
  <1>20. \A r \in DOMAIN reports : reports[r].name # rep.name
    <2> SUFFICES ASSUME NEW r \in DOMAIN reports, reports[r].name = rep.name
                 PROVE  FALSE
      OBVIOUS
    <2>1. PICK k \in 0 .. turn - 1 : Enough(k) /\ Sound(reports[r], k)
      BY <1>16
    <2>2. NameOf(k) = NameOf(turn)
      BY <1>3, <2>1 DEF Sound
    <2>3. k \in 0 .. Len(Slices) /\ k # turn
      BY <1>2, <1>6, <1>10
    <2>4. QED
      BY <1>2, <2>2, <2>3, NamesDiffer
  <1>21. ASSUME NEW q \in DOMAIN reports', NEW r \in DOMAIN reports', reports'[q].name = reports'[r].name
         PROVE  q = r
    <2>1. CASE q \in DOMAIN reports /\ r \in DOMAIN reports
      <3>1. reports'[q] = reports[q] /\ reports'[r] = reports[r]
        BY <1>8, <1>9, <2>1
      <3>2. QED
        BY <1>16, <1>21, <2>1, <3>1
    <2>2. CASE q \in DOMAIN reports /\ r = Len(reports) + 1
      BY <1>8, <1>9, <1>20, <1>21, <2>2
    <2>3. CASE q = Len(reports) + 1 /\ r \in DOMAIN reports
      BY <1>8, <1>9, <1>20, <1>21, <2>3
    <2>4. CASE q = Len(reports) + 1 /\ r = Len(reports) + 1
      BY <2>4
    <2>5. QED
      BY <1>9, <2>1, <2>2, <2>3, <2>4
  <1>22. \A r : \A k : Sound(reports[r], k)' <=> Sound(reports'[r], k)
    <2>1. ASSUME NEW r, NEW k PROVE Sound(reports[r], k)' <=> Sound(reports'[r], k)
      BY <1>1 DEF Sound, Judged, Misses, CasesOf, Carriers, NameOf
    <2>2. QED
      BY <2>1
  <1>23. Reported'
    <2>1. \A r \in DOMAIN reports' : \E k \in 0 .. turn' - 1 : Enough(k)' /\ Sound(reports[r], k)'
      BY <1>14, <1>18, <1>22
    <2>2. \A k \in 0 .. turn' - 1 : Enough(k)' => \E r \in DOMAIN reports' : reports'[r].name = NameOf(k)
      BY <1>14, <1>19
    <2>3. QED
      BY <1>21, <2>1, <2>2 DEF Reported, NameOf
  <1>24. QED
    BY <1>11, <1>12, <1>15, <1>23 DEF Inv

\* Steps that change nothing.
LEMMA InvStutters ==
    ASSUME Inv, UNCHANGED vars
    PROVE  Inv'
  <1>1. /\ grader' = grader /\ samples' = samples /\ metrics' = metrics
        /\ turn' = turn /\ drawn' = drawn /\ reports' = reports
    BY DEF vars
  <1>2. Shaped' /\ Measured'
    BY <1>1 DEF Inv, Shaped, Measured, Numbers, Over
  <1>3. /\ CasesOf(turn)' = CasesOf(turn) /\ ResampleSums(CasesOf(turn))' = ResampleSums(CasesOf(turn))
        /\ Wanted' = Wanted /\ Over' = Over
    BY <1>1 DEF CasesOf, Carriers, ResampleSums, Wanted, Over
  <1>4. \A k : Enough(k)' <=> Enough(k)
    <2>1. ASSUME NEW k PROVE Enough(k)' <=> Enough(k)
      BY <1>1 DEF Enough, CasesOf, Carriers
    <2>2. QED
      BY <2>1
  <1>5. \A r : \A k : Sound(reports[r], k)' <=> Sound(reports[r], k)
    <2>1. ASSUME NEW r, NEW k PROVE Sound(reports[r], k)' <=> Sound(reports[r], k)
      BY <1>1 DEF Sound, Judged, Misses, CasesOf, Carriers, NameOf
    <2>2. QED
      BY <2>1
  <1>6. Drawn'
    <2>1. Ascends(drawn)' <=> Ascends(drawn)
      BY <1>1 DEF Ascends
    <2>2. Enough(turn)' <=> Enough(turn)
      BY <1>1, <1>3 DEF Enough
    <2>3. QED
      BY <1>1, <1>3, <2>1, <2>2 DEF Inv, Drawn
  <1>7. Reported'
    BY <1>1, <1>3, <1>4, <1>5 DEF Inv, Reported, NameOf
  <1>8. QED
    BY <1>2, <1>6, <1>7 DEF Inv

\* The invariant holds in every state of every evaluation.
LEMMA Invariance == Spec => []Inv
  <1>1. Inv /\ [Next]_vars => Inv'
    BY InvNothing, InvMeasure, InvResample, InvReport, InvStutters DEF Next
  <1>2. QED
    BY <1>1, InvInit, PTL DEF Spec

-----------------------------------------------------------------------------
(* The verdicts.                                                           *)

\* A verdict is conservative: of the resamples it rests on, at most the share of
\* one tail, and one more, miss the threshold that was passed.
THEOREM PassingIsConservative == Spec => ConservativePass
  <1> DEFINE Rule(r) ==
          LET rep == reports'[r]
              missing == Cardinality({n \in DOMAIN drawn : Misses(drawn[n], rep.n)})
          IN rep.passed /\ grader.threshold # None =>
                 2 * grader.ci.den * missing
                     <= (grader.ci.den - grader.ci.num) * Len(drawn) + 2 * grader.ci.den
             Kept == \A r \in DOMAIN reports' \ DOMAIN reports : Rule(r)
  <1>1. Inv /\ Next => Kept
    <2> SUFFICES ASSUME Inv, Next, NEW r \in DOMAIN reports' \ DOMAIN reports
                 PROVE  Rule(r)
      OBVIOUS
    <2> DEFINE rep == reports'[r]
    <2> USE DEF Inv
    <2>1. CASE EvaluateNothing
      <3>1. reports' = <<[name |-> All, n |-> 0, point |-> 0, lower |-> 0, upper |-> 0, passed |-> FALSE]>>
        BY <2>1 DEF EvaluateNothing
      <3>2. r = 1
        BY <3>1
      <3>3. ~rep.passed
        BY <3>1, <3>2
      <3>4. QED
        BY <3>3
    <2>2. CASE Measure \/ Resample
      BY <2>2 DEF Measure, Resample
    <2>3. CASE Report
      <3> DEFINE n == Cardinality(CasesOf(turn))
                 Result(low, up) ==
                     [name |-> IF turn = 0 THEN All ELSE Slices[turn], n |-> n,
                      point |-> Total(metrics, CasesOf(turn)),
                      lower |-> At(drawn, low), upper |-> At(drawn, up),
                      passed |-> Passed(grader, n, At(drawn, low), At(drawn, up))]
      <3>1. Len(drawn) = Wanted /\ \E low \in LowerIndices(grader.ci, Wanted) :
                \E up \in UpperIndices(grader.ci, Wanted, low) : reports' = Append(reports, Result(low, up))
        BY <2>3 DEF Report
      <3>2. PICK low \in LowerIndices(grader.ci, Wanted) :
                \E up \in UpperIndices(grader.ci, Wanted, low) : reports' = Append(reports, Result(low, up))
        BY <3>1
      <3>3. PICK up \in UpperIndices(grader.ci, Wanted, low) : reports' = Append(reports, Result(low, up))
        BY <3>2
      <3>4. /\ Result(low, up).n = n
            /\ Result(low, up).passed = Passed(grader, n, At(drawn, low), At(drawn, up))
        OBVIOUS
      <3>5. reports \in Seq(Shown)
        BY DEF Shaped
      <3>6. rep = Result(low, up)
        <4> DEFINE result == Result(low, up)
        <4>1. reports' = Append(reports, result)
          BY <3>3
        <4> HIDE DEF result
        <4>2. /\ DOMAIN reports = 1 .. Len(reports) /\ DOMAIN reports' = 1 .. Len(reports) + 1
              /\ reports'[Len(reports) + 1] = result /\ Len(reports) \in Nat
          BY <3>5, <4>1
        <4>3. r = Len(reports) + 1
          BY <4>2
        <4>4. QED
          BY <4>2, <4>3 DEF result
      <3> HIDE DEF Result
      <3>7. n \in Nat
        BY CasesAre
      <3>8. rep.n = n /\ rep.passed = Passed(grader, n, At(drawn, low), At(drawn, up))
        BY <3>4, <3>6
      <3> HIDE DEF rep, n
      <3>9. rep.passed /\ grader.threshold # None =>
                2 * grader.ci.den * Cardinality({i \in DOMAIN drawn : Misses(drawn[i], n)})
                    <= (grader.ci.den - grader.ci.num) * Len(drawn) + 2 * grader.ci.den
        BY <3>1, <3>7, <3>8, PassIsConservative
      <3>10. QED
        BY <3>8, <3>9 DEF rep
    <2>4. QED
      BY <2>1, <2>2, <2>3 DEF Next
  <1>2. UNCHANGED vars => Kept
    BY DEF vars
  <1>3. Inv /\ [Next]_vars => [Kept]_vars
    <2> HIDE DEF Kept
    <2>1. QED
      BY <1>1
  <1>4. QED
    BY <1>3, Invariance, PTL DEF Spec, ConservativePass

\* The cases that carry a slice decide its verdict where they agree, and a slice
\* with enough cases has one.
LEMMA CasesDecide ==
    ASSUME Inv, Finished, grader.threshold # None, samples # <<>>, NEW k \in DOMAIN Slices
    PROVE  LET own == {metrics[n] : n \in Carriers(Slices[k])}
               verdicts == {reports[r].passed : r \in {q \in DOMAIN reports : reports[q].name = Slices[k]}}
           IN /\ Cardinality(Carriers(Slices[k])) >= SliceMinN <=> verdicts # {}
              /\ (\A v \in own : ~Misses(v, 1)) => FALSE \notin verdicts
              /\ (\A v \in own : Misses(v, 1)) => TRUE \notin verdicts
  <1> DEFINE mine == {q \in DOMAIN reports : reports[q].name = Slices[k]}
             own == {metrics[n] : n \in Carriers(Slices[k])}
             verdicts == {reports[r].passed : r \in mine}
  <1>1. Shaped /\ Reported /\ reports # <<>> /\ turn = Over
    BY DEF Inv, Finished
  <1>2. k \in 1 .. Len(Slices) /\ Len(Slices) \in Nat /\ Over = Len(Slices) + 1
    BY <1>1, ParametersOfState
  <1>3. k # 0 /\ k \in 0 .. Len(Slices) /\ k \in 0 .. turn - 1 /\ NameOf(k) = Slices[k]
    BY <1>1, <1>2 DEF NameOf
  <1>4. CasesOf(k) = Carriers(Slices[k]) /\ (Enough(k) <=> Cardinality(Carriers(Slices[k])) >= SliceMinN)
    BY <1>3 DEF CasesOf, Enough
  <1>5. ASSUME NEW r \in mine
        PROVE  Enough(k) /\ Judged(reports[r], Carriers(Slices[k]))
    <2>1. PICK j \in 0 .. turn - 1 : Enough(j) /\ Sound(reports[r], j)
      BY <1>1 DEF Reported
    <2>2. NameOf(j) = NameOf(k)
      BY <1>3, <2>1 DEF Sound
    <2>3. j \in 0 .. Len(Slices)
      BY <1>1, <1>2
    <2>4. j = k
      BY <1>3, <2>2, <2>3, NamesDiffer
    <2>5. QED
      BY <1>4, <2>1, <2>4 DEF Sound
  <1>6. Enough(k) => mine # {}
    <2>1. Enough(k) => \E r \in DOMAIN reports : reports[r].name = NameOf(k)
      BY <1>1, <1>3 DEF Reported
    <2>2. QED
      BY <1>3, <2>1
  <1>7. verdicts # {} <=> mine # {}
    OBVIOUS
  <1>8. Cardinality(Carriers(Slices[k])) >= SliceMinN <=> verdicts # {}
    <2> HIDE DEF mine, verdicts
    <2>1. mine # {} => Enough(k)
      BY <1>5
    <2>2. QED
      BY <1>4, <1>6, <1>7, <2>1
  <1>9. ASSUME NEW r \in mine
        PROVE  /\ (\A v \in own : ~Misses(v, 1)) => reports[r].passed
               /\ (\A v \in own : Misses(v, 1)) => ~reports[r].passed
    BY <1>5 DEF Judged
  <1> HIDE DEF mine
  <1>10. (\A v \in own : ~Misses(v, 1)) => FALSE \notin verdicts
    <2> SUFFICES ASSUME \A v \in own : ~Misses(v, 1), NEW r \in mine, reports[r].passed = FALSE
                 PROVE  FALSE
      OBVIOUS
    <2>1. QED
      BY <1>9
  <1>11. (\A v \in own : Misses(v, 1)) => TRUE \notin verdicts
    <2> SUFFICES ASSUME \A v \in own : Misses(v, 1), NEW r \in mine, reports[r].passed = TRUE
                 PROVE  FALSE
      OBVIOUS
    <2>1. QED
      BY <1>9
  <1>12. QED
    BY <1>8, <1>10, <1>11 DEF mine

\* When all cases that carry a slice are on one side of the threshold, no draw
\* can turn the verdict on that slice, nor the cases outside it; and a slice
\* with enough cases has a verdict.
THEOREM VerdictsFollowCases == Spec => []VerdictFollowsCases
  <1>1. Inv => VerdictFollowsCases
    <2> SUFFICES ASSUME Inv, Finished, grader.threshold # None, samples # <<>>, NEW slice \in ToSet(Slices)
                 PROVE  LET carriers == {n \in DOMAIN samples : slice \in samples[n].slices}
                            own == {metrics[n] : n \in carriers}
                            enough == Cardinality(carriers) >= SliceMinN
                            verdicts == {reports[r].passed : r \in {q \in DOMAIN reports : reports[q].name = slice}}
                        IN /\ enough <=> verdicts # {}
                           /\ (\A v \in own : ~Misses(v, 1)) => FALSE \notin verdicts
                           /\ (\A v \in own : Misses(v, 1)) => TRUE \notin verdicts
      BY DEF VerdictFollowsCases
    <2>1. PICK k \in DOMAIN Slices : slice = Slices[k]
      BY DEF ToSet
    <2>2. QED
      BY <2>1, CasesDecide DEF Carriers
  <1>2. QED
    BY <1>1, Invariance, PTL

-----------------------------------------------------------------------------
(* The slices the Critic is given.                                         *)

\* The estimates of slices are compared as fractions: in one direction or the other,
\* they are ordered.
LEMMA FractionsAreOrdered ==
    ASSUME NEW p \in Int, NEW q \in Int, NEW s \in Int,
           NEW l \in Nat, NEW m \in Nat, NEW n \in Nat, l > 0, m > 0, n > 0
    PROVE  /\ p * m < q * l /\ q * n <= s * m => p * n < s * l
           /\ p * m <= q * l /\ q * n < s * m => p * n < s * l
           /\ p * m <= q * l /\ q * n <= s * m => p * n <= s * l
  <1>1. \A a, b \in Int : \A c \in Nat : c > 0 => (a < b <=> a * c < b * c) /\ (a <= b <=> a * c <= b * c)
    <2> SUFFICES ASSUME NEW a \in Int, NEW b \in Int, NEW c \in Nat, c > 0
                 PROVE  (a < b <=> a * c < b * c) /\ (a <= b <=> a * c <= b * c)
      OBVIOUS
    <2>1. a < b => a * c < b * c
      OBVIOUS
    <2>2. b < a => b * c < a * c
      OBVIOUS
    <2>3. a = b => a * c = b * c
      OBVIOUS
    <2>4. a * c \in Int /\ b * c \in Int
      OBVIOUS
    <2>5. QED
      BY <2>1, <2>2, <2>3, <2>4
  <1> DEFINE u == (p * m) * n
             v == (q * l) * n
             w == (s * m) * l
  <1>2. /\ p * m \in Int /\ q * l \in Int /\ q * n \in Int /\ s * m \in Int
        /\ p * n \in Int /\ s * l \in Int
    OBVIOUS
  <1>3. v = (q * n) * l /\ u = (p * n) * m /\ w = (s * l) * m
    OBVIOUS
  <1>4. (p * m < q * l <=> u < v) /\ (p * m <= q * l <=> u <= v)
    BY <1>1, <1>2
  <1>5. (q * n < s * m <=> v < w) /\ (q * n <= s * m <=> v <= w)
    <2>1. (q * n < s * m <=> (q * n) * l < w) /\ (q * n <= s * m <=> (q * n) * l <= w)
      BY <1>1, <1>2
    <2>2. QED
      BY <1>3, <2>1
  <1>6. (p * n < s * l <=> u < w) /\ (p * n <= s * l <=> u <= w)
    <2>1. /\ p * n < s * l <=> (p * n) * m < (s * l) * m
          /\ p * n <= s * l <=> (p * n) * m <= (s * l) * m
      BY <1>1, <1>2
    <2>2. QED
      BY <1>3, <2>1
  <1>7. u \in Int /\ v \in Int /\ w \in Int
    OBVIOUS
  <1> HIDE DEF u, v, w
  <1>8. QED
    BY <1>4, <1>5, <1>6, <1>7

\* The results of slices at the end: each of some cases, no two alike.
LEMMA SlicesShown ==
    ASSUME Inv, Finished
    PROVE  /\ SliceReports \in Seq(Shown)
           /\ \A i \in DOMAIN SliceReports : SliceReports[i].n > 0
           /\ \A i, j \in DOMAIN SliceReports : SliceReports[i] = SliceReports[j] => i = j
  <1> DEFINE R == SliceReports
  <1>1. Shaped /\ Reported /\ reports # <<>> /\ reports \in Seq(Shown)
    BY DEF Inv, Finished, Shaped
  <1>2. R = Tail(reports)
    BY DEF SliceReports
  <1> HIDE DEF R
  <1>3. /\ R \in Seq(Shown) /\ Len(R) = Len(reports) - 1
        /\ \A i \in 1 .. Len(R) : R[i] = reports[i + 1]
    BY <1>1, <1>2, HeadTailProperties
  <1>4. /\ DOMAIN R = 1 .. Len(R) /\ DOMAIN reports = 1 .. Len(reports)
        /\ Len(R) \in Nat /\ Len(reports) \in Nat
    BY <1>1, <1>3
  <1>5. CASE samples = <<>>
    <2>1. Len(reports) <= 1
      BY <1>1, <1>5 DEF Shaped
    <2>2. DOMAIN R = {}
      BY <1>3, <1>4, <2>1
    <2>3. QED
      BY <1>3, <2>2 DEF R
  <1>6. CASE samples # <<>>
    <2>1. \A i \in DOMAIN R : i + 1 \in DOMAIN reports /\ R[i] = reports[i + 1]
      BY <1>3, <1>4
    <2>2. \A r \in DOMAIN reports : reports[r].n > 0
      BY <1>1, <1>6 DEF Reported, Sound
    <2>3. ASSUME NEW i \in DOMAIN R, NEW j \in DOMAIN R, R[i] = R[j]
          PROVE  i = j
      <3>1. reports[i + 1].name = reports[j + 1].name
        BY <2>1, <2>3
      <3>2. i + 1 = j + 1
        BY <1>1, <1>6, <2>1, <3>1 DEF Reported
      <3>3. i \in Int /\ j \in Int
        BY <1>4
      <3>4. QED
        BY <3>2, <3>3
    <2>4. \A i \in DOMAIN R : R[i].n > 0
      BY <2>1, <2>2
    <2>5. QED
      BY <1>3, <2>3, <2>4 DEF R
  <1>7. QED
    BY <1>5, <1>6

\* Which of two results is better is a matter of their fractions.
LEMMA BetterIs ==
    ASSUME NEW x \in Shown, NEW y \in Shown, NEW z \in Shown, x.n > 0, y.n > 0, z.n > 0
    PROVE  /\ Better(y, x) => ~Better(x, y)
           /\ Better(y, x) /\ ~Better(y, z) => Better(z, x)
           /\ ~Better(x, y) /\ Better(z, y) => Better(z, x)
           /\ ~Better(x, y) /\ ~Better(y, z) => ~Better(x, z)
  <1> DEFINE p == x.point
             q == y.point
             s == z.point
             l == x.n
             m == y.n
             n == z.n
  <1>1. /\ p \in Int /\ q \in Int /\ s \in Int /\ l \in Nat /\ m \in Nat /\ n \in Nat
        /\ l > 0 /\ m > 0 /\ n > 0
    BY DEF Shown
  <1>2. /\ Better(x, y) <=> IF HigherIsBetter(grader.kind) THEN p * m > q * l ELSE p * m < q * l
        /\ Better(y, x) <=> IF HigherIsBetter(grader.kind) THEN q * l > p * m ELSE q * l < p * m
        /\ Better(y, z) <=> IF HigherIsBetter(grader.kind) THEN q * n > s * m ELSE q * n < s * m
        /\ Better(z, y) <=> IF HigherIsBetter(grader.kind) THEN s * m > q * n ELSE s * m < q * n
        /\ Better(x, z) <=> IF HigherIsBetter(grader.kind) THEN p * n > s * l ELSE p * n < s * l
        /\ Better(z, x) <=> IF HigherIsBetter(grader.kind) THEN s * l > p * n ELSE s * l < p * n
    BY DEF Better
  <1> HIDE DEF p, q, s, l, m, n
  <1>3. /\ p * m < q * l /\ q * n <= s * m => p * n < s * l
        /\ p * m <= q * l /\ q * n < s * m => p * n < s * l
        /\ p * m <= q * l /\ q * n <= s * m => p * n <= s * l
    BY <1>1, FractionsAreOrdered
  <1>4. /\ s * m < q * n /\ q * l <= p * m => s * l < p * n
        /\ s * m <= q * n /\ q * l < p * m => s * l < p * n
        /\ s * m <= q * n /\ q * l <= p * m => s * l <= p * n
    BY <1>1, FractionsAreOrdered
  <1> DEFINE xy == p * m
             yx == q * l
             yz == q * n
             zy == s * m
             xz == p * n
             zx == s * l
  <1>5. xy \in Int /\ yx \in Int /\ yz \in Int /\ zy \in Int /\ xz \in Int /\ zx \in Int
    BY <1>1
  <1> HIDE DEF xy, yx, yz, zy, xz, zx
  <1>6. /\ xy < yx /\ yz <= zy => xz < zx
        /\ xy <= yx /\ yz < zy => xz < zx
        /\ xy <= yx /\ yz <= zy => xz <= zx
        /\ zy < yz /\ yx <= xy => zx < xz
        /\ zy <= yz /\ yx < xy => zx < xz
        /\ zy <= yz /\ yx <= xy => zx <= xz
    BY <1>3, <1>4 DEF xy, yx, yz, zy, xz, zx
  <1>7. /\ Better(x, y) <=> IF HigherIsBetter(grader.kind) THEN xy > yx ELSE xy < yx
        /\ Better(y, x) <=> IF HigherIsBetter(grader.kind) THEN yx > xy ELSE yx < xy
        /\ Better(y, z) <=> IF HigherIsBetter(grader.kind) THEN yz > zy ELSE yz < zy
        /\ Better(z, y) <=> IF HigherIsBetter(grader.kind) THEN zy > yz ELSE zy < yz
        /\ Better(x, z) <=> IF HigherIsBetter(grader.kind) THEN xz > zx ELSE xz < zx
        /\ Better(z, x) <=> IF HigherIsBetter(grader.kind) THEN zx > xz ELSE zx < xz
    BY <1>2 DEF xy, yx, yz, zy, xz, zx
  <1>8. CASE HigherIsBetter(grader.kind)
    BY <1>5, <1>6, <1>7, <1>8
  <1>9. CASE ~HigherIsBetter(grader.kind)
    BY <1>5, <1>6, <1>7, <1>9
  <1>10. QED
    BY <1>8, <1>9

\* The order in which the results are sorted is total and strict.
LEMMA SortedOrder ==
    ASSUME Inv, Finished,
           NEW i \in DOMAIN SliceReports, NEW j \in DOMAIN SliceReports, NEW k \in DOMAIN SliceReports
    PROVE  /\ ~ComesBefore(i, i)
           /\ i # j => ComesBefore(i, j) \/ ComesBefore(j, i)
           /\ ComesBefore(i, j) /\ ComesBefore(j, k) => ComesBefore(i, k)
  <1> DEFINE x == SliceReports[i]
             y == SliceReports[j]
             z == SliceReports[k]
  <1>1. i \in Int /\ j \in Int /\ k \in Int
    <2>1. SliceReports \in Seq(Shown)
      BY SlicesShown
    <2>2. QED
      BY <2>1
  <1>2. x \in Shown /\ y \in Shown /\ z \in Shown /\ x.n > 0 /\ y.n > 0 /\ z.n > 0
    BY SlicesShown
  <1>3. /\ ComesBefore(i, i) <=> Better(x, x) \/ (~Better(x, x) /\ i < i)
        /\ ComesBefore(i, j) <=> Better(y, x) \/ (~Better(x, y) /\ i < j)
        /\ ComesBefore(j, i) <=> Better(x, y) \/ (~Better(y, x) /\ j < i)
        /\ ComesBefore(j, k) <=> Better(z, y) \/ (~Better(y, z) /\ j < k)
        /\ ComesBefore(i, k) <=> Better(z, x) \/ (~Better(x, z) /\ i < k)
    BY DEF ComesBefore
  <1> HIDE DEF x, y, z
  <1>4. Better(x, x) => ~Better(x, x)
    BY <1>2, BetterIs
  <1>5. /\ Better(y, x) => ~Better(x, y)
        /\ Better(y, x) /\ ~Better(y, z) => Better(z, x)
        /\ ~Better(x, y) /\ Better(z, y) => Better(z, x)
        /\ ~Better(x, y) /\ ~Better(y, z) => ~Better(x, z)
    BY <1>2, BetterIs
  <1>6. Better(z, y) => ~Better(y, z)
    BY <1>2, BetterIs
  <1>7. i < j /\ j < k => i < k
    BY <1>1
  <1>8. i # j => i < j \/ j < i
    BY <1>1
  <1>9. ~(i < i)
    BY <1>1
  <1>10. QED
    BY <1>3, <1>4, <1>5, <1>6, <1>7, <1>8, <1>9

\* How many come before.
Rank(n) == Cardinality({m \in DOMAIN SliceReports : ComesBefore(m, n)})

\* What comes before has a lower rank.
LEMMA RankIs ==
    ASSUME Inv, Finished, NEW n \in DOMAIN SliceReports
    PROVE  /\ Rank(n) \in 0 .. Len(SliceReports) - 1
           /\ \A m \in DOMAIN SliceReports : ComesBefore(m, n) => Rank(m) < Rank(n)
  <1> DEFINE D == DOMAIN SliceReports
             Before(i) == {m \in D : ComesBefore(m, i)}
             L == Len(SliceReports)
  <1>1. D = 1 .. L /\ L \in Nat
    <2>1. SliceReports \in Seq(Shown)
      BY SlicesShown
    <2>2. QED
      BY <2>1
  <1>2. IsFiniteSet(D) /\ Cardinality(D) = L
    <2>1. IsFiniteSet(1 .. L) /\ Cardinality(1 .. L) = IF 1 > L THEN 0 ELSE L - 1 + 1
      BY <1>1, FS_Interval
    <2>2. QED
      BY <1>1, <2>1
  <1>3. \A i \in D : Rank(i) = Cardinality(Before(i))
    BY DEF Rank
  <1>4. \A i \in D : Before(i) \subseteq D /\ i \notin Before(i)
    BY SortedOrder
  <1>5. \A i \in D : IsFiniteSet(Before(i))
    BY <1>2, <1>4, FS_Subset
  <1>6. ASSUME NEW m \in D, ComesBefore(m, n)
        PROVE  Before(m) \subseteq Before(n) /\ Before(m) # Before(n)
    <2>1. Before(m) \subseteq Before(n)
      BY <1>6, SortedOrder
    <2>2. m \in Before(n) /\ m \notin Before(m)
      BY <1>4, <1>6
    <2>3. QED
      BY <2>1, <2>2
  <1> HIDE DEF Before, D, L
  <1>7. \A i \in D : Cardinality(Before(i)) \in Nat
    BY <1>5, CardinalityIs
  <1>8. n \in D
    BY DEF D
  <1>9. ASSUME NEW A, NEW B, IsFiniteSet(B), A \subseteq B, A # B
        PROVE  Cardinality(A) < Cardinality(B)
    <2>1. IsFiniteSet(A) /\ Cardinality(A) <= Cardinality(B) /\ Cardinality(A) # Cardinality(B)
      BY <1>9, FS_Subset
    <2>2. Cardinality(A) \in Nat /\ Cardinality(B) \in Nat
      BY <1>9, <2>1, CardinalityIs
    <2>3. QED
      BY <2>1, <2>2
  <1>10. Cardinality(Before(n)) < L
    <2>1. Before(n) \subseteq D /\ Before(n) # D
      BY <1>4, <1>8
    <2>2. QED
      BY <1>2, <1>9, <2>1
  <1>11. ASSUME NEW m \in D, ComesBefore(m, n)
         PROVE  Rank(m) < Rank(n)
    <2>1. Cardinality(Before(m)) < Cardinality(Before(n))
      BY <1>5, <1>6, <1>8, <1>9, <1>11
    <2>2. QED
      BY <1>3, <1>8, <2>1
  <1>12. Rank(n) \in 0 .. L - 1
    BY <1>1, <1>3, <1>7, <1>8, <1>10
  <1>13. QED
    BY <1>11, <1>12 DEF D, L

\* Each rank is that of one result.
LEMMA RanksAreTaken ==
    ASSUME Inv, Finished
    PROVE  /\ \A m, n \in DOMAIN SliceReports : Rank(m) = Rank(n) => m = n
           /\ \A k \in 0 .. Len(SliceReports) - 1 : Sorted(k) \in DOMAIN SliceReports /\ Rank(Sorted(k)) = k
  <1> DEFINE D == DOMAIN SliceReports
             L == Len(SliceReports)
             f == [n \in D |-> Rank(n)]
             S == 0 .. L - 1
  <1>1. D = 1 .. L /\ L \in Nat
    <2>1. SliceReports \in Seq(Shown)
      BY SlicesShown
    <2>2. QED
      BY <2>1
  <1>2. \A n \in D : Rank(n) \in S
    BY RankIs
  <1>3. ASSUME NEW m \in D, NEW n \in D, Rank(m) = Rank(n)
        PROVE  m = n
    <2> SUFFICES ASSUME m # n PROVE FALSE
      OBVIOUS
    <2>1. ComesBefore(m, n) \/ ComesBefore(n, m)
      BY SortedOrder
    <2>2. Rank(m) < Rank(n) \/ Rank(n) < Rank(m)
      BY <2>1, RankIs
    <2>3. Rank(m) \in Int
      BY <1>1, <1>2
    <2>4. QED
      BY <1>3, <2>2, <2>3
  <1>4. IsFiniteSet(D) /\ Cardinality(D) = L /\ IsFiniteSet(S) /\ Cardinality(S) = L
    <2>1. IsFiniteSet(1 .. L) /\ Cardinality(1 .. L) = IF 1 > L THEN 0 ELSE L - 1 + 1
      BY <1>1, FS_Interval
    <2>2. L - 1 \in Int
      BY <1>1
    <2>3. IsFiniteSet(0 .. L - 1) /\ Cardinality(0 .. L - 1) = IF 0 > L - 1 THEN 0 ELSE (L - 1) - 0 + 1
      BY <2>2, FS_Interval
    <2>4. QED
      BY <1>1, <2>1, <2>3
  <1> HIDE DEF D, S
  <1>5. f \in Injection(D, S)
    BY <1>2, <1>3 DEF Injection, IsInjective
  <1>6. f \in Surjection(D, S)
    <2> HIDE DEF f
    <2>1. QED
      BY <1>4, <1>5, FS_Injection
  <1>7. \A k \in S : \E n \in D : Rank(n) = k
    BY <1>6 DEF Surjection
  <1>8. ASSUME NEW k \in S
        PROVE  Sorted(k) \in D /\ Rank(Sorted(k)) = k
    <2>1. Sorted(k) = CHOOSE n \in D : Rank(n) = k
      BY DEF Sorted, Rank, D
    <2>2. QED
      BY <1>7, <2>1
  <1>9. QED
    BY <1>3, <1>8 DEF D, S

\* No slice that is kept from the Critic is worse than one that is given to it, and it
\* is given as many different ones as there are.
THEOREM CriticGetsTheWorst == Spec => []CriticGetsWorst
  <1>1. Inv => CriticGetsWorst
    <2> SUFFICES ASSUME Inv, Finished
                 PROVE  /\ Cardinality(ToSet(WorstSlices)) = Min({WorstK, Len(SliceReports)})
                        /\ \A w \in ToSet(WorstSlices), s \in ToSet(SliceReports) \ ToSet(WorstSlices) :
                              ~Better(w, s)
      BY DEF CriticGetsWorst
    <2> DEFINE R == SliceReports
               L == Len(R)
               K == Min({WorstK, L})
               given == ToSet(WorstSlices)
               g == [k \in 1 .. K |-> R[Sorted(k - 1)]]
    <2>1. R \in Seq(Shown) /\ DOMAIN R = 1 .. L /\ L \in Nat
      <3>1. SliceReports \in Seq(Shown)
        BY SlicesShown
      <3>2. QED
        BY <3>1
    <2>2. K \in Nat /\ K <= L
      <3>1. WorstK \in Int /\ WorstK >= 0
        BY DistributionalParameters
      <3>2. L \in Int /\ L >= 0
        BY <2>1
      <3> HIDE DEF L
      <3>3. K = IF WorstK <= L THEN WorstK ELSE L
        BY <3>1, <3>2, MinMaxOfTwo
      <3> HIDE DEF K
      <3>4. QED
        BY <3>1, <3>2, <3>3
    <2>3. /\ \A m, n \in DOMAIN R : Rank(m) = Rank(n) => m = n
          /\ \A k \in 0 .. L - 1 : Sorted(k) \in DOMAIN R /\ Rank(Sorted(k)) = k
      BY RanksAreTaken
    <2>4. \A i, j \in DOMAIN R : R[i] = R[j] => i = j
      BY SlicesShown
    <2>5. WorstSlices = g
      BY DEF WorstSlices
    <2>6. given = {g[k] : k \in 1 .. K}
      BY <2>5 DEF ToSet
    <2> HIDE DEF K, given
    <2>7. \A k \in 1 .. K : k - 1 \in 0 .. L - 1 /\ k \in Int
      BY <2>1, <2>2
    <2>8. \A k \in 1 .. K : g[k] = R[Sorted(k - 1)] /\ Sorted(k - 1) \in DOMAIN R /\ Rank(Sorted(k - 1)) = k - 1
      BY <2>3, <2>7
    <2>9. DOMAIN g = 1 .. K /\ g = [k \in 1 .. K |-> g[k]]
      OBVIOUS
    <2> HIDE DEF R, L, g
    <2>10. Cardinality(given) = K
      <3>1. \A j, k \in 1 .. K : g[j] = g[k] => j = k
        <4> SUFFICES ASSUME NEW j \in 1 .. K, NEW k \in 1 .. K, g[j] = g[k]
                     PROVE  j = k
          OBVIOUS
        <4>1. Sorted(j - 1) = Sorted(k - 1)
          BY <2>4, <2>8
        <4>2. j - 1 = k - 1
          BY <2>8, <4>1
        <4>3. QED
          BY <2>7, <4>2
      <3>2. g \in Surjection(1 .. K, given)
        BY <2>6, <2>9 DEF Surjection
      <3>3. g \in Injection(1 .. K, given)
        BY <2>6, <2>9, <3>1 DEF Injection, IsInjective
      <3>4. IsFiniteSet(1 .. K) /\ Cardinality(1 .. K) = K
        <4>1. IsFiniteSet(1 .. K) /\ Cardinality(1 .. K) = IF 1 > K THEN 0 ELSE K - 1 + 1
          BY <2>2, FS_Interval
        <4>2. QED
          BY <2>2, <4>1
      <3>5. QED
        BY <3>2, <3>3, <3>4, FS_Surjection
    <2>11. ASSUME NEW w \in given, NEW s \in ToSet(R) \ given
           PROVE  ~Better(w, s)
      <3>1. PICK k \in 1 .. K : w = R[Sorted(k - 1)]
        BY <2>6, <2>8
      <3>2. PICK j \in DOMAIN R : s = R[j]
        BY DEF ToSet
      <3>3. Rank(j) \in 0 .. L - 1
        BY RankIs DEF R, L
      <3>4. j = Sorted(Rank(j))
        BY <2>3, <3>3
      <3>5. ~(Rank(j) < K)
        <4> SUFFICES ASSUME Rank(j) < K PROVE FALSE
          OBVIOUS
        <4>1. Rank(j) + 1 \in 1 .. K /\ (Rank(j) + 1) - 1 = Rank(j)
          BY <2>1, <2>2, <3>3
        <4>2. g[Rank(j) + 1] = R[j]
          BY <2>8, <3>4, <4>1
        <4>3. QED
          BY <2>6, <3>2, <4>1, <4>2
      <3>6. Sorted(k - 1) \in DOMAIN R /\ Rank(Sorted(k - 1)) = k - 1
        BY <2>8
      <3>7. ASSUME Better(w, s)
            PROVE  FALSE
        <4>1. ComesBefore(j, Sorted(k - 1))
          BY <3>1, <3>2, <3>7 DEF ComesBefore, R
        <4>2. Rank(j) < k - 1
          <5>1. Sorted(k - 1) \in DOMAIN SliceReports /\ j \in DOMAIN SliceReports
            BY <3>6 DEF R
          <5>2. Rank(j) < Rank(Sorted(k - 1))
            BY <4>1, <5>1, RankIs
          <5>3. QED
            BY <3>6, <5>2
        <4>3. Rank(j) \in Int /\ k \in Int /\ k <= K
          BY <2>2, <2>7, <3>3
        <4>4. QED
          BY <2>2, <3>5, <4>2, <4>3
      <3>8. QED
        BY <3>7
    <2>12. QED
      BY <2>10, <2>11 DEF K, L, R, given
  <1>2. QED
    BY <1>1, Invariance, PTL

=============================================================================
