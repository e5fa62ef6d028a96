---------------------------- MODULE BudgetProofs ----------------------------
(***************************************************************************)
(* The money of the budget tracker, for every set of processes and of      *)
(* calls, any cap, any estimates and any number of days, deaths, refusals  *)
(* and of reservations that age out.                                       *)
(*                                                                         *)
(* Part 1, the tracker and the call log. The argument has two layers.      *)
(* FileInv says that a tracker works on what is in the file: the holder of *)
(* the file lock loads the file, changes only its own call's part of it    *)
(* and saves (Holding), so the reservation of every call is in the file    *)
(* while it runs (Posted) and the totals of the file are what was recorded *)
(* (LedgerExact). MoneyInv bounds the sum: what a call was charged and has *)
(* not recorded is covered by its reservation in the file (Backed), so the *)
(* cap, which the tracker checks on totals plus reservations, holds of the *)
(* charges themselves.                                                     *)
(*                                                                         *)
(* Part 2, the bursts that spend the money: that none leaves a reservation *)
(* behind, that their rows account for what was spent, and that what they  *)
(* work on takes turns.                                                    *)
(***************************************************************************)
EXTENDS CallTrail, Burst, SequenceTheorems, FiniteSetTheorems, FiniteSetsExt, TLAPS

-----------------------------------------------------------------------------
(* Sums.  MapThenSumSet folds over a finite set; it is defined by CHOOSE   *)
(* of a recursion on subsets.  That this recursion exists and is unique is *)
(* proved here, by well-founded induction on the strict subsets, and with  *)
(* it what the sum of a function over a finite set does when a term        *)
(* changes or grows.                                                       *)

\* Induction over the subsets of a finite set, for a property given as the set
\* of the subsets that have it.
LEMMA SubsetInduction ==
    ASSUME NEW S, IsFiniteSet(S), NEW Good,
           \A T \in SUBSET S : (\A U \in SUBSET T : U # T => U \in Good) => T \in Good
    PROVE  S \in Good
  <1> DEFINE Bad == {T \in SUBSET S : T \notin Good}
  <1>1. IsWellFoundedOn(StrictSubsetOrdering(S), SUBSET S)
    BY FS_StrictSubsetOrderingWellFounded, FS_FiniteSubsetsOfFinite
  <1>2. SUFFICES Bad = {}
    OBVIOUS
  <1>3. SUFFICES ASSUME Bad # {}
                 PROVE  FALSE
    OBVIOUS
  <1>4. PICK T \in Bad : \A U \in Bad : <<U, T>> \notin StrictSubsetOrdering(S)
    <2> HIDE DEF Bad
    <2>1. Bad \subseteq SUBSET S
      BY DEF Bad
    <2>2. QED
      BY <1>1, <1>3, <2>1, WFMin
  <1>5. ASSUME NEW U \in SUBSET T, U # T
        PROVE  U \in Good
    <2>1. T \in SUBSET S /\ U \in SUBSET S
      OBVIOUS
    <2>2. <<U, T>> \in StrictSubsetOrdering(S)
      BY <2>1, <1>5 DEF StrictSubsetOrdering
    <2>3. QED
      BY <1>4, <2>1, <2>2
  <1>6. QED
    BY <1>4, <1>5

Pick(s) == CHOOSE x \in s : TRUE

\* h is the recursion of the sum of f on the subsets of S.
SumsOn(h, f, S) ==
    h = [s \in SUBSET S |-> IF s = {} THEN 0 ELSE f[Pick(s)] + h[s \ {Pick(s)}]]

\* The fold is the value of such a recursion.
LEMMA Unfold ==
    ASSUME NEW f, NEW S
    PROVE  MapThenSumSet(LAMBDA x : f[x], S) = (CHOOSE h : SumsOn(h, f, S))[S]
  BY DEF MapThenSumSet, MapThenFoldSet, SumsOn, Pick

\* The element a recursion takes out first is an element.
LEMMA PickIn == \A s : s # {} => Pick(s) \in s
  BY DEF Pick

\* Two such recursions agree where both are defined.
LEMMA SumsUnique ==
    ASSUME NEW f, NEW S, IsFiniteSet(S), NEW g, NEW h, NEW A, NEW B,
           S \subseteq A, S \subseteq B, SumsOn(g, f, A), SumsOn(h, f, B)
    PROVE  g[S] = h[S]
  <1> DEFINE Good == {T \in SUBSET S : g[T] = h[T]}
  <1>1. ASSUME NEW T \in SUBSET S, \A U \in SUBSET T : U # T => U \in Good
        PROVE  T \in Good
    <2>1. T \in SUBSET A /\ T \in SUBSET B
      OBVIOUS
    <2>2. /\ g[T] = IF T = {} THEN 0 ELSE f[Pick(T)] + g[T \ {Pick(T)}]
          /\ h[T] = IF T = {} THEN 0 ELSE f[Pick(T)] + h[T \ {Pick(T)}]
      BY <2>1 DEF SumsOn
    <2>3. T # {} => g[T \ {Pick(T)}] = h[T \ {Pick(T)}]
      BY <1>1, PickIn
    <2>4. QED
      BY <2>2, <2>3
  <1>2. S \in Good
    <2> HIDE DEF Good
    <2>1. QED
      BY <1>1, SubsetInduction
  <1>3. QED
    BY <1>2

\* Over a finite set there is such a recursion.
LEMMA SumsExist ==
    ASSUME NEW f, NEW S, IsFiniteSet(S)
    PROVE  SumsOn(CHOOSE h : SumsOn(h, f, S), f, S)
  <1> SUFFICES \E h : SumsOn(h, f, S)
    OBVIOUS
  <1> DEFINE Good == {T \in SUBSET S : \E h : SumsOn(h, f, T)}
  <1>1. ASSUME NEW T \in SUBSET S, \A U \in SUBSET T : U # T => U \in Good
        PROVE  T \in Good
    <2> DEFINE H(U) == CHOOSE h : SumsOn(h, f, U)
               Value(U) == IF U = {} THEN 0 ELSE f[Pick(U)] + H(U \ {Pick(U)})[U \ {Pick(U)}]
               h == [U \in SUBSET T |-> Value(U)]
    <2>1. ASSUME NEW U \in SUBSET T, U # T
          PROVE  SumsOn(H(U), f, U)
      BY <1>1, <2>1
    <2>2. ASSUME NEW U \in SUBSET T, U # T
          PROVE  H(U)[U] = Value(U)
      <3> DEFINE V == U \ {Pick(U)}
      <3> HIDE DEF H
      <3>1. SumsOn(H(U), f, U)
        BY <2>1, <2>2
      <3>2. H(U)[U] = IF U = {} THEN 0 ELSE f[Pick(U)] + H(U)[V]
        BY <3>1 DEF SumsOn
      <3>3. CASE U # {}
        <4>1. V \in SUBSET T /\ V # T /\ V \subseteq U
          BY <2>2
        <4>2. SumsOn(H(V), f, V)
          BY <2>1, <4>1
        <4>3. IsFiniteSet(V)
          BY <4>1, FS_Subset
        <4>4. H(U)[V] = H(V)[V]
          BY <4>1, <4>2, <4>3, <3>1, SumsUnique
        <4>5. QED
          BY <3>2, <3>3, <4>4
      <3>4. CASE U = {}
        BY <3>2, <3>4
      <3>5. QED
        BY <3>3, <3>4
    <2>3. ASSUME NEW U \in SUBSET T
          PROVE  h[U] = IF U = {} THEN 0 ELSE f[Pick(U)] + h[U \ {Pick(U)}]
      <3> DEFINE V == U \ {Pick(U)}
      <3> HIDE DEF H
      <3>1. CASE U # {}
        <4>1. V \in SUBSET T /\ V # T
          BY <3>1, PickIn
        <4>2. h[V] = H(V)[V]
          BY <2>2, <4>1
        <4>3. QED
          BY <3>1, <4>2
      <3>2. QED
        BY <3>1
    <2>4. SumsOn(h, f, T)
      <3> HIDE DEF Value
      <3>1. h = [U \in SUBSET T |-> h[U]]
        OBVIOUS
      <3> HIDE DEF h
      <3>2. QED
        BY <2>3, <3>1 DEF SumsOn
    <2>5. QED
      BY <2>4
  <1>2. S \in Good
    <2> HIDE DEF Good
    <2>1. QED
      BY <1>1, SubsetInduction
  <1>3. QED
    BY <1>2


SumOf(f, S) == MapThenSumSet(LAMBDA x : f[x], S)

\* A sum is the picked term plus the sum of the rest.
LEMMA SumStep ==
    ASSUME NEW f, NEW S, IsFiniteSet(S)
    PROVE  SumOf(f, S) = IF S = {} THEN 0 ELSE f[Pick(S)] + SumOf(f, S \ {Pick(S)})
  <1> DEFINE H(U) == CHOOSE h : SumsOn(h, f, U)
             V == S \ {Pick(S)}
  <1>1. SumOf(f, S) = H(S)[S] /\ SumOf(f, V) = H(V)[V]
    BY Unfold DEF SumOf
  <1>2. IsFiniteSet(V) /\ V \subseteq S
    BY FS_Subset
  <1>3. SumsOn(H(S), f, S) /\ SumsOn(H(V), f, V)
    BY <1>2, SumsExist
  <1> HIDE DEF H
  <1>4. H(S)[S] = IF S = {} THEN 0 ELSE f[Pick(S)] + H(S)[V]
    BY <1>3 DEF SumsOn
  <1>5. H(S)[V] = H(V)[V]
    BY <1>2, <1>3, SumsUnique
  <1>6. QED
    BY <1>1, <1>4, <1>5

\* The sum of no terms.
LEMMA SumEmpty == \A f : SumOf(f, {}) = 0
  BY SumStep, FS_EmptySet

\* The range, for sums of naturals and of integers.
LEMMA SumType ==
    ASSUME NEW S, IsFiniteSet(S), NEW N, N = Nat \/ N = Int,
           NEW f, \A x \in S : f[x] \in N
    PROVE  SumOf(f, S) \in N
  <1> DEFINE Good == {T \in SUBSET S : SumOf(f, T) \in N}
  <1>1. ASSUME NEW T \in SUBSET S, \A U \in SUBSET T : U # T => U \in Good
        PROVE  T \in Good
    <2>1. SumOf(f, T) = IF T = {} THEN 0 ELSE f[Pick(T)] + SumOf(f, T \ {Pick(T)})
      BY SumStep, FS_Subset
    <2>2. T # {} => SumOf(f, T \ {Pick(T)}) \in N /\ f[Pick(T)] \in N
      BY <1>1, PickIn
    <2>3. QED
      BY <2>1, <2>2
  <1>2. S \in Good
    <2> HIDE DEF Good
    <2>1. QED
      BY <1>1, SubsetInduction
  <1>3. QED
    BY <1>2

\* Any element may be taken out first.
LEMMA SumSplit ==
    ASSUME NEW S, IsFiniteSet(S), NEW f, \A x \in S : f[x] \in Int, NEW e \in S
    PROVE  SumOf(f, S) = f[e] + SumOf(f, S \ {e})
  <1> DEFINE Good == {T \in SUBSET S : \A x \in T : SumOf(f, T) = f[x] + SumOf(f, T \ {x})}
  <1>1. ASSUME NEW T \in SUBSET S, \A U \in SUBSET T : U # T => U \in Good
        PROVE  T \in Good
    <2> SUFFICES ASSUME NEW x \in T
                 PROVE  SumOf(f, T) = f[x] + SumOf(f, T \ {x})
      OBVIOUS
    <2> DEFINE p == Pick(T)
    <2>1. p \in T
      BY PickIn
    <2> HIDE DEF p
    <2>2. SumOf(f, T) = f[p] + SumOf(f, T \ {p})
      BY SumStep, FS_Subset DEF p
    <2>3. CASE x = p
      BY <2>2, <2>3
    <2>4. CASE x # p
      <3>1. SumOf(f, T \ {p}) = f[x] + SumOf(f, (T \ {p}) \ {x})
        BY <1>1, <2>1, <2>4
      <3>2. SumOf(f, T \ {x}) = f[p] + SumOf(f, (T \ {p}) \ {x})
        <4>1. SumOf(f, T \ {x}) = f[p] + SumOf(f, (T \ {x}) \ {p})
          BY <1>1, <2>1, <2>4
        <4>2. (T \ {x}) \ {p} = (T \ {p}) \ {x}
          OBVIOUS
        <4>3. QED
          BY <4>1, <4>2
      <3>4. IsFiniteSet((T \ {p}) \ {x}) /\ (T \ {p}) \ {x} \subseteq S
        BY FS_Subset
      <3>5. SumOf(f, (T \ {p}) \ {x}) \in Int
        BY <3>4, SumType
      <3>6. f[x] \in Int /\ f[p] \in Int
        BY <2>1
      <3>7. QED
        BY <2>2, <3>1, <3>2, <3>5, <3>6
    <2>5. QED
      BY <2>3, <2>4
  <1>2. S \in Good
    <2> HIDE DEF Good
    <2>1. QED
      BY <1>1, SubsetInduction
  <1>3. QED
    BY <1>2

\* Sums are ordered as their terms are.
LEMMA SumMonotone ==
    ASSUME NEW S, IsFiniteSet(S), NEW f, NEW g,
           \A x \in S : f[x] \in Int /\ g[x] \in Int /\ f[x] <= g[x]
    PROVE  SumOf(f, S) <= SumOf(g, S)
  <1> DEFINE Good == {T \in SUBSET S : SumOf(f, T) <= SumOf(g, T)}
  <1>1. ASSUME NEW T \in SUBSET S, \A U \in SUBSET T : U # T => U \in Good
        PROVE  T \in Good
    <2>1. CASE T = {}
      BY <2>1, SumEmpty
    <2>2. CASE T # {}
      <3> DEFINE p == Pick(T)
                 V == T \ {p}
      <3>1. p \in T
        BY <2>2, PickIn
      <3>2. IsFiniteSet(T) /\ IsFiniteSet(V) /\ V \subseteq S /\ V # T
        BY <3>1, FS_Subset
      <3>3. SumOf(f, T) = f[p] + SumOf(f, V) /\ SumOf(g, T) = g[p] + SumOf(g, V)
        BY <2>2, <3>2, SumStep
      <3>4. SumOf(f, V) <= SumOf(g, V)
        BY <1>1, <3>2
      <3>5. SumOf(f, V) \in Int /\ SumOf(g, V) \in Int
        BY <3>2, SumType
      <3>6. f[p] \in Int /\ g[p] \in Int /\ f[p] <= g[p]
        BY <3>1
      <3> HIDE DEF p, V
      <3>7. QED
        BY <3>3, <3>4, <3>5, <3>6
    <2>3. QED
      BY <2>1, <2>2
  <1>2. S \in Good
    <2> HIDE DEF Good
    <2>1. QED
      BY <1>1, SubsetInduction
  <1>3. QED
    BY <1>2

\* Sums of the same terms are equal.
LEMMA SumEqual ==
    ASSUME NEW S, IsFiniteSet(S), NEW f, NEW g,
           \A x \in S : f[x] \in Int /\ f[x] = g[x]
    PROVE  SumOf(f, S) = SumOf(g, S)
  <1>1. SumOf(f, S) <= SumOf(g, S) /\ SumOf(g, S) <= SumOf(f, S)
    BY SumMonotone
  <1>2. SumOf(f, S) \in Int /\ SumOf(g, S) \in Int
    BY SumType
  <1>3. QED
    BY <1>1, <1>2

\* A sum after one of its terms changed.
LEMMA SumChange ==
    ASSUME NEW S, IsFiniteSet(S), NEW f, NEW g, NEW e \in S,
           \A x \in S : f[x] \in Int /\ g[x] \in Int /\ (x # e => f[x] = g[x])
    PROVE  SumOf(g, S) = SumOf(f, S) - f[e] + g[e]
  <1>1. SumOf(f, S) = f[e] + SumOf(f, S \ {e}) /\ SumOf(g, S) = g[e] + SumOf(g, S \ {e})
    BY SumSplit
  <1>2. IsFiniteSet(S \ {e})
    BY FS_Subset
  <1>3. SumOf(f, S \ {e}) = SumOf(g, S \ {e}) /\ SumOf(f, S \ {e}) \in Int
    BY <1>2, SumEqual, SumType
  <1>4. QED
    BY <1>1, <1>3

\* A sum of zeros.
LEMMA SumZero ==
    ASSUME NEW S, IsFiniteSet(S), NEW f, \A x \in S : f[x] = 0
    PROVE  SumOf(f, S) = 0
  <1> DEFINE Good == {T \in SUBSET S : SumOf(f, T) = 0}
  <1>1. ASSUME NEW T \in SUBSET S, \A U \in SUBSET T : U # T => U \in Good
        PROVE  T \in Good
    <2>1. SumOf(f, T) = IF T = {} THEN 0 ELSE f[Pick(T)] + SumOf(f, T \ {Pick(T)})
      BY SumStep, FS_Subset
    <2>2. T # {} => SumOf(f, T \ {Pick(T)}) = 0 /\ f[Pick(T)] = 0
      BY <1>1, PickIn
    <2>3. QED
      BY <2>1, <2>2
  <1>2. S \in Good
    <2> HIDE DEF Good
    <2>1. QED
      BY <1>1, SubsetInduction
  <1>3. QED
    BY <1>2

\* A sum over a part is the sum over the whole with zeros elsewhere.
LEMMA SumRestrict ==
    ASSUME NEW S, IsFiniteSet(S), NEW R \in SUBSET S,
           NEW f, NEW g, \A x \in S : f[x] \in Int /\ g[x] = IF x \in R THEN f[x] ELSE 0
    PROVE  SumOf(g, S) = SumOf(f, R)
  <1> DEFINE Good == {T \in SUBSET S : SumOf(g, T) = SumOf(f, T \cap R)}
  <1>1. ASSUME NEW T \in SUBSET S, \A U \in SUBSET T : U # T => U \in Good
        PROVE  T \in Good
    <2>1. CASE T = {}
      <3>1. T \cap R = {}
        BY <2>1
      <3>2. QED
        BY <2>1, <3>1, SumEmpty
    <2>2. CASE T # {}
      <3> DEFINE p == Pick(T)
                 V == T \ {p}
      <3>1. p \in T
        BY <2>2, PickIn
      <3>2. IsFiniteSet(T) /\ IsFiniteSet(T \cap R) /\ V \subseteq T /\ V # T
        BY <3>1, FS_Subset
      <3>3. SumOf(g, T) = g[p] + SumOf(g, V)
        BY <2>2, <3>2, SumStep
      <3>4. SumOf(g, V) = SumOf(f, V \cap R)
        BY <1>1, <3>2
      <3>5. CASE p \in R
        <4>1. SumOf(f, T \cap R) = f[p] + SumOf(f, (T \cap R) \ {p})
          BY <3>1, <3>2, <3>5, SumSplit
        <4>2. (T \cap R) \ {p} = V \cap R
          OBVIOUS
        <4>3. QED
          BY <3>1, <3>3, <3>4, <3>5, <4>1, <4>2
      <3>6. CASE p \notin R
        <4>1. T \cap R = V \cap R
          BY <3>6
        <4>2. IsFiniteSet(V \cap R) /\ V \cap R \subseteq S
          BY FS_Subset
        <4>3. SumOf(f, V \cap R) \in Int
          BY <4>2, SumType
        <4>4. g[p] = 0
          BY <3>1, <3>6
        <4>5. SumOf(g, T) = SumOf(f, V \cap R)
          BY <3>3, <3>4, <4>3, <4>4
        <4>6. QED
          BY <4>1, <4>5
      <3>7. QED
        BY <3>5, <3>6
    <2>3. QED
      BY <2>1, <2>2
  <1>2. S \in Good
    <2> HIDE DEF Good
    <2>1. QED
      BY <1>1, SubsetInduction
  <1>3. S \cap R = R
    OBVIOUS
  <1>4. QED
    BY <1>2, <1>3

-----------------------------------------------------------------------------
(* The trackers and their file.                                            *)

Labels ==
    {"idle", "refused", "reserving", "inflight", "returned", "raised", "draining",
     "drained", "recording", "done", "walled", "cancelling", "cancelled",
     "uncancelled", "unsaved", "unrecorded", "dead"}

\* The calls inside the file lock, and those whose provider was asked.
Critical == {"reserving", "draining", "drained", "recording", "cancelling"}

Reserving == {"inflight", "returned", "raised", "draining", "drained", "recording",
              "cancelling", "walled", "unrecorded"}

Called == Reserving \cup {"done", "cancelled", "uncancelled"}

\* What a tracker works on once it has loaded.
Base == IF disk = NoFile THEN FreshState ELSE disk

Typed ==
    /\ disk \in States \cup {NoFile}
    /\ DOMAIN state = Processes
    /\ lock \in Calls \cup {Nobody}
    /\ pc \in [Calls -> Labels]
    /\ owner \in [Calls -> Processes]
    /\ amount \in [Calls -> Nat]
    /\ actual \in [Calls -> Nat]
    /\ day \in AllDays
    /\ aged \subseteq Calls
    /\ charged \in [AllDays -> Nat]
    /\ billed \in [AllDays -> Nat]

OneHolder == \A c \in Calls : pc[c] \in Critical <=> lock = c

\* A reservation that could not be saved stays in its tracker until there is a file.
Carried(c) == disk = NoFile /\ pc[c] = "unsaved"

\* A tracker that loaded agrees with the file on the rest.
Agrees(s) ==
    /\ s \in States
    /\ s.cost = Base.cost
    /\ \A c \in Calls : s.pending[c] = Base.pending[c] \/ Carried(c)

\* Until the first file no call was made and the trackers hold nothing else.
Untouched ==
    disk = NoFile =>
        /\ \A c \in Calls : pc[c] \notin Called
        /\ \A p \in Processes : Agrees(state[p]) \/ (lock \in Calls /\ owner[lock] = p)
        /\ charged = NoCost
        /\ billed = NoCost

\* What the holder of the lock is about to save.
Saves(c) ==
    LET s == state[owner[c]] IN
    /\ s \in States
    /\ \A d \in Calls \ {c} :
          s.pending[d] = Base.pending[d] \/ (d \in aged /\ s.pending[d] = 0) \/ Carried(d)
    /\ s.pending[c] = IF pc[c] = "reserving" THEN amount[c] ELSE 0
    /\ s.cost = IF pc[c] = "recording" THEN [Base.cost EXCEPT ![day] = @ + actual[c]]
                                       ELSE Base.cost

Holding == \A c \in Calls : pc[c] \in {"reserving", "recording", "cancelling"} => Saves(c)

Posted ==
    \A c \in Calls \ aged :
        /\ pc[c] \in Reserving => disk # NoFile /\ disk.pending[c] = amount[c]
        /\ pc[c] \in {"done", "cancelled"} => disk.pending[c] = 0

FileInv == Typed /\ OneHolder /\ Untouched /\ Holding /\ Posted /\ LedgerExact

\* _fresh() is a state a file can hold.
LEMMA FreshIsState == FreshState \in States
  BY DEF FreshState, States, NoCost

\* So is what a tracker loads.
LEMMA BaseIsState == ASSUME Typed PROVE Base \in States
  BY FreshIsState DEF Typed, Base

\* _prune_expired drops the reservations that aged out and keeps the totals.
LEMMA PrunedState ==
    ASSUME NEW s \in States
    PROVE  /\ Pruned(s) \in States
           /\ Pruned(s).cost = s.cost
           /\ \A c \in Calls : Pruned(s).pending[c] = IF c \in aged THEN 0 ELSE s.pending[c]
  BY DEF Pruned, States

\* The state of the file agrees with it.
LEMMA BaseAgrees == ASSUME Typed PROVE Agrees(Base)
  BY BaseIsState DEF Agrees

\* With the lock free, _load yields the state of the file, but for what was carried.
LEMMA LoadedAgrees ==
    ASSUME FileInv, lock = Nobody, NEW p \in Processes
    PROVE  Agrees(Loaded(state[p]))
  BY BaseAgrees, BudgetParameters DEF FileInv, Untouched, Loaded, Base

\* Pruned as well: a reservation that aged out is gone.
LEMMA PrunedAgrees ==
    ASSUME FileInv, lock = Nobody, NEW p \in Processes
    PROVE  LET loaded == Pruned(Loaded(state[p])) IN
           /\ loaded \in States
           /\ loaded.cost = Base.cost
           /\ \A d \in Calls :
                 \/ loaded.pending[d] = Base.pending[d]
                 \/ d \in aged /\ loaded.pending[d] = 0
                 \/ Carried(d)
  <1> DEFINE s == Loaded(state[p])
  <1>1. s \in States /\ s.cost = Base.cost /\ \A c \in Calls : s.pending[c] = Base.pending[c] \/ Carried(c)
    BY LoadedAgrees DEF Agrees
  <1> HIDE DEF s
  <1>2. QED
    BY <1>1, PrunedState DEF s

\* What agreed with the file still does after a step of other calls.
LEMMA StillAgrees ==
    ASSUME disk' = disk, \A c \in Calls : pc[c] = "unsaved" => pc'[c] = "unsaved",
           NEW s, Agrees(s)
    PROVE  Agrees(s)'
  BY DEF Agrees, Base, Carried

\* The file invariant holds at the start.
LEMMA FileInit == Init => FileInv
  <1> SUFFICES ASSUME Init PROVE FileInv
    OBVIOUS
  <1>1. Typed
    BY BudgetParameters DEF Init, Typed, NoCost, Labels, AllDays
  <1>2. OneHolder /\ Untouched /\ Holding /\ Posted /\ LedgerExact
    BY <1>1, BaseAgrees, BudgetParameters
       DEF Init, OneHolder, Untouched, Base, Holding, Posted, LedgerExact, Critical, Reserving, Called
  <1>3. QED
    BY <1>1, <1>2 DEF FileInv


\* A step of one call that neither saves nor is about to.
LEMMA Outside ==
    ASSUME FileInv, NEW c \in Calls, NEW label \in Labels \ {"reserving", "recording", "cancelling"},
           pc' = [pc EXCEPT ![c] = label],
           UNCHANGED <<disk, owner, amount, day, aged>>,
           pc[c] \in Critical => label \in Critical,
           label \in Critical => lock \in {Nobody, c},
           lock' = IF label \in Critical THEN c ELSE lock,
           DOMAIN state' = Processes,
           lock # Nobody => \A p \in Processes : state'[p] = state[p],
           disk = NoFile => \A p \in Processes : state'[p] = state[p] \/ Agrees(state'[p]),
           pc[c] # "unsaved",
           actual' \in [Calls -> Nat], \A d \in Calls \ {c} : actual'[d] = actual[d],
           charged' \in [AllDays -> Nat], billed' \in [AllDays -> Nat],
           pc[c] \notin Called => label \notin Called /\ UNCHANGED <<charged, billed>>,
           label \in Reserving => pc[c] \in Reserving,
           label # "done", label = "cancelled" => disk.pending[c] = 0 \/ c \in aged,
           pc[c] # "walled", billed' = billed \/ label = "walled"
    PROVE  FileInv'
  <1>1. Base' = Base
    BY DEF Base
  <1>2. Typed'
    BY DEF FileInv, Typed
  <1>3. OneHolder'
    BY BudgetParameters DEF FileInv, Typed, OneHolder
  <1>4. Untouched'
    <2> SUFFICES ASSUME disk = NoFile PROVE Untouched'
      BY DEF Untouched
    <2>1. ASSUME NEW p \in Processes, ~(lock' \in Calls /\ owner'[lock'] = p)
          PROVE  Agrees(state[p])'
      <3>1. ~(lock \in Calls /\ owner[lock] = p)
        BY <2>1, BudgetParameters DEF FileInv, Typed
      <3>2. Agrees(state'[p])
        BY <3>1 DEF FileInv, Untouched
      <3>3. \A d \in Calls : pc[d] = "unsaved" => pc'[d] = "unsaved"
        BY DEF FileInv, Typed
      <3>4. QED
        BY <3>2, <3>3, StillAgrees
    <2>2. \A d \in Calls : pc'[d] \notin Called
      BY DEF FileInv, Typed, Untouched
    <2>3. charged' = NoCost /\ billed' = NoCost
      BY DEF FileInv, Untouched
    <2>4. QED
      BY <2>1, <2>2, <2>3 DEF Untouched
  <1>5. Holding'
    <2> SUFFICES ASSUME NEW d \in Calls, pc'[d] \in {"reserving", "recording", "cancelling"}
                 PROVE  Saves(d)'
      BY DEF Holding
    <2>1. d # c /\ pc[d] = pc'[d] /\ \A e \in Calls : Carried(e) => Carried(e)'
      BY DEF FileInv, Typed, Carried
    <2>2. lock = d /\ state'[owner[d]] = state[owner[d]]
      BY <2>1, BudgetParameters DEF FileInv, Typed, OneHolder, Critical
    <2>3. Saves(d)
      BY <2>1 DEF FileInv, Holding
    <2>4. QED
      BY <1>1, <2>1, <2>2, <2>3 DEF Saves
  <1>6. Posted'
    BY DEF FileInv, Typed, Posted
  <1>7. LedgerExact'
    BY DEF FileInv, Typed, LedgerExact
  <1>8. QED
    BY <1>2, <1>3, <1>4, <1>5, <1>6, <1>7 DEF FileInv

\* A step that makes a call intend to save.
LEMMA Intends ==
    ASSUME FileInv, NEW c \in Calls, NEW label \in {"reserving", "recording", "cancelling"},
           pc[c] \in {"idle", "raised", "drained"},
           pc' = [pc EXCEPT ![c] = label],
           UNCHANGED <<disk, owner, actual, day, aged, charged, billed>>,
           lock \in {Nobody, c}, lock' = c,
           DOMAIN state' = Processes, \A p \in Processes \ {owner[c]} : state'[p] = state[p],
           amount' \in [Calls -> Nat], \A d \in Calls \ {c} : amount'[d] = amount[d],
           label # "reserving" => pc[c] # "idle" /\ amount' = amount,
           Saves(c)'
    PROVE  FileInv'
  <1>1. Typed'
    BY DEF FileInv, Typed, Labels
  <1>2. OneHolder'
    BY BudgetParameters DEF FileInv, Typed, OneHolder, Critical
  <1>3. Untouched'
    <2> SUFFICES ASSUME disk = NoFile PROVE Untouched'
      BY DEF Untouched
    <2>1. \A d \in Calls : pc'[d] \notin Called
      BY DEF FileInv, Typed, Untouched, Called, Reserving
    <2>2. \A d \in Calls : pc[d] = "unsaved" => pc'[d] = "unsaved"
      BY DEF FileInv, Typed
    <2>3. ASSUME NEW p \in Processes \ {owner[c]}
          PROVE  Agrees(state[p])'
      <3>1. Agrees(state'[p])
        BY <2>3, BudgetParameters DEF FileInv, Typed, Untouched
      <3>2. QED
        BY <2>2, <3>1, StillAgrees
    <2>4. QED
      BY <2>1, <2>3 DEF FileInv, Untouched
  <1>4. Holding'
    BY BudgetParameters DEF FileInv, Typed, Holding, OneHolder, Critical
  <1>5. Posted' /\ LedgerExact'
    BY ZenonT(30) DEF FileInv, Typed, Posted, LedgerExact, Reserving
  <1>6. QED
    BY <1>1, <1>2, <1>3, <1>4, <1>5 DEF FileInv

\* reserve() up to its save keeps the file invariant: it changes the pending
\* amount of its own call.
LEMMA ReserveEnterKeeps ==
    ASSUME FileInv, NEW c \in Calls, NEW est \in Estimates, ReserveEnter(c, est)
    PROVE  FileInv'
  <1> DEFINE loaded == Pruned(Loaded(state[owner[c]]))
             s == [loaded EXCEPT !.pending[c] = est]
  <1>2. /\ loaded \in States
        /\ loaded.cost = Base.cost
        /\ \A d \in Calls :
              loaded.pending[d] = Base.pending[d] \/ (d \in aged /\ loaded.pending[d] = 0) \/ Carried(d)
    BY PrunedAgrees DEF FileInv, Typed, ReserveEnter
  <1>3. /\ pc[c] = "idle" /\ lock = Nobody /\ lock' = c
        /\ pc' = [pc EXCEPT ![c] = "reserving"]
        /\ state' = [state EXCEPT ![owner[c]] = s]
        /\ amount' = [amount EXCEPT ![c] = est] /\ est \in Nat
        /\ UNCHANGED <<disk, wal, owner, actual, day, aged, charged, billed, bounds>>
    BY BudgetParameters DEF ReserveEnter, Goto, SetState
  <1> HIDE DEF loaded
  <1>4. /\ s \in States
        /\ s.cost = Base.cost
        /\ s.pending[c] = est
        /\ \A d \in Calls \ {c} : s.pending[d] = loaded.pending[d]
    BY <1>2, <1>3 DEF States
  <1> HIDE DEF s
  <1>5. Base' = Base /\ \A d \in Calls : Carried(d) => Carried(d)'
    BY <1>3 DEF Base, Carried, FileInv, Typed
  <1>6. Saves(c)'
    BY <1>2, <1>3, <1>4, <1>5 DEF FileInv, Typed, Saves
  <1>7. QED
    BY <1>3, <1>6, Intends DEF FileInv, Typed

\* Popping a reservation changes no other one and no total.
LEMMA ClearedState ==
    ASSUME NEW s \in States, NEW c \in Calls
    PROVE  /\ Cleared(s, c) \in States
           /\ Cleared(s, c).cost = s.cost
           /\ Cleared(s, c).pending[c] = 0
           /\ \A d \in Calls \ {c} : Cleared(s, c).pending[d] = s.pending[d]
  BY DEF Cleared, States

\* Adding an amount to the day changes no reservation and no other day.
LEMMA BilledState ==
    ASSUME NEW s \in States, NEW cost \in Nat, day \in AllDays
    PROVE  /\ Billed(s, cost) \in States
           /\ Billed(s, cost).cost = [s.cost EXCEPT ![day] = @ + cost]
           /\ Billed(s, cost).pending = s.pending
  BY DEF Billed, States

\* cancel() up to its save keeps the file invariant.
LEMMA CancelEnterKeeps ==
    ASSUME FileInv, NEW c \in Calls, CancelEnter(c)
    PROVE  FileInv'
  <1> DEFINE loaded == Pruned(Loaded(state[owner[c]]))
             s == Cleared(loaded, c)
  <1>1. Base \in States /\ loaded = Pruned(Base)
    <2>1. disk # NoFile
      BY DEF CancelEnter, FileInv, Untouched, Called, Reserving
    <2>2. QED
      BY <2>1, BaseIsState DEF FileInv, Loaded, Base
  <1>2. /\ loaded \in States
        /\ loaded.cost = Base.cost
        /\ \A d \in Calls : loaded.pending[d] = IF d \in aged THEN 0 ELSE Base.pending[d]
    BY <1>1, PrunedState
  <1>3. /\ pc[c] = "raised" /\ lock = Nobody /\ lock' = c
        /\ pc' = [pc EXCEPT ![c] = "cancelling"]
        /\ state' = [state EXCEPT ![owner[c]] = s]
        /\ UNCHANGED <<disk, owner, amount, actual, day, aged, charged, billed>>
    BY DEF CancelEnter, Goto, SetState, callVars
  <1> HIDE DEF loaded
  <1>4. /\ s \in States
        /\ s.cost = Base.cost
        /\ s.pending[c] = 0
        /\ \A d \in Calls \ {c} : s.pending[d] = loaded.pending[d]
    BY <1>2, ClearedState
  <1> HIDE DEF s
  <1>5. Base' = Base
    BY <1>3 DEF Base
  <1>6. Saves(c)'
    BY <1>2, <1>3, <1>4, <1>5 DEF FileInv, Typed, Saves
  <1>7. QED
    BY <1>3, <1>6, Intends DEF FileInv, Typed

\* record() up to its save keeps the file invariant.
LEMMA RecordApplyKeeps ==
    ASSUME FileInv, NEW c \in Calls, RecordApply(c)
    PROVE  FileInv'
  <1> DEFINE loaded == Pruned(Loaded(state[owner[c]]))
             s == Cleared(Billed(loaded, actual[c]), c)
  <1>1. /\ pc[c] = "drained"
        /\ pc' = [pc EXCEPT ![c] = "recording"]
        /\ state' = [state EXCEPT ![owner[c]] = s]
        /\ UNCHANGED <<disk, lock, owner, amount, actual, day, aged, charged, billed>>
    BY DEF RecordApply, Goto, SetState, callVars
  <1>2. Base \in States /\ lock = c /\ disk # NoFile
    BY <1>1, BaseIsState DEF FileInv, OneHolder, Critical, Untouched, Called, Reserving
  <1>3. loaded = Pruned(Base)
    BY <1>2 DEF Loaded, Base
  <1>4. /\ loaded \in States
        /\ loaded.cost = Base.cost
        /\ \A d \in Calls : loaded.pending[d] = IF d \in aged THEN 0 ELSE Base.pending[d]
    BY <1>2, <1>3, PrunedState
  <1> HIDE DEF loaded
  <1>5. /\ s \in States
        /\ s.cost = [Base.cost EXCEPT ![day] = @ + actual[c]]
        /\ s.pending[c] = 0
        /\ \A d \in Calls \ {c} : s.pending[d] = loaded.pending[d]
    <2>1. actual[c] \in Nat /\ day \in AllDays
      BY DEF FileInv, Typed
    <2> DEFINE b == Billed(loaded, actual[c])
    <2>2. b \in States /\ b.cost = [Base.cost EXCEPT ![day] = @ + actual[c]] /\ b.pending = loaded.pending
      BY <1>4, <2>1, BilledState
    <2>3. s = Cleared(b, c)
      OBVIOUS
    <2> HIDE DEF b, s
    <2>4. QED
      BY <1>4, <2>2, <2>3, ClearedState
  <1> HIDE DEF s
  <1>6. Base' = Base
    BY <1>1 DEF Base
  <1>7. Saves(c)'
    BY <1>1, <1>4, <1>5, <1>6 DEF FileInv, Typed, Saves
  <1>8. QED
    BY <1>1, <1>2, <1>7, Intends DEF FileInv, Typed

\* The three saves.
LEMMA CommitKeeps ==
    ASSUME FileInv, NEW c \in Calls,
           ReserveCommit(c) \/ RecordCommit(c) \/ CancelCommit(c)
    PROVE  FileInv'
  <1> DEFINE s == state[owner[c]]
  <1>1. PICK label \in {"inflight", "done", "cancelled"} :
            /\ pc[c] = CASE label = "inflight" -> "reserving"
                         [] label = "done" -> "recording"
                         [] label = "cancelled" -> "cancelling"
            /\ pc' = [pc EXCEPT ![c] = label]
            /\ billed' = IF label = "done" THEN [billed EXCEPT ![day] = @ + actual[c]] ELSE billed
    BY DEF ReserveCommit, RecordCommit, CancelCommit, Commit, Goto
  <1>2. /\ disk' = s /\ lock' = Nobody
        /\ UNCHANGED <<state, owner, amount, actual, day, aged, charged>>
    BY DEF ReserveCommit, RecordCommit, CancelCommit, Commit, callVars
  <1>3. Saves(c) /\ lock = c
    BY <1>1 DEF FileInv, Holding, OneHolder, Critical
  <1>4. /\ s \in States /\ s # NoFile
        /\ \A d \in Calls \ {c} :
              s.pending[d] = Base.pending[d] \/ (d \in aged /\ s.pending[d] = 0) \/ Carried(d)
        /\ s.pending[c] = IF label = "inflight" THEN amount[c] ELSE 0
        /\ s.cost = IF label = "done" THEN [Base.cost EXCEPT ![day] = @ + actual[c]] ELSE Base.cost
    BY <1>1, <1>3, NoFileIsNoState DEF Saves
  <1> HIDE DEF s
  <1>5. Typed'
    BY <1>1, <1>2, <1>4 DEF FileInv, Typed, Labels
  <1>6. OneHolder' /\ Holding'
    BY <1>1, <1>2, <1>3, BudgetParameters DEF FileInv, Typed, OneHolder, Critical, Holding
  <1>7. Untouched'
    BY <1>2, <1>4 DEF Untouched
  <1>8. Posted'
    <2> SUFFICES ASSUME NEW d \in Calls \ aged
                 PROVE  /\ pc'[d] \in Reserving => s.pending[d] = amount[d]
                        /\ pc'[d] \in {"done", "cancelled"} => s.pending[d] = 0
      BY <1>2, <1>4 DEF Posted
    <2>1. CASE d = c
      BY <1>1, <1>4, <2>1 DEF FileInv, Typed, Reserving
    <2>2. CASE d # c
      <3>1. pc'[d] = pc[d] /\ (s.pending[d] = Base.pending[d] \/ pc[d] = "unsaved")
        BY <1>1, <1>4, <2>2 DEF FileInv, Typed, Carried
      <3>2. pc[d] \in Called => disk # NoFile /\ Base = disk
        BY DEF FileInv, Untouched, Base
      <3>3. QED
        BY <3>1, <3>2 DEF FileInv, Posted, Called, Reserving
    <2>3. QED
      BY <2>1, <2>2
  <1>9. LedgerExact'
    <2> SUFFICES ASSUME \A d \in Calls : pc'[d] # "walled"
                 PROVE  s.cost = billed'
      BY <1>2 DEF LedgerExact
    <2>1. \A d \in Calls : pc[d] # "walled"
      BY <1>1 DEF FileInv, Typed
    <2>2. Base.cost = billed
      <3>1. CASE disk = NoFile
        BY <3>1 DEF FileInv, Untouched, Base, FreshState
      <3>2. CASE disk # NoFile
        BY <2>1, <3>2 DEF FileInv, LedgerExact, Base
      <3>3. QED
        BY <3>1, <3>2
    <2>3. QED
      BY <1>1, <1>4, <2>2
  <1>10. QED
    BY <1>5, <1>6, <1>7, <1>8, <1>9 DEF FileInv

\* The steps of a call that only move it on.
LEMMA MovesKeep ==
    ASSUME FileInv, NEW c \in Calls,
           \/ \E cost \in 0 .. amount[c] : CallReturns(c, cost)
           \/ CallRaises(c) \/ RecordUnlink(c) \/ RecordToWal(c) \/ LockRefused(c) \/ RecordRaises(c)
    PROVE  FileInv'
  <1>1. ASSUME NEW cost \in 0 .. amount[c], CallReturns(c, cost)
        PROVE  FileInv'
    <2>1. /\ pc[c] = "inflight" /\ pc' = [pc EXCEPT ![c] = "returned"]
          /\ actual' = [actual EXCEPT ![c] = cost]
          /\ charged' = [charged EXCEPT ![day] = @ + cost]
          /\ UNCHANGED <<disk, state, lock, owner, amount, day, aged, billed>>
      BY <1>1 DEF CallReturns, Goto
    <2>2. cost \in Nat
      BY DEF FileInv, Typed
    <2>3. charged' \in [AllDays -> Nat] /\ actual' \in [Calls -> Nat]
      BY <2>1, <2>2 DEF FileInv, Typed
    <2>4. QED
      BY <2>1, <2>3, Outside DEF FileInv, Typed, Labels, Critical, Called, Reserving
  <1>2. CASE CallRaises(c)
    <2>1. /\ pc[c] = "inflight" /\ pc' = [pc EXCEPT ![c] = "raised"]
          /\ UNCHANGED <<disk, state, lock, owner, amount, actual, day, aged, charged, billed>>
      BY <1>2 DEF CallRaises, Goto, callVars
    <2>2. QED
      BY <2>1, Outside DEF FileInv, Typed, Labels, Critical, Called, Reserving
  <1>3. CASE RecordUnlink(c)
    <2>1. /\ pc[c] = "draining" /\ pc' = [pc EXCEPT ![c] = "drained"]
          /\ UNCHANGED <<disk, state, lock, owner, amount, actual, day, aged, charged, billed>>
      BY <1>3 DEF RecordUnlink, Goto, callVars
    <2>2. lock = c
      BY <2>1 DEF FileInv, OneHolder, Critical
    <2>3. QED
      BY <2>1, <2>2, Outside DEF FileInv, Typed, Labels, Critical, Called, Reserving
  <1>4. CASE RecordToWal(c)
    <2>1. /\ pc[c] = "returned" /\ pc' = [pc EXCEPT ![c] = "walled"]
          /\ billed' = [billed EXCEPT ![day] = @ + actual[c]]
          /\ UNCHANGED <<disk, state, lock, owner, amount, actual, day, aged, charged>>
      BY <1>4 DEF RecordToWal, Goto, callVars
    <2>2. billed' \in [AllDays -> Nat]
      BY <2>1 DEF FileInv, Typed
    <2>3. QED
      BY <2>1, <2>2, Outside DEF FileInv, Typed, Labels, Critical, Called, Reserving
  <1>5. CASE LockRefused(c)
    <2>1. PICK label \in {"refused", "uncancelled"} :
          /\ pc[c] = IF label = "refused" THEN "idle" ELSE "raised"
          /\ pc' = [pc EXCEPT ![c] = label]
          /\ UNCHANGED <<disk, state, lock, owner, amount, actual, day, aged, charged, billed>>
      BY <1>5 DEF LockRefused, Goto, callVars
    <2>2. /\ pc[c] \notin Critical /\ label \notin Critical
          /\ label \in Labels \ {"reserving", "recording", "cancelling"}
          /\ label \in Called => pc[c] \in Called
          /\ label \notin Reserving
      BY <2>1 DEF Labels, Critical, Called, Reserving
    <2>3. QED
      BY <2>1, <2>2, Outside DEF FileInv, Typed
  <1>6. CASE RecordRaises(c)
    <2>1. /\ pc[c] = "returned" /\ pc' = [pc EXCEPT ![c] = "unrecorded"]
          /\ UNCHANGED <<disk, state, lock, owner, amount, actual, day, aged, charged, billed>>
      BY <1>6 DEF RecordRaises, Goto, callVars
    <2>2. QED
      BY <2>1, Outside DEF FileInv, Typed, Labels, Critical, Called, Reserving
  <1>7. QED
    BY <1>1, <1>2, <1>3, <1>4, <1>5, <1>6

\* A save that the disk refuses leaves the file as it was, and in a tracker that has
\* no file yet the reservation it could not write.
LEMMA SaveFailsKeeps ==
    ASSUME FileInv, NEW c \in Calls, SaveFails(c)
    PROVE  FileInv'
  <1>1. PICK label \in {"unsaved", "unrecorded", "uncancelled"} :
            /\ pc[c] = CASE label = "unsaved" -> "reserving"
                         [] label = "unrecorded" -> "recording"
                         [] label = "uncancelled" -> "cancelling"
            /\ pc' = [pc EXCEPT ![c] = label]
    BY DEF SaveFails, Goto
  <1>2. /\ lock' = Nobody
        /\ UNCHANGED <<disk, state, owner, amount, actual, day, aged, charged, billed>>
    BY DEF SaveFails, callVars
  <1>3. Saves(c) /\ lock = c
    BY <1>1 DEF FileInv, Holding, OneHolder, Critical
  <1>4. Typed'
    BY <1>1, <1>2 DEF FileInv, Typed, Labels
  <1>5. OneHolder' /\ Holding'
    BY <1>1, <1>2, <1>3, BudgetParameters DEF FileInv, Typed, OneHolder, Critical, Holding
  <1>6. Untouched'
    <2> SUFFICES ASSUME disk = NoFile PROVE Untouched'
      BY <1>2 DEF Untouched
    <2>1. label = "unsaved"
      BY <1>1 DEF FileInv, Untouched, Called, Reserving
    <2>2. \A d \in Calls : pc'[d] \notin Called /\ (pc[d] = "unsaved" => pc'[d] = "unsaved")
      BY <1>1, <2>1 DEF FileInv, Typed, Untouched, Called, Reserving
    <2>3. ASSUME NEW p \in Processes, p # owner[c]
          PROVE  Agrees(state[p])'
      <3>1. Agrees(state'[p])
        BY <1>2, <1>3, <2>3 DEF FileInv, Untouched
      <3>2. QED
        BY <1>2, <2>2, <3>1, StillAgrees
    <2>4. Agrees(state[owner[c]])'
      <3> DEFINE s == state[owner[c]]
      <3>1. /\ s \in States /\ s.cost = Base.cost
            /\ \A d \in Calls \ {c} :
                  s.pending[d] = Base.pending[d] \/ (d \in aged /\ s.pending[d] = 0) \/ Carried(d)
        BY <1>1, <1>3, <2>1 DEF Saves
      <3> HIDE DEF s
      <3>2. Base' = Base /\ \A d \in Calls : Base.pending[d] = 0
        BY <1>2 DEF Base, FreshState
      <3>3. Carried(c)' /\ \A d \in Calls : Carried(d) => Carried(d)'
        BY <1>1, <1>2, <2>1, <2>2 DEF Carried, FileInv, Typed
      <3>4. \A d \in Calls : s.pending[d] = Base'.pending[d] \/ Carried(d)'
        BY <3>1, <3>2, <3>3
      <3>5. s' = s
        BY <1>2 DEF s
      <3>6. Agrees(s)'
        BY <3>1, <3>2, <3>4, <3>5 DEF Agrees
      <3>7. QED
        BY <3>6 DEF s
    <2>5. QED
      BY <1>2, <2>2, <2>3, <2>4 DEF FileInv, Typed, Untouched
  <1>7. Posted' /\ LedgerExact'
    BY <1>1, <1>2 DEF FileInv, Typed, Posted, LedgerExact, Reserving
  <1>8. QED
    BY <1>4, <1>5, <1>6, <1>7 DEF FileInv

\* The steps of a call that load and save nothing.
LEMMA LoadsKeep ==
    ASSUME FileInv, NEW c \in Calls,
           (\E est \in Estimates : ReserveRefused(c, est)) \/ RecordDrain(c) \/ CancelNothing(c)
    PROVE  FileInv'
  <1> DEFINE loaded == Pruned(Loaded(state[owner[c]]))
  <1>1. ASSUME lock = Nobody, disk = NoFile
        PROVE  \A p \in Processes : LET loads == [state EXCEPT ![owner[c]] = loaded] IN
                  loads[p] = state[p] \/ Agrees(loads[p])
    <2>1. owner[c] \in Processes /\ DOMAIN state = Processes
      BY DEF FileInv, Typed
    <2>2. Agrees(loaded)
      <3>1. \A d \in Calls : Base.pending[d] = 0
        BY <1>1 DEF Base, FreshState
      <3>2. QED
        BY <1>1, <2>1, <3>1, PrunedAgrees DEF Agrees
    <2> HIDE DEF loaded
    <2>3. QED
      BY <2>1, <2>2
  <1>2. CASE \E est \in Estimates : ReserveRefused(c, est)
    <2>1. /\ pc[c] = "idle" /\ pc' = [pc EXCEPT ![c] = "refused"]
          /\ state' = state \/ (lock = Nobody /\ state' = [state EXCEPT ![owner[c]] = loaded])
          /\ UNCHANGED <<disk, lock, owner, amount, actual, day, aged, charged, billed>>
      BY <1>2 DEF ReserveRefused, Goto, SetState, callVars
    <2> HIDE DEF loaded
    <2>2. QED
      BY <1>1, <2>1, Outside DEF FileInv, Typed, Labels, Critical, Called, Reserving
  <1>3. CASE CancelNothing(c)
    <2>1. /\ pc[c] = "raised" /\ pc' = [pc EXCEPT ![c] = "cancelled"]
          /\ lock = Nobody /\ state' = [state EXCEPT ![owner[c]] = loaded]
          /\ loaded.pending[c] = 0
          /\ UNCHANGED <<disk, lock, owner, amount, actual, day, aged, charged, billed>>
      BY <1>3 DEF CancelNothing, Goto, SetState, callVars
    <2>2. disk.pending[c] = 0 \/ c \in aged
      <3>1. loaded = Pruned(Base) /\ Base \in States /\ disk # NoFile
        BY <2>1, BaseIsState DEF FileInv, Typed, Untouched, Called, Reserving, Loaded, Base
      <3>2. QED
        BY <2>1, <3>1, PrunedState DEF Base
    <2> HIDE DEF loaded
    <2>3. QED
      BY <1>1, <2>1, <2>2, Outside DEF FileInv, Typed, Labels, Critical, Called, Reserving
  <1>4. CASE RecordDrain(c)
    <2>1. PICK label \in {"drained", "draining"} :
          /\ pc[c] = "returned" /\ pc' = [pc EXCEPT ![c] = label]
          /\ lock = Nobody /\ lock' = c /\ DOMAIN state' = DOMAIN state
          /\ UNCHANGED <<disk, owner, amount, actual, day, aged, charged, billed>>
      BY <1>4 DEF RecordDrain, Goto, SetState, callVars
    <2>2. disk # NoFile
      BY <2>1 DEF FileInv, Typed, Untouched, Called, Reserving
    <2>3. QED
      BY <2>1, <2>2, Outside DEF FileInv, Typed, Labels, Critical, Called, Reserving
  <1>5. QED
    BY <1>2, <1>3, <1>4

\* A process that dies, and its successor that loads the file, keep the file
\* invariant, whatever its calls were doing.
LEMMA DieKeeps ==
    ASSUME FileInv, NEW p \in Processes, Die(p)
    PROVE  FileInv'
  <1> DEFINE calls == {c \in Calls : owner[c] = p /\ pc[c] \notin Ended}
  <1>1. /\ pc' = [c \in Calls |-> IF c \in calls THEN "dead" ELSE pc[c]]
        /\ lock' = IF lock \in calls THEN Nobody ELSE lock
        /\ state' = [state EXCEPT ![p] = Base]
        /\ UNCHANGED <<disk, owner, amount, actual, day, aged, charged, billed>>
    BY DEF Die, Loaded, Base, callVars
  <1>2. Base' = Base
    BY <1>1 DEF Base
  <1>3. \A c \in Calls : pc[c] \in Critical /\ owner[c] = p => c \in calls
    BY DEF Critical, Ended
  <1>4. Typed'
    BY <1>1 DEF FileInv, Typed, Labels
  <1>5. OneHolder'
    BY <1>1, <1>3, BudgetParameters DEF FileInv, Typed, OneHolder, Critical
  <1>6. \A d \in Calls : pc[d] = "unsaved" => pc'[d] = "unsaved"
    BY <1>1 DEF Ended
  <1>7. Untouched'
    <2> SUFFICES ASSUME disk = NoFile PROVE Untouched'
      BY <1>1 DEF Untouched
    <2>1. ASSUME NEW q \in Processes, ~(lock' \in Calls /\ owner'[lock'] = q)
          PROVE  Agrees(state[q])'
      <3>1. CASE q = p
        <4>1. state'[q] = Base
          BY <1>1, <3>1 DEF FileInv, Typed
        <4>2. QED
          BY <1>1, <1>6, <4>1, BaseAgrees, StillAgrees DEF FileInv
      <3>2. CASE q # p
        <4>1. state'[q] = state[q] /\ ~(lock \in Calls /\ owner[lock] = q)
          BY <1>1, <2>1, <3>2 DEF FileInv, Typed
        <4>2. Agrees(state'[q])
          BY <4>1 DEF FileInv, Untouched
        <4>3. QED
          BY <1>1, <1>6, <4>2, StillAgrees
      <3>3. QED
        BY <3>1, <3>2
    <2>2. \A d \in Calls : pc'[d] \notin Called
      BY <1>1 DEF FileInv, Untouched, Called, Reserving
    <2>3. QED
      BY <1>1, <2>1, <2>2 DEF FileInv, Untouched
  <1>8. Holding'
    <2> SUFFICES ASSUME NEW d \in Calls, pc'[d] \in {"reserving", "recording", "cancelling"}
                 PROVE  Saves(d)'
      BY DEF Holding
    <2>1. pc'[d] = pc[d] /\ owner[d] # p
      BY <1>1, <1>3 DEF Critical
    <2>2. Saves(d) /\ state'[owner[d]] = state[owner[d]]
      BY <1>1, <2>1 DEF FileInv, Typed, Holding
    <2>3. \A e \in Calls : Carried(e) => Carried(e)'
      BY <1>1, <1>6 DEF Carried
    <2>4. QED
      BY <1>1, <1>2, <2>1, <2>2, <2>3 DEF Saves
  <1>9. Posted' /\ LedgerExact'
    BY <1>1 DEF FileInv, Typed, Posted, LedgerExact, Reserving, Ended
  <1>10. QED
    BY <1>4, <1>5, <1>7, <1>8, <1>9 DEF FileInv

\* Midnight and the ageing of a reservation keep the file invariant.
LEMMA TimeKeeps ==
    ASSUME FileInv, NewDay \/ \E c \in Calls : Age(c)
    PROVE  FileInv'
  <1>1. /\ UNCHANGED <<disk, state, lock, pc, owner, amount, actual, charged, billed>>
        /\ day' \in AllDays /\ aged \subseteq aged' /\ aged' \subseteq Calls
        /\ day' # day => lock = Nobody
    BY BudgetParameters DEF NewDay, Age, callVars, AllDays, FileInv, Typed
  <1>2. Base' = Base /\ \A d \in Calls : Carried(d)' = Carried(d)
    BY <1>1 DEF Base, Carried
  <1>3. Typed' /\ OneHolder' /\ Untouched' /\ Posted' /\ LedgerExact'
    BY <1>1, <1>2 DEF FileInv, Typed, OneHolder, Untouched, Agrees, Posted, LedgerExact
  <1>4. Holding'
    BY <1>1, <1>2, BudgetParameters DEF FileInv, OneHolder, Critical, Holding, Saves
  <1>5. QED
    BY <1>3, <1>4 DEF FileInv

\* Every step keeps the file invariant.
LEMMA FileStep == FileInv /\ [Next]_vars => FileInv'
  <1> SUFFICES ASSUME FileInv, [Next]_vars PROVE FileInv'
    OBVIOUS
  <1>1. ASSUME NEW c \in Calls, Metered(c)
        PROVE  FileInv'
    BY <1>1, ReserveEnterKeeps, CancelEnterKeeps, RecordApplyKeeps, CommitKeeps, MovesKeep, LoadsKeep,
       SaveFailsKeeps DEF Metered
  <1>2. CASE UNCHANGED vars
    BY <1>2 DEF vars, callVars, bounds, FileInv, Typed, OneHolder, Untouched, Agrees, Carried, Holding,
                Saves, Base, Posted, LedgerExact
  <1>3. QED
    BY <1>1, <1>2, DieKeeps, TimeKeeps DEF Next

\* The file invariant holds in every reachable state.
THEOREM FileInvariant == Spec => []FileInv
  BY FileInit, FileStep, PTL DEF Spec

\* As long as nothing went to the write-ahead file, the totals of budget.json are
\* what record() accepted, day by day: no interleaving of processes and no death
\* loses an update.
THEOREM LedgerIsExact == Spec => []LedgerExact
  <1>1. FileInv => LedgerExact
    BY DEF FileInv
  <1>2. QED
    BY <1>1, FileInvariant, PTL

\* A call whose provider was asked has its amount reserved in budget.json until
\* it is recorded or cancelled, and none afterwards, unless its reservation ages
\* out.
THEOREM InFlightIsReserved == Spec => []ReservedWhileInFlight
  <1>1. FileInv => ReservedWhileInFlight
    BY DEF FileInv, Posted, ReservedWhileInFlight, Reserving
  <1>2. QED
    BY <1>1, FileInvariant, PTL

-----------------------------------------------------------------------------
(* Money.                                                                  *)

Answered ==
    {"returned", "draining", "drained", "recording", "done", "walled", "unrecorded", "dead"}

\* What was charged and is not in the totals of the file.
Owed == [c \in Calls |-> IF pc[c] = "done" THEN 0 ELSE actual[c]]

Answers ==
    \A c \in Calls : actual[c] <= amount[c] /\ (pc[c] \notin Answered => actual[c] = 0)

Backed == \A c \in Calls \ aged : Owed[c] <= Base.pending[c]

FutureFree == \A d \in AllDays : d > day => charged[d] = 0 /\ Base.cost[d] = 0

\* What the cap check sees of s.
Committed(s) == s.cost[day] + Sum(s.pending)

Capped ==
    aged = {} =>
        /\ Committed(Base) <= Cap
        /\ charged[day] <= Base.cost[day] + Sum(Owed)
        /\ \A d \in AllDays : d < day => charged[d] <= Cap
        /\ \A c \in Calls : pc[c] = "reserving" => Committed(state[owner[c]]) <= Cap

MoneyInv == Answers /\ Backed /\ FutureFree /\ Capped

\* The sum over all calls, a natural number.
LEMMA SumOfCalls ==
    ASSUME NEW f \in [Calls -> Nat]
    PROVE  Sum(f) = SumOf(f, Calls) /\ Sum(f) \in Nat
  <1>1. Sum(f) = SumOf(f, Calls)
    <2>1. DOMAIN f = Calls
      OBVIOUS
    <2>2. QED
      BY <2>1 DEF Sum, SumOf
  <1>2. SumOf(f, Calls) \in Nat
    BY SumType, BudgetParameters
  <1>3. QED
    BY <1>1, <1>2

\* The sum after the amount of one call changed.
LEMMA SumOfChanged ==
    ASSUME NEW f \in [Calls -> Nat], NEW g \in [Calls -> Nat], NEW c \in Calls,
           \A d \in Calls \ {c} : f[d] = g[d]
    PROVE  Sum(g) = Sum(f) - f[c] + g[c]
  BY SumOfCalls, SumChange, BudgetParameters

\* A sum whose terms only grow does not shrink.
LEMMA SumOfSame ==
    ASSUME NEW f \in [Calls -> Nat], NEW g \in [Calls -> Nat],
           \A d \in Calls : f[d] <= g[d]
    PROVE  Sum(f) <= Sum(g)
  BY SumOfCalls, SumMonotone, BudgetParameters

\* What is owed is a natural number per call.
LEMMA OwedType == ASSUME Typed PROVE Owed \in [Calls -> Nat]
  BY DEF Typed, Owed

\* The two invariants give the cap on what was charged.
LEMMA MoneyImpliesCap ==
    ASSUME FileInv, MoneyInv
    PROVE  ChargedWithinCap
  <1> SUFFICES ASSUME aged = {}, NEW d \in AllDays
               PROVE  charged[d] <= Cap
    BY DEF ChargedWithinCap
  <1>1. Base \in States /\ Owed \in [Calls -> Nat]
    BY BaseIsState, OwedType DEF FileInv
  <1>2. Base.pending \in [Calls -> Nat] /\ Base.cost \in [AllDays -> Nat]
    BY <1>1 DEF States
  <1>3. Sum(Owed) <= Sum(Base.pending)
    BY <1>1, <1>2, SumOfSame DEF MoneyInv, Backed
  <1>4. Sum(Owed) \in Nat /\ Sum(Base.pending) \in Nat
    BY <1>1, <1>2, SumOfCalls
  <1>5. CASE d = day
    BY <1>2, <1>3, <1>4, <1>5, BudgetParameters DEF MoneyInv, Capped, Committed, FileInv, Typed
  <1>6. CASE d # day
    <2>1. d \in Int /\ day \in Int /\ Cap \in Nat
      BY BudgetParameters DEF FileInv, Typed, AllDays
    <2>2. d > day => charged[d] = 0
      BY DEF MoneyInv, FutureFree
    <2>3. d < day => charged[d] <= Cap
      BY DEF MoneyInv, Capped
    <2>4. QED
      BY <1>6, <2>1, <2>2, <2>3
  <1>7. QED
    BY <1>5, <1>6

\* The money invariant holds at the start.
LEMMA MoneyInit == Init => MoneyInv
  <1> SUFFICES ASSUME Init PROVE MoneyInv
    OBVIOUS
  <1>1. FileInv /\ Base = FreshState /\ Base \in States
    BY FileInit, FreshIsState DEF Base, Init
  <1>2. Owed \in [Calls -> Nat]
    BY <1>1, OwedType DEF FileInv
  <1>3. /\ Base.pending \in [Calls -> Nat]
        /\ \A c \in Calls : Base.pending[c] = 0 /\ Owed[c] = 0
        /\ \A d \in AllDays : Base.cost[d] = 0 /\ charged[d] = 0
    BY <1>1 DEF Init, Owed, FreshState, NoCost, States
  <1>4. Answers /\ Backed /\ FutureFree
    BY <1>1, <1>2, <1>3 DEF Answers, Backed, FutureFree, FileInv, Typed, Init
  <1>5. Sum(Base.pending) = 0
    BY <1>3, SumOfCalls, SumZero, BudgetParameters
  <1>6. Capped
    BY <1>2, <1>3, <1>5, SumOfCalls, BudgetParameters DEF Capped, Committed, Init, AllDays
  <1>7. QED
    BY <1>4, <1>6 DEF MoneyInv

\* A step that saves nothing and charges nothing: only the next state to save
\* is to be looked at.
LEMMA NothingSaved ==
    ASSUME FileInv, MoneyInv, UNCHANGED <<disk, day, aged, actual, charged>>,
           \A c \in Calls : pc'[c] = "done" <=> pc[c] = "done",
           Answers',
           aged = {} => \A c \in Calls : pc'[c] = "reserving" => Committed(state[owner[c]])' <= Cap
    PROVE  MoneyInv'
  <1>1. Base' = Base /\ Owed' = Owed
    BY DEF Base, Owed
  <1>2. Backed' /\ FutureFree'
    BY <1>1 DEF MoneyInv, Backed, FutureFree
  <1>3. Capped'
    BY <1>1 DEF MoneyInv, Capped, Committed
  <1>4. QED
    BY <1>2, <1>3 DEF MoneyInv

\* reserve() commits what its check against the cap allowed.
LEMMA ReserveEnterWithin ==
    ASSUME FileInv, MoneyInv, NEW c \in Calls, NEW est \in Estimates, ReserveEnter(c, est)
    PROVE  MoneyInv'
  <1> DEFINE loaded == Pruned(Loaded(state[owner[c]]))
             s == [loaded EXCEPT !.pending[c] = est]
  <1>2. loaded \in States
    BY PrunedAgrees DEF FileInv, Typed, ReserveEnter
  <1>3. /\ pc[c] = "idle" /\ lock = Nobody
        /\ pc' = [pc EXCEPT ![c] = "reserving"]
        /\ state' = [state EXCEPT ![owner[c]] = s]
        /\ amount' = [amount EXCEPT ![c] = est] /\ est \in Nat
        /\ loaded.cost[day] + Sum(loaded.pending) + est <= Cap
        /\ UNCHANGED <<disk, wal, owner, actual, day, aged, charged, billed, bounds>>
    BY BudgetParameters DEF ReserveEnter, Goto, SetState, Fits, Reserved
  <1> HIDE DEF loaded
  <1>4. s.pending = [loaded.pending EXCEPT ![c] = est] /\ s.cost = loaded.cost
    BY <1>2 DEF States
  <1>5. /\ loaded.pending \in [Calls -> Nat] /\ s.pending \in [Calls -> Nat]
        /\ loaded.cost[day] \in Nat
        /\ \A d \in Calls \ {c} : loaded.pending[d] = s.pending[d]
        /\ s.pending[c] = est
    BY <1>2, <1>3, <1>4 DEF States, FileInv, Typed
  <1> HIDE DEF s
  <1>6. Sum(s.pending) = Sum(loaded.pending) - loaded.pending[c] + est /\ Sum(loaded.pending) \in Nat
    BY <1>5, SumOfCalls, SumOfChanged
  <1>7. s.cost[day] + Sum(s.pending) <= Cap
    BY <1>3, <1>4, <1>5, <1>6, BudgetParameters
  <1>8. state'[owner'[c]] = s
    BY <1>3 DEF FileInv, Typed
  <1>9. Committed(state[owner[c]])' <= Cap
    BY <1>3, <1>7, <1>8 DEF Committed
  <1>10. \A d \in Calls : pc'[d] = "reserving" => d = c
    BY <1>3, BudgetParameters DEF FileInv, Typed, OneHolder, Critical
  <1>11. Answers'
    BY <1>3 DEF FileInv, Typed, MoneyInv, Answers, Answered
  <1>12. QED
    BY <1>3, <1>9, <1>10, <1>11, NothingSaved DEF FileInv, Typed

\* The steps under or without the lock that change no file.
LEMMA MovesWithin ==
    ASSUME FileInv, MoneyInv, NEW c \in Calls,
           \/ \E est \in Estimates : ReserveRefused(c, est)
           \/ CallRaises(c) \/ RecordDrain(c) \/ RecordUnlink(c) \/ RecordApply(c)
           \/ RecordToWal(c) \/ CancelEnter(c) \/ CancelNothing(c) \/ LockRefused(c)
           \/ SaveFails(c) \/ RecordRaises(c)
    PROVE  MoneyInv'
  <1>1. PICK label \in Labels \ {"done", "reserving"} :
            pc' = [pc EXCEPT ![c] = label] /\ (label \notin Answered => pc[c] \notin Answered)
    BY DEF ReserveRefused, CallRaises, RecordDrain, RecordUnlink, RecordApply, RecordToWal,
           CancelEnter, CancelNothing, LockRefused, SaveFails, RecordRaises, Goto, Labels, Answered
  <1>2. pc[c] # "done" /\ UNCHANGED <<disk, owner, amount, actual, day, aged, charged>>
    BY DEF ReserveRefused, CallRaises, RecordDrain, RecordUnlink, RecordApply, RecordToWal,
           CancelEnter, CancelNothing, LockRefused, SaveFails, RecordRaises, callVars
  <1>3. state' = state \/ lock = Nobody \/ lock = c
    BY DEF ReserveRefused, CallRaises, RecordDrain, RecordUnlink, RecordApply, RecordToWal,
           CancelEnter, CancelNothing, LockRefused, SaveFails, RecordRaises, FileInv, OneHolder, Critical
  <1>4. \A d \in Calls : pc'[d] = "reserving" => pc[d] = "reserving" /\ state' = state
    BY <1>1, <1>3, BudgetParameters DEF FileInv, Typed, OneHolder, Critical
  <1>5. \A d \in Calls : pc'[d] = "reserving" => Committed(state[owner[d]])' = Committed(state[owner[d]])
    BY <1>2, <1>4 DEF Committed
  <1>6. Answers'
    BY <1>1, <1>2 DEF FileInv, Typed, MoneyInv, Answers
  <1>7. aged = {} => \A d \in Calls : pc'[d] = "reserving" => Committed(state[owner[d]])' <= Cap
    BY <1>4, <1>5 DEF MoneyInv, Capped
  <1>8. \A d \in Calls : pc'[d] = "done" <=> pc[d] = "done"
    BY <1>1, <1>2 DEF FileInv, Typed
  <1>9. QED
    BY <1>2, <1>6, <1>7, <1>8, NothingSaved

\* A death moves no money: a dead call is still owed for.
LEMMA DieWithin ==
    ASSUME FileInv, MoneyInv, NEW p \in Processes, Die(p)
    PROVE  MoneyInv'
  <1> DEFINE calls == {c \in Calls : owner[c] = p /\ pc[c] \notin Ended}
  <1>1. /\ pc' = [c \in Calls |-> IF c \in calls THEN "dead" ELSE pc[c]]
        /\ state' = [state EXCEPT ![p] = Base]
        /\ UNCHANGED <<disk, owner, amount, actual, day, aged, charged>>
    BY DEF Die, Loaded, Base, callVars
  <1>2. \A c \in Calls : pc'[c] = "reserving" => pc[c] = "reserving" /\ owner[c] # p
    BY <1>1 DEF Ended
  <1>3. \A c \in Calls : pc'[c] = "reserving" => Committed(state[owner[c]])' = Committed(state[owner[c]])
    BY <1>1, <1>2 DEF Committed, FileInv, Typed
  <1>4. aged = {} => \A c \in Calls : pc'[c] = "reserving" => Committed(state[owner[c]])' <= Cap
    BY <1>2, <1>3 DEF MoneyInv, Capped
  <1>5. \A c \in Calls : pc'[c] = "done" <=> pc[c] = "done"
    BY <1>1 DEF Ended
  <1>6. Answers'
    BY <1>1 DEF MoneyInv, Answers, Answered
  <1>7. QED
    BY <1>1, <1>4, <1>5, <1>6, NothingSaved

\* A reservation that ages out leaves the cap to chance, and the invariant says
\* nothing more of it.
LEMMA AgeWithin ==
    ASSUME FileInv, MoneyInv, NEW c \in Calls, Age(c)
    PROVE  MoneyInv'
  <1>1. /\ aged' = aged \cup {c}
        /\ UNCHANGED <<disk, state, pc, owner, amount, actual, day, charged>>
    BY DEF Age, callVars
  <1>2. Base' = Base /\ Owed' = Owed /\ aged' # {}
    BY <1>1 DEF Base, Owed
  <1>3. QED
    BY <1>1, <1>2 DEF MoneyInv, Answers, Backed, FutureFree, Capped

\* A charge is at most the amount reserved for the call.
LEMMA CallReturnsWithin ==
    ASSUME FileInv, MoneyInv, NEW c \in Calls, NEW cost \in 0 .. amount[c], CallReturns(c, cost)
    PROVE  MoneyInv'
  <1>1. /\ pc[c] = "inflight" /\ pc' = [pc EXCEPT ![c] = "returned"] /\ cost <= amount[c]
        /\ actual' = [actual EXCEPT ![c] = cost]
        /\ charged' = [charged EXCEPT ![day] = @ + cost]
        /\ UNCHANGED <<disk, state, lock, owner, amount, day, aged, billed>>
    BY DEF CallReturns, Goto
  <1>2. cost \in Nat /\ actual[c] = 0 /\ day \in Nat
    <2>1. amount[c] \in Nat /\ day \in Nat
      BY BudgetParameters DEF FileInv, Typed, AllDays
    <2>2. actual[c] = 0
      BY <1>1 DEF MoneyInv, Answers, Answered
    <2>3. QED
      BY <2>1, <2>2
  <1>3. Base' = Base /\ FileInv'
    BY <1>1, MovesKeep DEF Base
  <1>4. Answers'
    BY <1>1, <1>2 DEF FileInv, Typed, MoneyInv, Answers, Answered
  <1>5. /\ Owed \in [Calls -> Nat] /\ Owed' \in [Calls -> Nat]
        /\ \A d \in Calls \ {c} : Owed[d] = Owed'[d]
        /\ Owed[c] = 0 /\ Owed'[c] = cost
    BY <1>1, <1>2 DEF FileInv, Typed, Owed
  <1>6. Backed'
    <2> SUFFICES ASSUME NEW d \in Calls \ aged PROVE Owed'[d] <= Base.pending[d]
      BY <1>1, <1>3 DEF Backed
    <2>1. CASE d = c
      BY <1>1, <1>5, <2>1 DEF FileInv, Posted, Reserving, Base
    <2>2. CASE d # c
      BY <1>5, <2>2 DEF MoneyInv, Backed
    <2>3. QED
      BY <2>1, <2>2
  <1>7. FutureFree'
    BY <1>1, <1>2, <1>3 DEF FileInv, Typed, MoneyInv, FutureFree
  <1>8. Capped'
    <2> SUFFICES ASSUME aged = {} PROVE Capped'
      BY <1>1 DEF Capped
    <2>1. charged'[day] <= Base.cost[day] + Sum(Owed')
      <3>1. Sum(Owed') = Sum(Owed) - 0 + cost /\ Sum(Owed) \in Nat
        BY <1>5, SumOfChanged, SumOfCalls
      <3>2. charged'[day] = charged[day] + cost /\ charged[day] \in Nat
        BY <1>1 DEF FileInv, Typed
      <3>3. charged[day] <= Base.cost[day] + Sum(Owed) /\ Base.cost[day] \in Nat
        BY BaseIsState DEF MoneyInv, Capped, FileInv, Typed, States
      <3>4. QED
        BY <1>2, <3>1, <3>2, <3>3
    <2>2. \A d \in AllDays : d < day => charged'[d] <= Cap
      BY <1>1, <1>2 DEF MoneyInv, Capped, FileInv, Typed
    <2>3. \A d \in Calls : pc'[d] = "reserving" => Committed(state[owner[d]])' <= Cap
      BY <1>1 DEF MoneyInv, Capped, Committed, FileInv, Typed
    <2>4. Committed(Base)' <= Cap
      BY <1>1, <1>3 DEF MoneyInv, Capped, Committed
    <2>5. QED
      BY <1>1, <1>3, <2>1, <2>2, <2>3, <2>4 DEF Capped
  <1>9. QED
    BY <1>4, <1>6, <1>7, <1>8 DEF MoneyInv

\* At midnight the day that ends stays within the cap and the new one has no
\* charges.
LEMMA NewDayWithin ==
    ASSUME FileInv, MoneyInv, NewDay
    PROVE  MoneyInv'
  <1>1. /\ day' = day + 1 /\ lock = Nobody
        /\ UNCHANGED <<disk, state, pc, owner, amount, actual, aged, charged>>
    BY DEF NewDay, callVars
  <1>2. Base' = Base /\ Owed' = Owed /\ day' \in AllDays /\ day \in Nat
    BY <1>1, BudgetParameters DEF Base, Owed, NewDay, AllDays, FileInv, Typed
  <1>3. charged[day'] = 0 /\ Base.cost[day'] = 0
    BY <1>1, <1>2 DEF MoneyInv, FutureFree
  <1>4. Answers' /\ Backed'
    BY <1>1, <1>2 DEF MoneyInv, Answers, Backed
  <1>5. FutureFree'
    BY <1>1, <1>2 DEF MoneyInv, FutureFree, AllDays
  <1>6. Capped'
    <2> SUFFICES ASSUME aged = {} PROVE Capped'
      BY <1>1 DEF Capped
    <2>1. /\ Base.pending \in [Calls -> Nat] /\ Base.cost[day] \in Nat
          /\ Owed \in [Calls -> Nat]
      BY BaseIsState, OwedType DEF FileInv, Typed, States
    <2>2. Sum(Base.pending) \in Nat /\ Sum(Owed) \in Nat
      BY <2>1, SumOfCalls
    <2>3. Base.cost[day] + Sum(Base.pending) <= Cap
      BY DEF MoneyInv, Capped, Committed
    <2>4. Committed(Base)' <= Cap
      BY <1>2, <1>3, <2>1, <2>2, <2>3, BudgetParameters DEF Committed
    <2>5. charged'[day'] <= Base'.cost[day'] + Sum(Owed')
      BY <1>1, <1>2, <1>3, <2>2
    <2>6. \A d \in AllDays : d < day' => charged'[d] <= Cap
      <3>1. \A d \in AllDays : d < day' => d <= day
        BY <1>1, <1>2 DEF AllDays
      <3>2. \A d \in AllDays : charged[d] <= Cap
        BY MoneyImpliesCap DEF ChargedWithinCap
      <3>3. QED
        BY <1>1, <3>2
    <2>7. \A d \in Calls : pc'[d] # "reserving"
      BY <1>1, BudgetParameters DEF FileInv, OneHolder, Critical
    <2>8. QED
      BY <1>2, <2>4, <2>5, <2>6, <2>7 DEF Capped
  <1>7. QED
    BY <1>4, <1>5, <1>6 DEF MoneyInv

\* A save replaces an amount owed by the same amount recorded.
LEMMA CommitWithin ==
    ASSUME FileInv, MoneyInv, NEW c \in Calls,
           ReserveCommit(c) \/ RecordCommit(c) \/ CancelCommit(c)
    PROVE  MoneyInv'
  <1> DEFINE s == state[owner[c]]
  <1>1. PICK label \in {"inflight", "done", "cancelled"} :
            /\ pc[c] = CASE label = "inflight" -> "reserving"
                         [] label = "done" -> "recording"
                         [] label = "cancelled" -> "cancelling"
            /\ pc' = [pc EXCEPT ![c] = label]
    BY DEF ReserveCommit, RecordCommit, CancelCommit, Commit, Goto
  <1>2. /\ disk' = s /\ lock' = Nobody
        /\ UNCHANGED <<state, owner, amount, actual, day, aged, charged>>
    BY DEF ReserveCommit, RecordCommit, CancelCommit, Commit, callVars
  <1>3. Saves(c) /\ lock = c
    BY <1>1 DEF FileInv, Holding, OneHolder, Critical
  <1>4. /\ s \in States
        /\ \A d \in Calls \ {c} :
              s.pending[d] = Base.pending[d] \/ (d \in aged /\ s.pending[d] = 0) \/ Carried(d)
        /\ s.pending[c] = IF label = "inflight" THEN amount[c] ELSE 0
        /\ s.cost = IF label = "done" THEN [Base.cost EXCEPT ![day] = @ + actual[c]] ELSE Base.cost
    BY <1>1, <1>3 DEF Saves
  <1>5. label = "inflight" /\ aged = {} => Committed(s) <= Cap
    BY <1>1 DEF MoneyInv, Capped
  <1> HIDE DEF s
  <1>6. Base' = s
    BY <1>2, <1>4, NoFileIsNoState DEF Base
  <1>7. /\ Base \in States /\ Owed \in [Calls -> Nat] /\ Owed' \in [Calls -> Nat]
        /\ actual[c] \in Nat /\ amount[c] \in Nat /\ day \in AllDays /\ charged[day] \in Nat
    BY <1>1, <1>2, BaseIsState, OwedType DEF FileInv, Typed, Owed
  <1>8. /\ \A d \in Calls \ {c} : Owed[d] = Owed'[d]
        /\ Owed[c] = actual[c] /\ Owed'[c] = IF label = "done" THEN 0 ELSE actual[c]
    BY <1>1, <1>2 DEF Owed, FileInv, Typed
  <1>9. /\ actual[c] <= amount[c]
        /\ label # "done" => actual[c] = 0
    BY <1>1 DEF MoneyInv, Answers, Answered
  <1>10. Answers'
    BY <1>1, <1>2, <1>9 DEF MoneyInv, Answers, Answered, FileInv, Typed
  <1>11. Backed'
    <2>1. \A d \in Calls : Carried(d) => Owed[d] = 0
      BY DEF Carried, MoneyInv, Answers, Answered, Owed
    <2>2. QED
      BY <1>2, <1>4, <1>6, <1>7, <1>8, <1>9, <2>1 DEF MoneyInv, Backed, States
  <1>12. FutureFree'
    <2>1. \A d \in AllDays : d > day => s.cost[d] = Base.cost[d]
      BY SMTT(30), <1>4, <1>7, BudgetParameters DEF States, AllDays
    <2>2. QED
      BY <1>2, <1>6, <2>1 DEF MoneyInv, FutureFree
  <1>13. Capped'
    <2> SUFFICES ASSUME aged = {} PROVE Capped'
      BY <1>2 DEF Capped
    <2>1. /\ Base.pending \in [Calls -> Nat] /\ s.pending \in [Calls -> Nat]
          /\ Base.cost[day] \in Nat
      BY <1>4, <1>7 DEF States
    <2>2. /\ label # "inflight" =>
                Sum(s.pending) = Sum(Base.pending) - Base.pending[c] + s.pending[c]
          /\ Sum(Base.pending) \in Nat
      <3>1. label # "inflight" => disk # NoFile
        BY <1>1 DEF FileInv, Untouched, Called, Reserving
      <3>2. label # "inflight" => \A d \in Calls \ {c} : Base.pending[d] = s.pending[d]
        BY <1>4, <3>1 DEF Carried
      <3>3. QED
        BY <2>1, <3>2, SumOfCalls, SumOfChanged
    <2>3. Sum(Owed') = Sum(Owed) - Owed[c] + Owed'[c] /\ Sum(Owed) \in Nat
      BY <1>7, <1>8, SumOfCalls, SumOfChanged
    <2>4. s.cost[day] = Base.cost[day] + IF label = "done" THEN actual[c] ELSE 0
      BY <1>4, <1>7, <2>1 DEF States
    <2>5. label = "done" => Base.pending[c] = amount[c]
      BY <1>1 DEF FileInv, Posted, Reserving, Base
    <2>6. Base.cost[day] + Sum(Base.pending) <= Cap /\ charged[day] <= Base.cost[day] + Sum(Owed)
      BY DEF MoneyInv, Capped, Committed
    <2>7. Committed(s) <= Cap
      <3>1. CASE label = "inflight"
        BY <1>5, <3>1
      <3>2. CASE label # "inflight"
        <4>1. s.pending[c] = 0 /\ Base.pending[c] \in Nat
          BY <1>4, <2>1, <3>2
        <4>2. CASE label = "done"
          BY <1>7, <1>9, <2>1, <2>2, <2>4, <2>5, <2>6, <4>1, <4>2, BudgetParameters DEF Committed
        <4>3. CASE label # "done"
          BY <2>1, <2>2, <2>4, <2>6, <3>2, <4>1, <4>3, BudgetParameters DEF Committed
        <4>4. QED
          BY <4>2, <4>3
      <3>3. QED
        BY <3>1, <3>2
    <2>8. charged[day] <= s.cost[day] + Sum(Owed')
      BY <1>7, <1>8, <1>9, <2>1, <2>3, <2>4, <2>6
    <2>9. \A d \in Calls : pc'[d] # "reserving"
      BY <1>1, <1>3 DEF FileInv, Typed, OneHolder, Critical
    <2>10. Committed(Base)' <= Cap
      BY <1>2, <1>6, <2>7 DEF Committed
    <2>11. QED
      BY <1>2, <1>6, <2>8, <2>9, <2>10 DEF MoneyInv, Capped
  <1>14. QED
    BY <1>10, <1>11, <1>12, <1>13 DEF MoneyInv

\* Every step keeps the money invariant.
LEMMA MoneyStep == FileInv /\ MoneyInv /\ [Next]_vars => MoneyInv'
  <1> SUFFICES ASSUME FileInv, MoneyInv, [Next]_vars PROVE MoneyInv'
    OBVIOUS
  <1>1. ASSUME NEW c \in Calls, Metered(c)
        PROVE  MoneyInv'
    BY <1>1, ReserveEnterWithin, CommitWithin, CallReturnsWithin, MovesWithin DEF Metered
  <1>2. CASE UNCHANGED vars
    <2>1. Owed' = Owed /\ Base' = Base
      BY <1>2 DEF vars, callVars, Owed, Base
    <2>2. QED
      BY <1>2, <2>1 DEF vars, callVars, bounds, MoneyInv, Answers, Backed, FutureFree, Capped, Committed
  <1>3. QED
    BY <1>1, <1>2, DieWithin, AgeWithin, NewDayWithin DEF Next

\* No day is charged more than the cap, whatever processes reserve, call and
\* record concurrently, die, or are refused the file lock or a write, unless a reservation
\* aged out under a running call: the promise of BudgetTracker.reserve.
THEOREM ChargesStayWithinCap == Spec => []ChargedWithinCap
  <1>1. Init => MoneyInv
    BY MoneyInit
  <1>2. FileInv /\ MoneyInv /\ [Next]_vars => MoneyInv'
    BY MoneyStep
  <1>3. FileInv /\ MoneyInv => ChargedWithinCap
    BY MoneyImpliesCap
  <1>4. QED
    BY <1>1, <1>2, <1>3, FileInvariant, PTL DEF Spec

-----------------------------------------------------------------------------
(* The ledger and the sidecar.                                             *)

\* A step of the traced system is a step of the budget or leaves it alone.
LEMMA TrailStepIsStep == [TrailNext]_trailVars => [Next]_vars
  BY DEF TrailNext, trailVars, Retry, LogOk, LogException, AppendCallLog

\* The metered backend with its call log implements the budget: everything above
\* holds of it too.
THEOREM TrailImplementsBudget == TrailSpec => Spec
  <1>1. TrailInit => Init
    BY DEF TrailInit
  <1>2. QED
    BY <1>1, TrailStepIsStep, PTL DEF TrailSpec, Spec

\* What record() accepted, call by call.
Paid == [c \in Calls |-> IF pc[c] \in {"done", "walled"} THEN actual[c] ELSE 0]

PaidInv == SumOf(billed, AllDays) = Sum(Paid)

OkLinesPaid == \A c \in Calls : line[c] = "ok" => pc[c] \in {"done", "walled"}

\* What is paid is a natural number per call.
LEMMA PaidType == ASSUME Typed PROVE Paid \in [Calls -> Nat]
  BY DEF Typed, Paid

\* The days of a behaviour are finitely many.
LEMMA DaysFinite == IsFiniteSet(AllDays)
  BY FS_Interval, BudgetParameters DEF AllDays

\* The sum over the days after one day was billed.
LEMMA SumOfBilled ==
    ASSUME Typed
    PROVE  Sum(billed) = SumOf(billed, AllDays) /\ SumOf(billed, AllDays) \in Nat
  <1>1. DOMAIN billed = AllDays
    BY DEF Typed
  <1>2. Sum(billed) = SumOf(billed, AllDays)
    BY <1>1 DEF Sum, SumOf
  <1>3. SumOf(billed, AllDays) \in Nat
    BY SumType, DaysFinite DEF Typed
  <1>4. QED
    BY <1>2, <1>3

\* Nothing is paid at the start.
LEMMA PaidInit == Init => PaidInv
  <1> SUFFICES ASSUME Init PROVE PaidInv
    OBVIOUS
  <1>1. Paid \in [Calls -> Nat] /\ \A c \in Calls : Paid[c] = 0
    BY DEF Init, Paid
  <1>2. \A d \in AllDays : billed[d] = 0
    BY DEF Init, NoCost
  <1>3. Sum(Paid) = 0
    BY <1>1, SumOfCalls, SumZero, BudgetParameters
  <1>4. SumOf(billed, AllDays) = 0
    BY <1>2, SumZero, DaysFinite
  <1>5. QED
    BY <1>3, <1>4 DEF PaidInv

\* record() accepts the cost of one call, into the file or the write-ahead log.
LEMMA PayingKeeps ==
    ASSUME FileInv, PaidInv, NEW c \in Calls, RecordCommit(c) \/ RecordToWal(c)
    PROVE  PaidInv'
  <1>1. PICK label \in {"done", "walled"} :
            /\ pc[c] = IF label = "done" THEN "recording" ELSE "returned"
            /\ pc' = [pc EXCEPT ![c] = label]
            /\ billed' = [billed EXCEPT ![day] = @ + actual[c]]
            /\ UNCHANGED <<actual, day>>
    BY DEF RecordCommit, Commit, RecordToWal, Goto, callVars
  <1>2. /\ Paid \in [Calls -> Nat] /\ Paid' \in [Calls -> Nat]
        /\ \A d \in Calls \ {c} : Paid[d] = Paid'[d]
        /\ Paid[c] = 0 /\ Paid'[c] = actual[c] /\ actual[c] \in Nat
    BY <1>1 DEF FileInv, Typed, Paid
  <1>3. Sum(Paid') = Sum(Paid) - 0 + actual[c] /\ Sum(Paid) \in Nat
    BY <1>2, SumOfChanged, SumOfCalls
  <1>4. /\ \A d \in AllDays : billed[d] \in Int /\ billed'[d] \in Int /\ (d # day => billed[d] = billed'[d])
        /\ billed'[day] = billed[day] + actual[c] /\ day \in AllDays
    BY <1>1, <1>2 DEF FileInv, Typed
  <1>5. SumOf(billed', AllDays) = SumOf(billed, AllDays) - billed[day] + billed'[day]
    <2>1. \A d \in AllDays : billed[d] \in Int /\ billed'[d] \in Int /\ (d # day => billed[d] = billed'[d])
      BY <1>4
    <2>2. day \in AllDays /\ IsFiniteSet(AllDays)
      BY <1>4, DaysFinite
    <2> DEFINE b == billed'
    <2>3. \A d \in AllDays : billed[d] \in Int /\ b[d] \in Int /\ (d # day => billed[d] = b[d])
      BY <2>1
    <2> HIDE DEF b
    <2>4. SumOf(b, AllDays) = SumOf(billed, AllDays) - billed[day] + b[day]
      BY ONLY <2>2, <2>3, SumChange
    <2>5. QED
      BY <2>4 DEF b
  <1>6. SumOf(billed, AllDays) \in Nat /\ billed[day] \in Int
    BY <1>4, SumOfBilled DEF FileInv
  <1>7. QED
    BY <1>2, <1>3, <1>4, <1>5, <1>6 DEF PaidInv

\* Every step bills what it pays.
LEMMA PaidStep == FileInv /\ PaidInv /\ [Next]_vars => PaidInv'
  <1> SUFFICES ASSUME FileInv, PaidInv, [Next]_vars PROVE PaidInv'
    OBVIOUS
  <1>1. ASSUME billed' = billed,
               \A c \in Calls : (pc'[c] \in {"done", "walled"} <=> pc[c] \in {"done", "walled"})
                                /\ (pc[c] \in {"done", "walled"} => actual'[c] = actual[c])
        PROVE  PaidInv'
    <2>1. Paid' = Paid
      BY <1>1 DEF Paid
    <2>2. QED
      BY <1>1, <2>1 DEF PaidInv
  <1>2. ASSUME NEW c \in Calls, Metered(c)
        PROVE  PaidInv'
    <2>1. CASE RecordCommit(c) \/ RecordToWal(c)
      BY <2>1, PayingKeeps
    <2>2. CASE ~(RecordCommit(c) \/ RecordToWal(c))
      <3>1. \E label \in Labels \ {"done", "walled"} : pc' = [pc EXCEPT ![c] = label]
        BY <1>2, <2>2 DEF Metered, ReserveEnter, ReserveRefused, ReserveCommit, CallReturns, CallRaises,
             RecordDrain, RecordUnlink, RecordApply, CancelEnter, CancelCommit, CancelNothing,
             LockRefused, SaveFails, RecordRaises, Commit, Goto, Labels
      <3>2. /\ pc[c] \notin {"done", "walled"} /\ billed' = billed
            /\ \A d \in Calls \ {c} : actual'[d] = actual[d]
        BY <1>2, <2>2 DEF Metered, ReserveEnter, ReserveRefused, ReserveCommit, CallReturns, CallRaises,
             RecordDrain, RecordUnlink, RecordApply, CancelEnter, CancelCommit, CancelNothing,
             LockRefused, SaveFails, RecordRaises, Commit, callVars, FileInv, Typed
      <3>3. QED
        BY <1>1, <3>1, <3>2 DEF FileInv, Typed
    <2>3. QED
      BY <2>1, <2>2
  <1>3. ASSUME NEW p \in Processes, Die(p)
        PROVE  PaidInv'
    BY <1>1, <1>3 DEF Die, Ended, callVars
  <1>4. CASE NewDay \/ (\E c \in Calls : Age(c)) \/ UNCHANGED vars
    BY <1>1, <1>4 DEF NewDay, Age, vars, callVars
  <1>5. QED
    BY <1>2, <1>3, <1>4 DEF Next

\* Every "ok" line is written for a call that was recorded.
LEMMA LinesStep ==
    FileInv /\ OkLinesPaid /\ line \in [Calls -> {"none", "ok", "exception", "missed"}] /\ [TrailNext]_trailVars
        => OkLinesPaid' /\ line' \in [Calls -> {"none", "ok", "exception", "missed"}]
  <1> SUFFICES ASSUME FileInv, OkLinesPaid, line \in [Calls -> {"none", "ok", "exception", "missed"}],
                      [TrailNext]_trailVars
               PROVE  OkLinesPaid' /\ line' \in [Calls -> {"none", "ok", "exception", "missed"}]
    OBVIOUS
  <1>1. CASE Next /\ UNCHANGED trail
    <2>1. \A c \in Calls : pc[c] \in {"done", "walled"} => pc'[c] = pc[c]
      BY ZenonT(30), <1>1 DEF Next, Metered, ReserveEnter, ReserveRefused, ReserveCommit, CallReturns, CallRaises,
           RecordDrain, RecordUnlink, RecordApply, RecordCommit, RecordToWal, CancelEnter, CancelCommit,
           CancelNothing, LockRefused, SaveFails, RecordRaises, Commit, Goto, Die, Ended, NewDay, Age, FileInv, Typed
    <2>2. QED
      BY <1>1, <2>1 DEF OkLinesPaid, trail
  <1>2. ASSUME NEW c \in Calls, Retry(c) \/ LogOk(c) \/ LogException(c)
        PROVE  OkLinesPaid' /\ line' \in [Calls -> {"none", "ok", "exception", "missed"}]
    BY <1>2 DEF Retry, LogOk, LogException, AppendCallLog, OkLinesPaid, vars
  <1>3. CASE UNCHANGED trailVars
    BY <1>3 DEF trailVars, trail, vars, OkLinesPaid
  <1>4. QED
    BY <1>1, <1>2, <1>3 DEF TrailNext

\* The lines sum to no more than what was billed.
LEMMA LinesAreWithin ==
    ASSUME FileInv, PaidInv, OkLinesPaid
    PROVE  TrailWithinLedger
  <1> DEFINE Lines == {c \in Calls : line[c] = "ok"}
             shown == [c \in Calls |-> IF c \in Lines THEN actual[c] ELSE 0]
  <1>1. actual \in [Calls -> Nat] /\ shown \in [Calls -> Nat] /\ Paid \in [Calls -> Nat]
    BY PaidType DEF FileInv, Typed
  <1>2. LineCosts = SumOf(shown, Calls)
    <2>1. SumOf(shown, Calls) = SumOf(actual, Lines)
      BY <1>1, SumRestrict, BudgetParameters
    <2>2. QED
      BY <2>1 DEF LineCosts, SumOf
  <1>3. Sum(shown) = LineCosts /\ Sum(billed) = Sum(Paid)
    BY <1>1, <1>2, SumOfCalls, SumOfBilled DEF PaidInv, FileInv
  <1>4. \A c \in Calls : shown[c] <= Paid[c]
    BY <1>1 DEF OkLinesPaid, Paid
  <1>5. ASSUME \A c \in Calls : pc[c] \in {"done", "walled"} => line[c] = "ok"
        PROVE  shown = Paid
    BY <1>5 DEF OkLinesPaid, Paid
  <1> HIDE DEF shown
  <1>6. Sum(shown) <= Sum(Paid)
    BY <1>1, <1>4, SumOfSame
  <1>7. QED
    BY <1>3, <1>5, <1>6 DEF TrailWithinLedger

\* The call log never claims more money than the ledger and the write-ahead file
\* carry: a line is written after its call was recorded, once.
THEOREM SidecarIsWithinLedger == TrailSpec => []TrailWithinLedger
  <1> DEFINE Lined == OkLinesPaid /\ line \in [Calls -> {"none", "ok", "exception", "missed"}]
  <1>1. Init => PaidInv
    BY PaidInit
  <1>2. FileInv /\ PaidInv /\ [Next]_vars => PaidInv'
    BY PaidStep
  <1>3. Spec => []PaidInv
    BY <1>1, <1>2, FileInvariant, PTL DEF Spec
  <1>4. TrailInit => Lined
    BY DEF TrailInit, OkLinesPaid
  <1>5. FileInv /\ Lined /\ [TrailNext]_trailVars => Lined'
    BY LinesStep
  <1>6. FileInv /\ PaidInv /\ Lined => TrailWithinLedger
    BY LinesAreWithin
  <1> HIDE DEF Lined
  <1>7. QED
    BY <1>3, <1>4, <1>5, <1>6, TrailImplementsBudget, FileInvariant, PTL DEF TrailSpec

-----------------------------------------------------------------------------
(***************************************************************************)
(* Part 2. What the bursts promise, for any number of parallel bursts,     *)
(* calls and agents, any seeds, any size of recent, any cap and any days.  *)
(*                                                                         *)
(* NothingStranded: a burst waits for its call inside the iteration that   *)
(* made it (Waiting), so an iteration that ended left no call running, and *)
(* a process that ends takes at most one call with it; every other call    *)
(* that may leave its reservation was refused something (Counted).         *)
(*                                                                         *)
(* FailureIsTakenUp and SeedsTakeTurns: a burst is a Curiosity and the     *)
(* items it worked on. A step begins an iteration, ends one, or leaves     *)
(* both alone (BurstView). The follow-ups are those of the last row        *)
(* (Left), and the turns of the seeds are fair (Fair): how long ago a seed *)
(* had its turn and how far the rotation is from it together stay below    *)
(* the window (Bounded). What carries it is that recent holds only seeds   *)
(* that had their turn lately (Recalled), so that the rotation passes over *)
(* no other.                                                               *)
(*                                                                         *)
(* RowsBracketSpend: the rows of a burst are differences of consecutive    *)
(* readings of its tracker, so together they show what the tracker rose by *)
(* since the burst started (ShownSinceStart). What the tracker held then,  *)
(* and the calls of the burst since, are in the file and in the tracker    *)
(* (Bracket); the tracker holds no more than was charged. A burst that is  *)
(* killed takes its tracker along and touches no other one.                *)
(***************************************************************************)

-----------------------------------------------------------------------------
(* The bursts are clients of the budget.                                   *)

\* A new tracker loads the file and keeps the file invariant.
LEMMA StartKeeps ==
    ASSUME FileInv, NEW p \in Processes, Start(p)
    PROVE  FileInv' /\ Base' = Base
  <1>1. /\ lock = Nobody /\ lock' = lock
        /\ state' = [state EXCEPT ![p] = Base]
        /\ UNCHANGED <<disk, pc, owner, amount, actual, day, aged, charged, billed>>
    BY DEF Start, Loaded, Base, callVars
  <1>2. Base' = Base
    BY <1>1 DEF Base
  <1>3. Typed' /\ OneHolder' /\ Posted' /\ LedgerExact'
    BY <1>1 DEF FileInv, Typed, OneHolder, Posted, LedgerExact
  <1>4. Untouched'
    <2>1. ASSUME NEW q \in Processes, disk = NoFile
          PROVE  Agrees(state[q])'
      <3>1. Agrees(state[q]) /\ Agrees(Base)
        BY <1>1, <2>1, BaseAgrees, BudgetParameters DEF FileInv, Untouched
      <3>2. Agrees(state'[q])
        BY <1>1, <3>1 DEF FileInv, Typed
      <3>3. QED
        BY <1>1, <3>2, StillAgrees
    <2>2. QED
      BY <1>1, <2>1 DEF FileInv, Untouched
  <1>5. Holding'
    BY <1>1, BudgetParameters DEF FileInv, OneHolder, Critical, Holding
  <1>6. QED
    BY <1>2, <1>3, <1>4, <1>5 DEF FileInv

\* What else a burst does to the budget is a call, its next step, a death, or midnight.
LEMMA BurstMeters ==
    ASSUME [BurstNext]_allVars
    PROVE  \/ \E p \in Processes : Start(p)
           \/ \E c \in Calls : Metered(c)
           \/ \E p \in Processes : Interrupted(p) /\ Die(p)
           \/ NewDay
           \/ UNCHANGED vars
  <1>1. ASSUME NEW p \in Processes, AgentCalls(p)
        PROVE  \E c \in Calls : Metered(c)
    BY <1>1 DEF AgentCalls, Metered
  <1>2. ASSUME NEW c \in Calls, CallGoesOn(c)
        PROVE  Metered(c)
    BY <1>2 DEF CallGoesOn, Metered
  <1>3. ASSUME NEW p \in Processes, Begin(p) \/ Finish(p) \/ AgentAnswers(p) \/ RolledBack(p) \/ Promoted(p) \/ Crash(p)
        PROVE  UNCHANGED vars
    BY <1>3 DEF Begin, Finish, AgentAnswers, RolledBack, Promoted, Crash
  <1>4. Midnight => NewDay
    BY DEF Midnight
  <1>5. UNCHANGED allVars => UNCHANGED vars
    BY DEF allVars
  <1>6. ASSUME NEW p \in Processes, Interrupted(p)
        PROVE  Die(p) \/ UNCHANGED vars
    BY <1>6 DEF Interrupted
  <1>7. QED
    BY <1>1, <1>2, <1>3, <1>4, <1>5, <1>6 DEF BurstNext

\* The file invariant of the budget is an invariant of the bursts.
LEMMA BurstFileStep == FileInv /\ [BurstNext]_allVars => FileInv'
  BY BurstMeters, StartKeeps, FileStep DEF Next

-----------------------------------------------------------------------------
(* Which calls run.  A burst has one call at a time, and waits for it      *)
(* inside the iteration that made it.                                      *)

\* The labels of a call that runs, and of one the file does not count.
Running == {"reserving", "inflight", "returned", "raised", "draining", "drained", "recording", "cancelling"}

Unasked == {"idle", "refused", "reserving"}

Places == {"new", "loop", "iterating", "finished", "crashed", "stopped", "killed"}

\* A call runs only while its burst waits for it inside an iteration; one that was
\* refused, or is not written yet, holds nothing in the file.
Waiting ==
    /\ aged = {}
    /\ at \in [Processes -> Places]
    /\ call \in [Processes -> Calls \cup {Nobody}]
    /\ \A c \in Calls :
          /\ pc[c] \in Running => at[owner[c]] = "iterating" /\ call[owner[c]] = c
          /\ pc[c] \in Unasked => Base.pending[c] = 0

\* No burst has called yet.
LEMMA WaitingInit == BurstInit => Waiting
  BY DEF BurstInit, Init, Waiting, Places, Running, Unasked, Base, FreshState

\* A step of one call: the others stay, and it saves their reservations as they are,
\* but for what could not be saved before.
LEMMA MeteredMoves ==
    ASSUME FileInv, Waiting, NEW c \in Calls, Metered(c)
    PROVE  /\ UNCHANGED <<owner, day, aged>>
           /\ pc' \in [Calls -> Labels]
           /\ \A d \in Calls \ {c} :
                 pc'[d] = pc[d] /\ (pc[d] # "unsaved" => Base'.pending[d] = Base.pending[d])
           /\ pc'[c] \in Running => pc[c] \in Running \cup {"idle"}
           /\ pc'[c] \in Unasked => pc[c] = "idle" /\ Base' = Base
           /\ \A p \in Processes \ {owner[c]} : state'[p] = state[p]
           /\ pc[c] \notin {"refused", "done", "walled", "cancelled", "uncancelled", "unsaved",
                          "unrecorded", "dead"}
  <1>1. ASSUME NEW est \in Estimates, ReserveEnter(c, est) \/ ReserveRefused(c, est)
        PROVE  /\ UNCHANGED <<disk, owner, day, aged>>
               /\ pc[c] = "idle"
               /\ pc' = [pc EXCEPT ![c] = "reserving"] \/ pc' = [pc EXCEPT ![c] = "refused"]
               /\ \A p \in Processes \ {owner[c]} : state'[p] = state[p]
    BY <1>1 DEF ReserveEnter, ReserveRefused, Goto, SetState, callVars, FileInv, Typed
  <1>2. CASE \E est \in Estimates : ReserveEnter(c, est) \/ ReserveRefused(c, est)
    <2>1. Base' = Base
      BY <1>1, <1>2 DEF Base
    <2>2. QED
      BY <1>1, <1>2, <2>1 DEF FileInv, Typed, Waiting, Labels, Running, Unasked
  <1>3. CASE ReserveCommit(c) \/ RecordCommit(c) \/ CancelCommit(c)
    <2>1. PICK label \in {"inflight", "done", "cancelled"} :
            /\ pc[c] \in {"reserving", "recording", "cancelling"}
            /\ pc' = [pc EXCEPT ![c] = label]
            /\ disk' = state[owner[c]]
            /\ UNCHANGED <<owner, day, aged, state>>
      BY <1>3 DEF ReserveCommit, RecordCommit, CancelCommit, Commit, Goto, callVars
    <2>2. Saves(c)
      BY <2>1 DEF FileInv, Holding
    <2>3. Base' = state[owner[c]]
      BY <2>1, <2>2, NoFileIsNoState DEF Base, Saves
    <2>4. \A d \in Calls \ {c} : pc[d] # "unsaved" => Base'.pending[d] = Base.pending[d]
      BY <2>2, <2>3 DEF Saves, Waiting, Carried
    <2>5. QED
      BY <2>1, <2>4 DEF FileInv, Typed, Waiting, Labels, Running, Unasked
  <1>4. CASE \/ \E cost \in 0 .. amount[c] : CallReturns(c, cost)
             \/ CallRaises(c) \/ RecordDrain(c) \/ RecordUnlink(c) \/ RecordApply(c) \/ RecordToWal(c)
             \/ CancelEnter(c) \/ CancelNothing(c)
    <2>1. PICK label \in {"returned", "raised", "drained", "draining", "recording", "walled", "cancelling",
                          "cancelled"} :
            /\ pc[c] \in Running
            /\ pc' = [pc EXCEPT ![c] = label]
            /\ UNCHANGED <<disk, owner, day, aged>>
            /\ \A p \in Processes \ {owner[c]} : state'[p] = state[p]
      BY <1>4 DEF CallReturns, CallRaises, RecordDrain, RecordUnlink, RecordApply, RecordToWal,
                  CancelEnter, CancelNothing, Goto, SetState, callVars, Running, FileInv, Typed
    <2>2. Base' = Base
      BY <2>1 DEF Base
    <2>3. QED
      BY <2>1, <2>2 DEF FileInv, Typed, Waiting, Labels, Running, Unasked
  <1>5. CASE LockRefused(c) \/ SaveFails(c) \/ RecordRaises(c)
    <2>1. PICK label \in {"refused", "uncancelled", "unsaved", "unrecorded"} :
            /\ pc[c] \in IF label = "refused" THEN {"idle"} ELSE Running
            /\ pc' = [pc EXCEPT ![c] = label]
            /\ UNCHANGED <<disk, owner, day, aged, state>>
      BY <1>5 DEF LockRefused, SaveFails, RecordRaises, Goto, callVars, Running
    <2>2. Base' = Base
      BY <2>1 DEF Base
    <2>3. QED
      BY <2>1, <2>2 DEF FileInv, Typed, Waiting, Labels, Running, Unasked
  <1>6. QED
    BY <1>2, <1>3, <1>4, <1>5 DEF Metered

\* A process that ends takes its running call with it and leaves the others alone.
LEMMA InterruptedMoves ==
    ASSUME FileInv, NEW p \in Processes, Interrupted(p)
    PROVE  /\ UNCHANGED <<disk, wal, owner, amount, actual, day, aged, charged, billed, call>>
           /\ at[p] \in {"loop", "iterating"}
           /\ at' = [at EXCEPT ![p] = IF at[p] = "loop" THEN "stopped" ELSE "killed"]
           /\ DOMAIN pc' = Calls
           /\ \A c \in Calls :
                 pc'[c] = IF owner[c] = p /\ pc[c] \in Running THEN "dead" ELSE pc[c]
           /\ \A q \in Processes \ {p} : state'[q] = state[q]
           /\ Base' = Base
  <1>1. \A c \in Calls : pc[c] \in Running <=> pc[c] \notin Ended
    BY DEF FileInv, Typed, Labels, Running, Ended
  <1>2. /\ at[p] \in {"loop", "iterating"} /\ call' = call
        /\ at' = [at EXCEPT ![p] = IF at[p] = "loop" THEN "stopped" ELSE "killed"]
    BY DEF Interrupted, MoveTo
  <1>3. CASE Die(p)
    <2>1. /\ UNCHANGED <<disk, wal, owner, amount, actual, day, aged, charged, billed>>
          /\ DOMAIN pc' = Calls
          /\ \A c \in Calls :
                pc'[c] = IF owner[c] = p /\ pc[c] \in Running THEN "dead" ELSE pc[c]
          /\ \A q \in Processes \ {p} : state'[q] = state[q]
      BY <1>1, <1>3 DEF Die, callVars, FileInv, Typed
    <2>2. QED
      BY <1>2, <2>1 DEF Base
  <1>4. CASE (\A c \in Calls : owner[c] = p => pc[c] \in Ended) /\ UNCHANGED vars
    <2>1. UNCHANGED <<disk, wal, owner, amount, actual, day, aged, charged, billed, pc, state>>
      BY <1>4 DEF vars, callVars
    <2>2. QED
      BY <1>1, <1>2, <1>4, <2>1 DEF Base, FileInv, Typed
  <1>5. QED
    BY <1>3, <1>4 DEF Interrupted

\* A burst leaves its iteration only when its call runs no more: run_iteration waits.
LEMMA WaitingStep == FileInv /\ Waiting /\ [BurstNext]_allVars => Waiting'
  <1> SUFFICES ASSUME FileInv, Waiting, [BurstNext]_allVars PROVE Waiting'
    OBVIOUS
  <1>1. ASSUME NEW p \in Processes, Start(p)
        PROVE  Waiting'
    <2>1. /\ at' = [at EXCEPT ![p] = "loop"] /\ at[p] = "new"
          /\ UNCHANGED <<pc, owner, aged, call>>
      BY <1>1 DEF Start, MoveTo, callVars
    <2>2. Base' = Base
      BY <1>1, StartKeeps
    <2>3. QED
      BY <2>1, <2>2 DEF Waiting, Places, FileInv, Typed
  <1>2. ASSUME NEW p \in Processes, AgentCalls(p)
        PROVE  Waiting'
    <2>1. PICK c \in Calls : /\ owner[c] = p /\ call' = [call EXCEPT ![p] = c]
                             /\ pc[c] = "idle" /\ Metered(c) /\ UNCHANGED at
                             /\ at[p] = "iterating" /\ call[p] = Nobody
      BY <1>2 DEF AgentCalls, Between, Metered, ReserveEnter, ReserveRefused
    <2>2. QED
      BY <2>1, MeteredMoves, BudgetParameters DEF Waiting, Running, Unasked
  <1>3. ASSUME NEW c \in Calls, CallGoesOn(c)
        PROVE  Waiting'
    <2>1. Metered(c) /\ pc[c] \in Running /\ UNCHANGED <<at, call>>
      BY <1>3 DEF CallGoesOn, Metered, ReserveCommit, Commit, CallReturns, RecordDrain, RecordUnlink,
                  RecordApply, RecordCommit, RecordToWal, CancelEnter, CancelCommit, CancelNothing,
                  CallRaises, SaveFails, RecordRaises, Running
    <2>2. QED
      BY <2>1, MeteredMoves DEF Waiting, Running, Unasked
  <1>4. ASSUME NEW p \in Processes, Begin(p) \/ Finish(p) \/ AgentAnswers(p) \/ RolledBack(p) \/ Promoted(p) \/ Crash(p)
        PROVE  Waiting'
    <2>1. UNCHANGED <<disk, pc, owner, aged>>
      BY <1>4 DEF Begin, Finish, AgentAnswers, RolledBack, Promoted, Crash, vars, callVars
    <2>2. Base' = Base
      BY <2>1 DEF Base
    <2>3. /\ call' = call \/ call' = [call EXCEPT ![p] = Nobody]
          /\ at' = at \/ \E place \in Places : at' = [at EXCEPT ![p] = place]
      BY <1>4 DEF Begin, Finish, AgentAnswers, RolledBack, Promoted, Crash, MoveTo, Places
    <2>4. \A c \in Calls : owner[c] = p /\ pc[c] \in Running => UNCHANGED <<at, call>>
      <3> SUFFICES ASSUME NEW c \in Calls, owner[c] = p, pc[c] \in Running PROVE UNCHANGED <<at, call>>
        OBVIOUS
      <3>1. at[p] = "iterating" /\ call[p] = c /\ c # Nobody
        BY BudgetParameters DEF Waiting
      <3>2. pc[c] \notin {"done", "walled", "refused", "cancelled", "uncancelled", "unsaved",
                          "unrecorded"}
        BY DEF Running
      <3>3. QED
        BY <1>4, <3>1, <3>2 DEF Begin, Finish, AgentAnswers, RolledBack, Promoted, Crash, Between, Raised, Caught
    <2>5. at' \in [Processes -> Places] /\ call' \in [Processes -> Calls \cup {Nobody}]
      BY <2>3 DEF Waiting
    <2>6. \A c \in Calls : pc[c] \in Running => at'[owner[c]] = at[owner[c]] /\ call'[owner[c]] = call[owner[c]]
      BY <2>3, <2>4 DEF Waiting, FileInv, Typed
    <2>7. QED
      BY <2>1, <2>2, <2>5, <2>6 DEF Waiting
  <1>5. CASE Midnight \/ UNCHANGED allVars
    <2>1. UNCHANGED <<disk, pc, owner, aged, at, call>>
      BY <1>5 DEF Midnight, NewDay, burstVars, allVars, vars, callVars
    <2>2. Base' = Base
      BY <2>1 DEF Base
    <2>3. QED
      BY <2>1, <2>2 DEF Waiting
  <1>6. ASSUME NEW p \in Processes, Interrupted(p)
        PROVE  Waiting'
    <2>1. /\ UNCHANGED <<owner, aged, call>> /\ Base' = Base
          /\ at' = [at EXCEPT ![p] = IF at[p] = "loop" THEN "stopped" ELSE "killed"]
          /\ \A c \in Calls :
                pc'[c] = IF owner[c] = p /\ pc[c] \in Running THEN "dead" ELSE pc[c]
      BY <1>6, InterruptedMoves
    <2>2. \A c \in Calls : pc'[c] \in Running => pc[c] \in Running /\ owner[c] # p
      BY <2>1 DEF Running
    <2>3. \A c \in Calls : pc'[c] \in Unasked => pc[c] \in Unasked
      BY <2>1 DEF Unasked
    <2>4. QED
      BY <2>1, <2>2, <2>3 DEF Waiting, Places, FileInv, Typed
  <1>7. QED
    BY <1>1, <1>2, <1>3, <1>4, <1>5, <1>6 DEF BurstNext

-----------------------------------------------------------------------------
(* What is left behind.                                                    *)

Leaving == {c \in Calls : pc[c] \in Strands}

\* Every call that may leave its reservation was refused something, or was the one call
\* of a process that ended.
Counted == deaths \in Nat /\ refusals \in Nat /\ Cardinality(Leaving) <= deaths + refusals

\* A set with at most one more element.
LEMMA OneMore ==
    ASSUME NEW S, NEW T, NEW e, IsFiniteSet(T), S \subseteq T \cup {e}
    PROVE  Cardinality(S) <= Cardinality(T) + 1
  <1>1. IsFiniteSet(T \cup {e}) /\ Cardinality(T \cup {e}) \in {Cardinality(T), Cardinality(T) + 1}
    BY FS_AddElement
  <1>2. /\ Cardinality(S) <= Cardinality(T \cup {e})
        /\ Cardinality(S) \in Nat /\ Cardinality(T) \in Nat
    BY <1>1, FS_Subset, FS_CardinalityType
  <1>3. QED
    BY <1>1, <1>2

\* No call has been refused anything.
LEMMA CountedInit == BurstInit => Counted
  <1> SUFFICES ASSUME BurstInit PROVE Counted
    OBVIOUS
  <1>1. Leaving = {} /\ deaths = 0 /\ refusals = 0
    BY DEF BurstInit, Init, Leaving, Strands
  <1>2. QED
    BY <1>1, FS_EmptySet DEF Counted

\* A step of a call counts what it is refused.
LEMMA RefusalsCount ==
    ASSUME FileInv, NEW c \in Calls, Metered(c)
    PROVE  /\ deaths' = deaths
           /\ refusals' \in {refusals, refusals + 1}
           /\ pc'[c] \in Strands => refusals' = refusals + 1
  <1>1. CASE \/ \E est \in Estimates : ReserveEnter(c, est) \/ ReserveRefused(c, est)
             \/ ReserveCommit(c) \/ RecordCommit(c) \/ CancelCommit(c)
             \/ \E cost \in 0 .. amount[c] : CallReturns(c, cost)
             \/ CallRaises(c) \/ RecordDrain(c) \/ RecordUnlink(c) \/ RecordApply(c)
             \/ CancelEnter(c) \/ CancelNothing(c)
    <2>1. UNCHANGED <<deaths, refusals>>
      BY <1>1 DEF ReserveEnter, ReserveRefused, ReserveCommit, RecordCommit, CancelCommit, Commit,
           CallReturns, CallRaises, RecordDrain, RecordUnlink, RecordApply, CancelEnter, CancelNothing, bounds
    <2>2. \E label \in Labels \ Strands : pc' = [pc EXCEPT ![c] = label]
      BY <1>1 DEF ReserveEnter, ReserveRefused, ReserveCommit, RecordCommit, CancelCommit, Commit,
           CallReturns, CallRaises, RecordDrain, RecordUnlink, RecordApply, CancelEnter, CancelNothing,
           Goto, Labels, Strands
    <2>3. QED
      BY <2>1, <2>2 DEF FileInv, Typed
  <1>2. CASE RecordToWal(c) \/ LockRefused(c) \/ SaveFails(c) \/ RecordRaises(c)
    BY <1>2 DEF RecordToWal, LockRefused, SaveFails, RecordRaises
  <1>3. QED
    BY <1>1, <1>2 DEF Metered

\* Only refusals and deaths add to what may be left behind, one call each.
LEMMA CountedStep == FileInv /\ Waiting /\ Counted /\ [BurstNext]_allVars => Counted'
  <1> SUFFICES ASSUME FileInv, Waiting, Counted, [BurstNext]_allVars PROVE Counted'
    OBVIOUS
  <1>1. IsFiniteSet(Leaving) /\ Cardinality(Leaving) \in Nat
    BY BudgetParameters, FS_Subset, FS_CardinalityType DEF Leaving
  <1>2. ASSUME NEW c \in Calls, Metered(c)
        PROVE  Counted'
    <2>1. \A d \in Calls \ {c} : pc'[d] = pc[d]
      BY <1>2, MeteredMoves
    <2>2. /\ deaths' = deaths /\ refusals' \in {refusals, refusals + 1}
          /\ pc'[c] \in Strands => refusals' = refusals + 1
      BY <1>2, RefusalsCount
    <2>3. CASE pc'[c] \in Strands
      <3>1. Leaving' \subseteq Leaving \cup {c}
        BY <2>1 DEF Leaving
      <3>2. Cardinality(Leaving') <= Cardinality(Leaving) + 1
        BY <1>1, <3>1, OneMore
      <3>3. Cardinality(Leaving') \in Nat
        BY BudgetParameters, FS_Subset, FS_CardinalityType DEF Leaving
      <3>4. QED
        BY <1>1, <2>2, <2>3, <3>2, <3>3 DEF Counted
    <2>4. CASE pc'[c] \notin Strands
      <3>1. Leaving' \subseteq Leaving
        BY <2>1, <2>4 DEF Leaving
      <3>2. Cardinality(Leaving') <= Cardinality(Leaving) /\ Cardinality(Leaving') \in Nat
        BY <1>1, <3>1, FS_Subset, FS_CardinalityType
      <3>3. QED
        BY <1>1, <2>2, <3>2 DEF Counted
    <2>5. QED
      BY <2>3, <2>4
  <1>3. ASSUME NEW p \in Processes, Interrupted(p), Die(p)
        PROVE  Counted'
    <2>1. \A c \in Calls : pc'[c] = IF owner[c] = p /\ pc[c] \in Running THEN "dead" ELSE pc[c]
      BY <1>3, InterruptedMoves
    <2>2. Leaving' \subseteq Leaving \cup {call[p]}
      BY <2>1 DEF Leaving, Waiting
    <2>3. Cardinality(Leaving') <= Cardinality(Leaving) + 1
      BY <1>1, <2>2, OneMore
    <2>4. Cardinality(Leaving') \in Nat
      BY BudgetParameters, FS_Subset, FS_CardinalityType DEF Leaving
    <2>5. deaths' = deaths + 1 /\ refusals' = refusals
      BY <1>3 DEF Die
    <2>6. QED
      BY <1>1, <2>3, <2>4, <2>5 DEF Counted
  <1>4. CASE UNCHANGED <<pc, deaths, refusals>>
    BY <1>4 DEF Counted, Leaving
  <1>5. \/ \E c \in Calls : Metered(c)
        \/ \E p \in Processes : Interrupted(p) /\ Die(p)
        \/ UNCHANGED <<pc, deaths, refusals>>
    BY BurstMeters DEF Start, NewDay, vars, bounds
  <1>6. QED
    BY <1>2, <1>3, <1>4, <1>5

\* When no burst is inside an iteration, a reservation left in the file is of a call
\* whose lock or write was refused, or whose process ended while it ran, and there is
\* no more than one for each refusal and each end.
THEOREM NoneIsStranded == BurstSpec => []NothingStranded
  <1>1. FileInv /\ Waiting /\ Counted => NothingStranded
    <2> SUFFICES ASSUME FileInv, Waiting, Counted, \A p \in Processes : at[p] # "iterating",
                        disk # NoFile
                 PROVE  LET left == {c \in Calls : disk.pending[c] # 0} IN
                        /\ \A c \in left : pc[c] \in Strands
                        /\ Cardinality(left) <= deaths + refusals
      BY DEF NothingStranded
    <2> DEFINE left == {c \in Calls : disk.pending[c] # 0}
    <2>1. ASSUME NEW c \in left
          PROVE  pc[c] \in Strands
      <3>1. pc[c] \notin Running
        BY DEF Waiting, FileInv, Typed
      <3>2. pc[c] \notin {"idle", "refused", "done", "cancelled"}
        BY DEF Waiting, Unasked, Base, FileInv, Posted
      <3>3. QED
        BY <3>1, <3>2 DEF FileInv, Typed, Labels, Running, Strands
    <2>2. left \subseteq Leaving /\ IsFiniteSet(Leaving)
      BY <2>1, BudgetParameters, FS_Subset DEF Leaving
    <2> HIDE DEF left
    <2>3. Cardinality(left) <= Cardinality(Leaving) /\ Cardinality(left) \in Nat /\ Cardinality(Leaving) \in Nat
      BY <2>2, FS_Subset, FS_CardinalityType
    <2>4. Cardinality(left) <= deaths + refusals
      BY <2>3 DEF Counted
    <2>5. QED
      BY <2>1, <2>4 DEF left
  <1>2. BurstInit => FileInv
    BY FileInit DEF BurstInit
  <1>3. QED
    BY <1>1, <1>2, BurstFileStep, WaitingInit, WaitingStep, CountedInit, CountedStep, PTL DEF BurstSpec

-----------------------------------------------------------------------------
(* The money.                                                              *)

\* What the trackers and the write-ahead log hold.
Trackers ==
    /\ IsFiniteSet(wal) /\ \A r \in wal : r.cost \in Nat
    /\ state \in [Processes -> States]

\* The costs in the write-ahead log add up to an amount.
LEMMA WalCostIsNat ==
    ASSUME Trackers
    PROVE  WalCost \in Nat
  <1> DEFINE f == [r \in wal |-> r.cost]
  <1>1. WalCost = SumOf(f, wal)
    BY DEF WalCost, Sum, SumOf
  <1>2. \A r \in wal : f[r] \in Nat
    BY DEF Trackers
  <1>3. QED
    BY <1>1, <1>2, SumType DEF Trackers

\* An empty write-ahead log adds nothing.
LEMMA NoWalNoCost == wal = {} => WalCost = 0
  <1> SUFFICES ASSUME wal = {} PROVE WalCost = 0
    OBVIOUS
  <1> DEFINE f == [r \in wal |-> r.cost]
  <1>1. WalCost = SumOf(f, {})
    BY DEF WalCost, Sum, SumOf
  <1>2. QED
    BY <1>1, SumEmpty

\* Draining the log keeps the type of a state, and without a log the costs.
LEMMA DrainedState ==
    ASSUME Trackers, day \in AllDays, NEW s \in States
    PROVE  /\ Drained(s) \in States
           /\ wal = {} => Drained(s).cost = s.cost
  <1>1. WalCost \in Nat
    BY WalCostIsNat
  <1> DEFINE half == [s EXCEPT !.cost[day] = @ + WalCost]
             pending == [c \in Calls |-> IF \E r \in wal : r.call = c THEN 0 ELSE half.pending[c]]
  <1>2. half \in States /\ (wal = {} => half.cost = s.cost)
    BY <1>1, NoWalNoCost DEF States
  <1>3. pending \in [Calls -> Nat]
    BY <1>2 DEF States
  <1>4. Drained(s) = [half EXCEPT !.pending = pending]
    BY DEF Drained
  <1> HIDE DEF half, pending
  <1>5. QED
    BY <1>2, <1>3, <1>4 DEF States

\* What a tracker loads is a state, whatever file there is.
LEMMA LoadedState ==
    ASSUME FileInv, NEW s \in States
    PROVE  Loaded(s) \in States
  BY DEF FileInv, Typed, Loaded

\* The log is empty, the trackers are new.
LEMMA TrackersInit == BurstInit => Trackers
  BY FreshIsState, FS_EmptySet DEF BurstInit, Init, Trackers

\* The steps of the calls and the new trackers keep the types of both.
LEMMA TrackersStep == FileInv /\ Trackers /\ [BurstNext]_allVars => Trackers'
  <1> SUFFICES ASSUME FileInv, Trackers, [BurstNext]_allVars PROVE Trackers'
    OBVIOUS
  <1>1. ASSUME NEW p \in Processes, Start(p)
        PROVE  Trackers'
    BY <1>1, LoadedState, FreshIsState DEF Start, Trackers
  <1>2. ASSUME NEW c \in Calls, Metered(c)
        PROVE  Trackers'
    <2> DEFINE loaded == Pruned(Loaded(state[owner[c]]))
    <2>1. /\ owner[c] \in Processes /\ state[owner[c]] \in States /\ loaded \in States
          /\ day \in AllDays /\ actual[c] \in Nat
      BY LoadedState, PrunedState DEF Trackers, FileInv, Typed
    <2> HIDE DEF loaded
    <2>2. ASSUME NEW est \in Estimates, ReserveEnter(c, est) \/ ReserveRefused(c, est)
          PROVE  Trackers'
      <3>1. [loaded EXCEPT !.pending[c] = est] \in States
        BY <2>1, BudgetParameters DEF States
      <3>2. /\ UNCHANGED wal
            /\ \/ state' = state \/ state' = [state EXCEPT ![owner[c]] = loaded]
               \/ state' = [state EXCEPT ![owner[c]] = [loaded EXCEPT !.pending[c] = est]]
        BY <2>2 DEF ReserveEnter, ReserveRefused, SetState, loaded
      <3>3. QED
        BY <2>1, <3>1, <3>2 DEF Trackers
    <2>3. CASE RecordDrain(c)
      <3>1. Drained(state[owner[c]]) \in States
        BY <2>1, DrainedState
      <3>2. UNCHANGED wal /\ state' = [state EXCEPT ![owner[c]] = Drained(state[owner[c]])]
        BY <2>3 DEF RecordDrain, SetState
      <3>3. QED
        BY <3>1, <3>2 DEF Trackers
    <2>4. CASE RecordApply(c)
      <3>1. Cleared(Billed(loaded, actual[c]), c) \in States
        BY <2>1, BilledState, ClearedState
      <3>2. UNCHANGED wal /\ state' = [state EXCEPT ![owner[c]] = Cleared(Billed(loaded, actual[c]), c)]
        BY <2>4 DEF RecordApply, SetState, loaded
      <3>3. QED
        BY <3>1, <3>2 DEF Trackers
    <2>5. CASE CancelEnter(c) \/ CancelNothing(c)
      <3>1. Cleared(loaded, c) \in States
        BY <2>1, ClearedState
      <3>2. /\ UNCHANGED wal
            /\ \/ state' = [state EXCEPT ![owner[c]] = loaded]
               \/ state' = [state EXCEPT ![owner[c]] = Cleared(loaded, c)]
        BY <2>5 DEF CancelEnter, CancelNothing, SetState, loaded
      <3>3. QED
        BY <2>1, <3>1, <3>2 DEF Trackers
    <2>6. CASE RecordToWal(c)
      <3>1. UNCHANGED state /\ wal' = wal \cup {[call |-> c, cost |-> actual[c]]}
        BY <2>6 DEF RecordToWal
      <3>2. IsFiniteSet(wal')
        BY <3>1, FS_AddElement DEF Trackers
      <3>3. QED
        BY <2>1, <3>1, <3>2 DEF Trackers
    <2>7. CASE RecordUnlink(c)
      BY <2>7, FS_EmptySet DEF RecordUnlink, Trackers
    <2>8. CASE \/ ReserveCommit(c) \/ RecordCommit(c) \/ CancelCommit(c) \/ CallRaises(c) \/ LockRefused(c)
               \/ SaveFails(c) \/ RecordRaises(c)
               \/ \E cost \in 0 .. amount[c] : CallReturns(c, cost)
      BY <2>8 DEF ReserveCommit, RecordCommit, CancelCommit, Commit, CallRaises, LockRefused, SaveFails,
                  RecordRaises, CallReturns, Trackers
    <2>9. QED
      BY <1>2, <2>2, <2>3, <2>4, <2>5, <2>6, <2>7, <2>8 DEF Metered
  <1>3. CASE NewDay \/ UNCHANGED vars
    BY <1>3 DEF NewDay, vars, Trackers
  <1>4. ASSUME NEW p \in Processes, Die(p)
        PROVE  Trackers'
    BY <1>4, LoadedState, FreshIsState DEF Die, Trackers
  <1>5. QED
    BY <1>1, <1>2, <1>3, <1>4, BurstMeters

-----------------------------------------------------------------------------
(* What a Curiosity returns.                                               *)

\* The index of the rotation turns round at the number of seeds.
LEMMA Turning ==
    ASSUME NEW S \in Nat \ {0}, NEW i \in 0 .. S - 1, NEW k \in 0 .. S
    PROVE  /\ (i + k) % S = IF i + k < S THEN i + k ELSE i + k - S
           /\ (i + k) % S \in 0 .. S - 1
  OBVIOUS

\* A finite set of numbers has a smallest one.
LEMMA SmallestOf ==
    ASSUME NEW S, IsFiniteSet(S), S \subseteq Int, S # {}
    PROVE  \E k \in S : \A m \in S : k <= m
  <1> DEFINE Good == {T \in SUBSET S : T # {} => \E k \in T : \A m \in T : k <= m}
  <1>1. ASSUME NEW T \in SUBSET S, \A U \in SUBSET T : U # T => U \in Good
        PROVE  T \in Good
    <2> SUFFICES ASSUME T # {} PROVE \E k \in T : \A m \in T : k <= m
      OBVIOUS
    <2>1. PICK e \in T : TRUE
      OBVIOUS
    <2>2. CASE T \ {e} = {}
      BY <2>1, <2>2
    <2>3. CASE T \ {e} # {}
      <3>1. T \ {e} \in Good
        BY <1>1, <2>1
      <3>2. PICK k \in T \ {e} : \A m \in T \ {e} : k <= m
        BY <3>1, <2>3
      <3>3. k \in Int /\ e \in Int
        BY <2>1
      <3>4. CASE k <= e
        BY <3>2, <3>4
      <3>5. CASE e <= k
        BY <3>2, <3>3, <3>5
      <3>6. QED
        BY <3>3, <3>4, <3>5
    <2>4. QED
      BY <2>2, <2>3
  <1>2. S \in Good
    <2> HIDE DEF Good
    <2>1. QED
      BY <1>1, SubsetInduction
  <1>3. QED
    BY <1>2

\* The items, and the states of a Curiosity.
Texts ==
    [about : {"seed"} \cup GapNames, n : Nat, salt : Salts \cup {0}, tries : Nat]

Minds == [seeds : Nat \ {0}, followups : Seq(Texts), recent : Seq(Texts), index : Nat]

Minded(c) == c \in Minds /\ c.index < c.seeds /\ Len(c.recent) <= RecentMax

Remembers(c, seed) == \E j \in DOMAIN c.recent : c.recent[j] = SeedText(seed)

\* A follow-up, a gap, the next seed that is not in recent, or any seed when all are.
Followed(c, next) ==
    /\ c.followups # <<>>
    /\ next.text = Head(c.followups)
    /\ next.then = [c EXCEPT !.followups = Tail(@)]

Gapped(c, next) ==
    /\ c.followups = <<>>
    /\ next.text \in Texts /\ next.text.about # "seed" /\ next.text.tries = 0
    /\ next.then = c

Rotated(c, next) ==
    /\ c.followups = <<>>
    /\ \E k \in 0 .. c.seeds - 1 :
          LET seed(m) == (c.index + m) % c.seeds IN
          /\ next.text = SeedText(seed(k)) /\ ~Remembers(c, seed(k))
          /\ \A m \in 0 .. k - 1 : Remembers(c, seed(m))
          /\ next.then = [c EXCEPT !.index = seed(k + 1)]

Repeated(c, next) ==
    /\ c.followups = <<>>
    /\ \A seed \in 0 .. c.seeds - 1 : Remembers(c, seed)
    /\ next.then = c
    /\ \E seed \in 0 .. c.seeds - 1 : next.text = SeedText(seed)

\* A seed is a text.
LEMMA SeedIsText == \A n \in Nat : SeedText(n) \in Texts
  BY DEF SeedText, Texts

\* The item for the smallest tier is a text that is neither a seed nor a retry.
LEMMA GapsAreTexts ==
    ASSUME NEW live \in [GapNames -> Nat], NEW text \in GapDriven(live)
    PROVE  text \in Texts /\ text.about # "seed" /\ text.tries = 0
  <1> DEFINE least(n) == \A m \in DOMAIN GapTiers :
                 \/ live[GapTiers[n]] < live[GapTiers[m]]
                 \/ live[GapTiers[n]] = live[GapTiers[m]] /\ n <= m
             n == CHOOSE n \in DOMAIN GapTiers : least(n)
  <1>1. DOMAIN GapTiers = {1, 2, 3} /\ GapTiers[1] = "episodic" /\ GapTiers[2] = "semantic" /\ GapTiers[3] = "procedural"
    BY DEF GapTiers
  <1>2. GapNames = {"episodic", "semantic", "procedural"}
    BY <1>1 DEF GapNames
  <1>3. \E k \in DOMAIN GapTiers : least(k)
    <2>1. live["episodic"] \in Nat /\ live["semantic"] \in Nat /\ live["procedural"] \in Nat
      BY <1>2
    <2>2. QED
      BY <1>1, <2>1
  <1>4. n \in DOMAIN GapTiers
    BY <1>3
  <1> DEFINE fewest == live[GapTiers[n]]
  <1>5. GapDriven(live) = IF fewest > GapLimit THEN {} ELSE {GapText(GapTiers[n], fewest, salt) : salt \in Salts}
    BY DEF GapDriven
  <1>6. GapTiers[n] \in GapNames /\ fewest \in Nat
    BY <1>4 DEF GapNames
  <1> HIDE DEF n, fewest
  <1>7. PICK salt \in Salts : text = GapText(GapTiers[n], fewest, salt)
    BY <1>5
  <1>8. QED
    BY <1>2, <1>6, <1>7 DEF GapText, Texts

\* The rotation takes the first seed from its index on that is not in recent, and any
\* seed when recent has them all.
LEMMA RotationCases ==
    ASSUME NEW c, Minded(c), c.followups = <<>>, NEW next \in SeedRotation(c)
    PROVE  Rotated(c, next) \/ Repeated(c, next)
  <1> DEFINE seed(k) == (c.index + k) % c.seeds
             isRecent(text) == \E n \in DOMAIN c.recent : c.recent[n] = text
             open == {k \in 0 .. c.seeds - 1 : ~isRecent(SeedText(seed(k)))}
             first == CHOOSE k \in open : \A m \in open : k <= m
  <1>1. c.seeds \in Nat \ {0} /\ c.index \in 0 .. c.seeds - 1
    BY DEF Minded, Minds
  <1>2. \A k \in 0 .. c.seeds :
           /\ seed(k) = IF c.index + k < c.seeds THEN c.index + k ELSE c.index + k - c.seeds
           /\ seed(k) \in 0 .. c.seeds - 1
    <2> SUFFICES ASSUME NEW k \in 0 .. c.seeds
                 PROVE  /\ seed(k) = IF c.index + k < c.seeds THEN c.index + k ELSE c.index + k - c.seeds
                        /\ seed(k) \in 0 .. c.seeds - 1
      OBVIOUS
    <2>1. QED
      BY <1>1, Turning
  <1>3. \A k : isRecent(SeedText(seed(k))) <=> Remembers(c, seed(k))
    BY DEF Remembers
  <1>4. open = {k \in 0 .. c.seeds - 1 : ~Remembers(c, seed(k))}
    BY <1>3
  <1>5. next \in IF open = {}
                 THEN {[text |-> SeedText(seed(k)), then |-> c] : k \in 0 .. c.seeds - 1}
                 ELSE {[text |-> SeedText(seed(first)), then |-> [c EXCEPT !.index = (c.index + first + 1) % c.seeds]]}
    BY DEF SeedRotation
  <1>6. CASE open = {}
    <2> HIDE DEF open, seed, first
    <2>1. PICK k \in 0 .. c.seeds - 1 : next = [text |-> SeedText(seed(k)), then |-> c]
      BY <1>5, <1>6
    <2>2. seed(k) \in 0 .. c.seeds - 1
      BY <1>1, <1>2
    <2>3. ASSUME NEW s \in 0 .. c.seeds - 1
          PROVE  \E m \in 0 .. c.seeds - 1 : seed(m) = s
      <3> DEFINE m == IF s >= c.index THEN s - c.index ELSE s - c.index + c.seeds
      <3>1. m \in 0 .. c.seeds - 1
        BY <1>1
      <3>2. seed(m) = s
        BY <1>1, <1>2, <3>1
      <3>3. QED
        BY <3>1, <3>2
    <2>4. \A s \in 0 .. c.seeds - 1 : Remembers(c, s)
      BY <1>4, <1>6, <2>3
    <2>5. QED
      BY <2>1, <2>2, <2>4 DEF Repeated
  <1>7. CASE open # {}
    <2>1. IsFiniteSet(open) /\ open \subseteq Int
      <3>1. IsFiniteSet(0 .. c.seeds - 1) /\ 0 .. c.seeds - 1 \subseteq Int
        BY <1>1, FS_Interval
      <3>2. open \subseteq 0 .. c.seeds - 1
        BY <1>4
      <3> HIDE DEF open
      <3>3. QED
        BY <3>1, <3>2, FS_Subset
    <2>2. \E k \in open : \A m \in open : k <= m
      <3> HIDE DEF open
      <3>1. QED
        BY <1>7, <2>1, SmallestOf
    <2>3. first \in open /\ \A m \in open : first <= m
      BY <2>2
    <2> HIDE DEF first, open, seed
    <2>4. next = [text |-> SeedText(seed(first)), then |-> [c EXCEPT !.index = (c.index + first + 1) % c.seeds]]
      BY <1>5, <1>7
    <2>5. first \in 0 .. c.seeds - 1 /\ ~Remembers(c, seed(first))
      BY <1>4, <2>3
    <2>6. \A m \in 0 .. first - 1 : Remembers(c, seed(m))
      BY <1>1, <1>4, <2>3, <2>5
    <2>7. c.index + first + 1 = c.index + (first + 1)
      BY <1>1, <2>5
    <2>8. QED
      BY <1>7, <2>4, <2>5, <2>6, <2>7 DEF Rotated, seed
  <1>8. QED
    BY <1>6, <1>7

\* next() has four outcomes.
LEMMA NextCases ==
    ASSUME NEW c, Minded(c), NEW live \in [GapNames -> Nat], NEW next \in NextItems(c, live)
    PROVE  Followed(c, next) \/ Gapped(c, next) \/ Rotated(c, next) \/ Repeated(c, next)
  <1>1. CASE c.followups # <<>>
    <2>1. next = [text |-> Head(c.followups), then |-> [c EXCEPT !.followups = Tail(@)]]
      BY <1>1 DEF NextItems
    <2>2. QED
      BY <1>1, <2>1 DEF Followed
  <1>2. CASE c.followups = <<>> /\ GapDriven(live) # {}
    BY <1>2, GapsAreTexts DEF NextItems, Gapped
  <1>3. CASE c.followups = <<>> /\ GapDriven(live) = {}
    <2>1. next \in SeedRotation(c)
      BY <1>3 DEF NextItems
    <2>2. QED
      BY <1>3, <2>1, RotationCases
  <1>4. QED
    BY <1>1, <1>2, <1>3

\* Whichever item next() returns, the Curiosity stays one of as many seeds.
LEMMA NextMinded ==
    ASSUME NEW c, Minded(c), NEW next,
           Followed(c, next) \/ Gapped(c, next) \/ Rotated(c, next) \/ Repeated(c, next)
    PROVE  next.text \in Texts /\ Minded(next.then) /\ next.then.seeds = c.seeds
  <1>1. CASE Followed(c, next)
    <2>1. c \in Minds /\ c.followups \in Seq(Texts) /\ c.followups # <<>>
      BY <1>1 DEF Followed, Minded, Minds
    <2> DEFINE tail == Tail(c.followups)
    <2>2. Head(c.followups) \in Texts /\ tail \in Seq(Texts)
      BY <2>1, HeadTailProperties
    <2>3. next.text = Head(c.followups) /\ next.then = [c EXCEPT !.followups = tail]
      BY <1>1 DEF Followed
    <2> HIDE DEF tail
    <2>4. /\ next.then \in Minds /\ next.then.seeds = c.seeds
          /\ next.then.index = c.index /\ next.then.recent = c.recent
      BY <2>1, <2>2, <2>3 DEF Minds
    <2>5. QED
      BY <2>2, <2>3, <2>4 DEF Minded
  <1>2. CASE Gapped(c, next)
    BY <1>2 DEF Gapped
  <1>3. CASE Repeated(c, next)
    BY <1>3, SeedIsText DEF Repeated, Minded, Minds
  <1>4. CASE Rotated(c, next)
    <2>1. PICK k \in 0 .. c.seeds - 1 :
             /\ next.text = SeedText((c.index + k) % c.seeds)
             /\ next.then = [c EXCEPT !.index = (c.index + (k + 1)) % c.seeds]
      BY <1>4 DEF Rotated
    <2>2. /\ c.seeds \in Nat \ {0}
          /\ (c.index + k) % c.seeds \in 0 .. c.seeds - 1
          /\ (c.index + (k + 1)) % c.seeds \in 0 .. c.seeds - 1
      BY <2>1, Turning DEF Minded, Minds
    <2> DEFINE index == (c.index + (k + 1)) % c.seeds
    <2>3. next.then = [c EXCEPT !.index = index] /\ index \in 0 .. c.seeds - 1
      BY <2>1, <2>2
    <2> HIDE DEF index
    <2>4. index \in Nat /\ index < c.seeds
      BY <2>2, <2>3
    <2>5. next.then \in Minds
      BY <2>3, <2>4 DEF Minded, Minds
    <2>6. next.then.seeds = c.seeds /\ next.then.index = index /\ next.then.recent = c.recent
      BY <2>3 DEF Minded, Minds
    <2>7. QED
      BY <2>1, <2>2, <2>4, <2>5, <2>6, SeedIsText DEF Minded
  <1>5. QED
    BY <1>1, <1>2, <1>3, <1>4

-----------------------------------------------------------------------------
(* What a step of the program is to one burst.                             *)

Outcomes == {"promoted", "rolled-back"}

RowRecords == [item : Texts, outcome : Outcomes, cost : Int]

\* Every burst has a mind of its own.
Shaped ==
    /\ DOMAIN at = Processes /\ DOMAIN curiosity = Processes /\ DOMAIN counts = Processes
    /\ DOMAIN item = Processes /\ DOMAIN before = Processes /\ DOMAIN rows = Processes

\* What a step is to the mind of a burst: nothing,
Rests(p) ==
    /\ curiosity'[p] = curiosity[p] /\ counts'[p] = counts[p] /\ item'[p] = item[p]
    /\ before'[p] = before[p] /\ rows'[p] = rows[p]
    /\ \/ at'[p] = at[p]
       \/ <<at[p], at'[p]>> \in {<<"new", "loop">>, <<"loop", "finished">>, <<"iterating", "crashed">>,
                                <<"loop", "stopped">>, <<"iterating", "killed">>}

\* the choice of the next item,
Begins(p) ==
    /\ at[p] = "loop" /\ at'[p] = "iterating"
    /\ \E next \in NextItems(curiosity[p], counts[p]) :
          item'[p] = next.text /\ curiosity'[p] = next.then
    /\ before'[p] = TodayCost(p) /\ counts'[p] = counts[p] /\ rows'[p] = rows[p]

\* or the record of an outcome and a row.
Ends(p, outcome) ==
    /\ at[p] = "iterating" /\ at'[p] = "loop"
    /\ rows'[p] = Append(rows[p], Row(p, outcome))
    /\ curiosity'[p] = IF outcome = "promoted" THEN RecordPromoted(curiosity[p], item[p])
                       ELSE RecordRollback(curiosity[p], item[p])
    /\ counts'[p] = counts[p] \/ counts'[p] = [counts[p] EXCEPT !.episodic = @ + 1]
    /\ item'[p] = item[p] /\ before'[p] = before[p]

BurstView(p) == Rests(p) \/ Begins(p) \/ \E outcome \in Outcomes : Ends(p, outcome)

\* To one burst a step begins an iteration, ends one, or leaves its mind alone.
LEMMA BurstViews == Shaped /\ Waiting /\ [BurstNext]_allVars => Shaped' /\ \A p \in Processes : BurstView(p)
  <1> SUFFICES ASSUME Shaped, Waiting, [BurstNext]_allVars
               PROVE  Shaped' /\ \A q \in Processes : BurstView(q)
    OBVIOUS
  <1>1. ASSUME NEW p \in Processes, Start(p) \/ Finish(p) \/ Crash(p)
        PROVE  Shaped' /\ \A q \in Processes : Rests(q)
    <2>1. UNCHANGED <<curiosity, counts, item, before, rows>>
      BY <1>1 DEF Start, Finish, Crash
    <2>2. PICK place \in {"loop", "finished", "crashed"} :
            /\ at' = [at EXCEPT ![p] = place]
            /\ at[p] = IF place = "loop" THEN "new" ELSE IF place = "finished" THEN "loop" ELSE "iterating"
      <3>1. CASE Start(p)
        BY <3>1 DEF Start, MoveTo
      <3>2. CASE Finish(p)
        BY <3>2 DEF Finish, MoveTo
      <3>3. CASE Crash(p)
        BY <3>3 DEF Crash, Raised, MoveTo
      <3>4. QED
        BY <1>1, <3>1, <3>2, <3>3
    <2>3. QED
      BY <2>1, <2>2 DEF Shaped, Rests
  <1>2. ASSUME NEW p \in Processes, Begin(p)
        PROVE  Shaped' /\ Begins(p) /\ \A q \in Processes \ {p} : Rests(q)
    <2>1. PICK next \in NextItems(curiosity[p], counts[p]) :
            /\ item' = [item EXCEPT ![p] = next.text] /\ curiosity' = [curiosity EXCEPT ![p] = next.then]
            /\ before' = [before EXCEPT ![p] = TodayCost(p)]
            /\ at[p] = "loop" /\ at' = [at EXCEPT ![p] = "iterating"]
            /\ UNCHANGED <<counts, rows>>
      BY <1>2 DEF Begin, MoveTo
    <2>2. QED
      BY <2>1 DEF Shaped, Rests, Begins
  <1>3. ASSUME NEW p \in Processes, RolledBack(p) \/ Promoted(p)
        PROVE  Shaped' /\ (\E outcome \in Outcomes : Ends(p, outcome)) /\ \A q \in Processes \ {p} : Rests(q)
    <2>1. PICK outcome \in Outcomes :
            /\ at[p] = "iterating" /\ at' = [at EXCEPT ![p] = "loop"]
            /\ rows' = [rows EXCEPT ![p] = Append(@, Row(p, outcome))]
            /\ curiosity' = [curiosity EXCEPT ![p] = IF outcome = "promoted" THEN RecordPromoted(@, item[p])
                                                     ELSE RecordRollback(@, item[p])]
            /\ counts' = counts \/ counts' = [counts EXCEPT ![p].episodic = @ + 1]
            /\ UNCHANGED <<item, before>>
      BY <1>3 DEF RolledBack, Promoted, Caught, Raised, Between, MoveTo, Outcomes
    <2>2. QED
      BY <2>1 DEF Shaped, Rests, Ends
  <1>4. ASSUME NEW p \in Processes, AgentCalls(p) \/ AgentAnswers(p)
        PROVE  Shaped' /\ \A q \in Processes : Rests(q)
    BY <1>4 DEF AgentCalls, AgentAnswers, Shaped, Rests
  <1>5. ASSUME NEW c \in Calls, CallGoesOn(c)
        PROVE  Shaped' /\ \A q \in Processes : Rests(q)
    BY <1>5 DEF CallGoesOn, Shaped, Rests
  <1>6. ASSUME Midnight \/ UNCHANGED allVars
        PROVE  Shaped' /\ \A q \in Processes : Rests(q)
    BY <1>6 DEF Midnight, burstVars, allVars, Shaped, Rests
  <1>7. ASSUME Shaped', NEW p \in Processes, BurstView(p), \A q \in Processes \ {p} : Rests(q)
        PROVE  Shaped' /\ \A q \in Processes : BurstView(q)
    BY <1>7 DEF BurstView
  <1>8. ASSUME Shaped', \A q \in Processes : Rests(q)
        PROVE  Shaped' /\ \A q \in Processes : BurstView(q)
    BY <1>8 DEF BurstView
  <1>9. CASE \E p \in Processes : Begin(p) \/ RolledBack(p) \/ Promoted(p)
    BY <1>2, <1>3, <1>7, <1>9 DEF BurstView
  <1>10. CASE \/ \E p \in Processes : Start(p) \/ Finish(p) \/ Crash(p) \/ AgentCalls(p) \/ AgentAnswers(p)
              \/ \E c \in Calls : CallGoesOn(c)
    BY <1>1, <1>4, <1>5, <1>8, <1>10
  <1>11. ASSUME NEW p \in Processes, Interrupted(p)
         PROVE  Shaped' /\ \A q \in Processes : Rests(q)
    <2>1. /\ at[p] \in {"loop", "iterating"} /\ UNCHANGED <<curiosity, counts, item, before, rows>>
          /\ at' = [at EXCEPT ![p] = IF at[p] = "loop" THEN "stopped" ELSE "killed"]
      BY <1>11 DEF Interrupted, MoveTo
    <2>2. QED
      BY <2>1 DEF Shaped, Rests
  <1>12. QED
    BY <1>6, <1>8, <1>9, <1>10, <1>11 DEF BurstNext

\* new ends with t, and before it has what it keeps of q, each one place older.
Extends(new, q, t) ==
    /\ Len(new) \in 1 .. Len(q) + 1 /\ new[Len(new)] = t
    /\ \A j \in 1 .. Len(new) - 1 :
          \E i \in 1 .. Len(q) : new[j] = q[i] /\ Len(new) - j = Len(q) - i + 1

\* A deque with maxlen drops its oldest item, keeps the order and ends with the new one.
LEMMA PushedIn ==
    ASSUME NEW S, NEW q \in Seq(S), NEW t \in S, NEW max \in Nat \ {0}, Len(q) <= max
    PROVE  /\ Pushed(q, t, max) \in Seq(S) /\ Len(Pushed(q, t, max)) <= max
           /\ Extends(Pushed(q, t, max), q, t)
  <1> DEFINE longer == Append(q, t)
             new == Pushed(q, t, max)
  <1>1. /\ longer \in Seq(S) /\ Len(longer) = Len(q) + 1 /\ longer[Len(q) + 1] = t
        /\ \A i \in 1 .. Len(q) : longer[i] = q[i]
    BY AppendProperties
  <1>2. Len(q) \in Nat
    OBVIOUS
  <1>3. new = IF Len(longer) > max THEN Tail(longer) ELSE longer
    BY DEF Pushed
  <1> HIDE DEF longer, new
  <1>4. CASE Len(longer) > max
    <2>1. longer # <<>>
      BY <1>1, <1>2
    <2>2. new \in Seq(S) /\ Len(new) = Len(q) /\ \A j \in 1 .. Len(new) : new[j] = longer[j + 1]
      BY <1>1, <1>2, <1>3, <1>4, <2>1, HeadTailProperties
    <2>3. Len(q) = max
      BY <1>1, <1>2, <1>4
    <2>4. new[Len(new)] = t
      BY <1>1, <1>2, <2>2, <2>3
    <2>5. ASSUME NEW j \in 1 .. Len(new) - 1
          PROVE  \E i \in 1 .. Len(q) : new[j] = q[i] /\ Len(new) - j = Len(q) - i + 1
      <3>1. j + 1 \in 1 .. Len(q) /\ new[j] = q[j + 1]
        BY <1>1, <1>2, <2>2
      <3>2. QED
        BY <1>2, <2>2, <3>1
    <2>6. QED
      BY <1>2, <2>2, <2>3, <2>4, <2>5 DEF new, Extends
  <1>5. CASE ~(Len(longer) > max)
    <2>1. new = longer
      BY <1>3, <1>5
    <2>2. ASSUME NEW j \in 1 .. Len(new) - 1
          PROVE  \E i \in 1 .. Len(q) : new[j] = q[i] /\ Len(new) - j = Len(q) - i + 1
      BY <1>1, <1>2, <2>1
    <2>3. QED
      BY <1>1, <1>2, <1>5, <2>1, <2>2 DEF new, Extends
  <1>6. QED
    BY <1>4, <1>5

-----------------------------------------------------------------------------
(* Turns.                                                                  *)

\* A turn of a seed is an iteration on it that is not a retry.  v is what a burst worked
\* on, in order, and c its Curiosity.
IsTurn(text) == text.about = "seed" /\ text.tries = 0

TurnsOf(v) == {n \in DOMAIN v : IsTurn(v[n])}

After(v, n) == Cardinality({m \in TurnsOf(v) : m > n})

Window(c) == IF c.seeds > RecentMax THEN c.seeds ELSE c.seeds + RecentMax

\* How far the rotation is from a seed.
Ahead(c, seed) == IF seed >= c.index THEN seed - c.index ELSE seed - c.index + c.seeds

AreSeeds(v, c) == \A n \in TurnsOf(v) : v[n].n \in 0 .. c.seeds - 1

\* What recent holds had a turn, no earlier than its place in recent says; late is 1
\* while the last item is not recorded.
Recalled(v, c, late) ==
    \A j \in DOMAIN c.recent, seed \in 0 .. c.seeds - 1 : c.recent[j] = SeedText(seed) =>
        \E n \in TurnsOf(v) : v[n].n = seed /\ After(v, n) <= Len(c.recent) - j + late

\* A seed that had no turn since n is so near in the rotation that it comes up in time.
Bounded(v, c) ==
    \A seed \in 0 .. c.seeds - 1, n \in 0 .. Len(v) :
        (\A m \in TurnsOf(v) : m > n => v[m].n # seed) => After(v, n) + Ahead(c, seed) <= Window(c) - 1

\* With more seeds than recent holds the rotation is strict: the turns since a seed's
\* last one and those until its next one make a round.
InOrder(v, c) ==
    c.seeds > RecentMax => \A n \in TurnsOf(v) : After(v, n) + Ahead(c, v[n].n) >= c.seeds - 1

\* The window the property speaks of, anywhere in what the burst worked on.
PastTurns(v, c) ==
    \A seed \in 0 .. c.seeds - 1, to \in 0 .. Len(v) : \A from \in 0 .. to :
        LET turns == {m \in TurnsOf(v) : from < m /\ m <= to} IN
        (\A m \in turns : v[m].n # seed) => Cardinality(turns) <= Window(c) - 1

Fair(v, c, late) ==
    AreSeeds(v, c) /\ Recalled(v, c, late) /\ Bounded(v, c) /\ InOrder(v, c) /\ PastTurns(v, c)

\* One more item is one more turn, if it is a seed for the first time.
LEMMA TurnsAppended ==
    ASSUME NEW v \in Seq(Texts), NEW t \in Texts
    PROVE  LET w == Append(v, t)  n == Len(v) + 1 IN
           /\ w \in Seq(Texts) /\ Len(w) = n /\ w[n] = t
           /\ \A m \in 1 .. Len(v) : w[m] = v[m]
           /\ TurnsOf(v) \subseteq 1 .. Len(v)
           /\ TurnsOf(w) = IF IsTurn(t) THEN TurnsOf(v) \cup {n} ELSE TurnsOf(v)
           /\ \A k \in 0 .. Len(v) :
                 After(v, k) \in Nat /\ After(w, k) = IF IsTurn(t) THEN After(v, k) + 1 ELSE After(v, k)
           /\ After(w, n) = 0
  <1> DEFINE w == Append(v, t)
             n == Len(v) + 1
  <1>1. w \in Seq(Texts) /\ Len(w) = n /\ w[n] = t /\ \A m \in 1 .. Len(v) : w[m] = v[m]
    BY AppendProperties
  <1>2. Len(v) \in Nat /\ DOMAIN v = 1 .. Len(v) /\ DOMAIN w = 1 .. n
    BY <1>1
  <1> HIDE DEF w
  <1>3. TurnsOf(v) \subseteq 1 .. Len(v)
    BY <1>2 DEF TurnsOf
  <1>4. TurnsOf(w) = IF IsTurn(t) THEN TurnsOf(v) \cup {n} ELSE TurnsOf(v)
    BY <1>1, <1>2 DEF TurnsOf
  <1>5. ASSUME NEW k \in 0 .. Len(v)
        PROVE  After(v, k) \in Nat /\ After(w, k) = IF IsTurn(t) THEN After(v, k) + 1 ELSE After(v, k)
    <2> DEFINE late == {m \in TurnsOf(v) : m > k}
    <2>1. IsFiniteSet(late)
      <3>1. late \in SUBSET (1 .. Len(v))
        BY <1>3
      <3>2. IsFiniteSet(1 .. Len(v))
        BY <1>2, FS_Interval
      <3> HIDE DEF late
      <3>3. QED
        BY <3>1, <3>2, FS_Subset
    <2>2. Cardinality(late) \in Nat
      BY <2>1, FS_CardinalityType
    <2>3. {m \in TurnsOf(w) : m > k} = IF IsTurn(t) THEN late \cup {n} ELSE late
      BY <1>2, <1>4
    <2>4. n \notin late
      BY <1>2, <1>3
    <2>5. Cardinality(late \cup {n}) = Cardinality(late) + 1
      BY <2>1, <2>4, FS_AddElement
    <2> HIDE DEF late
    <2>6. After(v, k) = Cardinality(late)
      BY DEF After, late
    <2>7. QED
      BY <2>2, <2>3, <2>5, <2>6 DEF After
  <1>6. After(w, n) = 0
    <2>1. {m \in TurnsOf(w) : m > n} = {}
      BY <1>2, <1>3, <1>4
    <2>2. QED
      BY <2>1, FS_EmptySet DEF After
  <1>7. QED
    BY <1>1, <1>3, <1>4, <1>5, <1>6 DEF w

\* The later the item, the fewer turns come after it.
LEMMA LaterIsFewer ==
    ASSUME NEW v \in Seq(Texts), NEW m \in 0 .. Len(v), NEW k \in 0 .. Len(v), m <= k
    PROVE  After(v, k) <= After(v, m)
  <1> DEFINE S == {i \in TurnsOf(v) : i > k}
             T == {i \in TurnsOf(v) : i > m}
  <1>1. TurnsOf(v) \subseteq 1 .. Len(v)
    BY DEF TurnsOf
  <1>2. T \in SUBSET (1 .. Len(v)) /\ S \in SUBSET T
    BY <1>1
  <1>3. IsFiniteSet(1 .. Len(v))
    BY FS_Interval
  <1> HIDE DEF S, T
  <1>4. IsFiniteSet(T)
    BY <1>2, <1>3, FS_Subset
  <1>5. Cardinality(S) <= Cardinality(T)
    BY <1>2, <1>4, FS_Subset
  <1>6. QED
    BY <1>5 DEF After, S, T

\* A window of turns ends with the last item, or lies before it.
LEMMA PastAppended ==
    ASSUME NEW v \in Seq(Texts), NEW t \in Texts, NEW c, NEW d, Minded(c), Minded(d), d.seeds = c.seeds,
           PastTurns(v, c), Bounded(Append(v, t), d)
    PROVE  PastTurns(Append(v, t), d)
  <1> DEFINE w == Append(v, t)
  <1>1. /\ Len(w) = Len(v) + 1 /\ \A m \in 1 .. Len(v) : w[m] = v[m]
        /\ TurnsOf(v) \subseteq 1 .. Len(v) /\ TurnsOf(w) \subseteq 1 .. Len(w)
        /\ \A m \in 1 .. Len(v) : m \in TurnsOf(w) <=> m \in TurnsOf(v)
        /\ \A k \in 0 .. Len(w) : After(w, k) \in Nat
    <2>1. /\ Len(w) = Len(v) + 1 /\ \A m \in 1 .. Len(v) : w[m] = v[m]
          /\ TurnsOf(v) \subseteq 1 .. Len(v)
          /\ TurnsOf(w) = IF IsTurn(t) THEN TurnsOf(v) \cup {Len(v) + 1} ELSE TurnsOf(v)
          /\ \A k \in 0 .. Len(v) :
                After(v, k) \in Nat /\ After(w, k) = IF IsTurn(t) THEN After(v, k) + 1 ELSE After(v, k)
          /\ After(w, Len(v) + 1) = 0
      BY TurnsAppended
    <2> HIDE DEF w
    <2>2. QED
      BY <2>1
  <1>2. Len(v) \in Nat
    OBVIOUS
  <1>3. c.seeds \in Nat \ {0} /\ d.index \in 0 .. c.seeds - 1 /\ Window(d) = Window(c) /\ Window(c) \in Nat
    BY CuriosityParameters DEF Minded, Minds, Window
  <1> HIDE DEF w
  <1> SUFFICES ASSUME NEW seed \in 0 .. d.seeds - 1, NEW to \in 0 .. Len(w), NEW from \in 0 .. to,
                      \A m \in {m \in TurnsOf(w) : from < m /\ m <= to} : w[m].n # seed
               PROVE  Cardinality({m \in TurnsOf(w) : from < m /\ m <= to}) <= Window(d) - 1
    BY DEF PastTurns, w
  <1> DEFINE turns == {m \in TurnsOf(w) : from < m /\ m <= to}
  <1>4. CASE to \in 0 .. Len(v)
    <2>1. turns = {m \in TurnsOf(v) : from < m /\ m <= to}
      BY <1>1, <1>2, <1>4
    <2>2. \A m \in {m \in TurnsOf(v) : from < m /\ m <= to} : v[m].n # seed
      BY <1>1, <1>4
    <2>3. Cardinality({m \in TurnsOf(v) : from < m /\ m <= to}) <= Window(c) - 1
      BY <1>4, <2>2 DEF PastTurns
    <2>4. QED
      BY <1>3, <2>1, <2>3
  <1>5. CASE to = Len(w)
    <2>1. turns = {m \in TurnsOf(w) : m > from}
      BY <1>1, <1>2, <1>5
    <2>2. \A m \in TurnsOf(w) : m > from => w[m].n # seed
      BY <2>1
    <2>3. from \in 0 .. Len(w)
      BY <1>1, <1>5
    <2>4. After(w, from) + Ahead(d, seed) <= Window(d) - 1
      BY <2>2, <2>3 DEF Bounded, w
    <2>5. Cardinality(turns) = After(w, from) /\ After(w, from) \in Nat
      BY <1>1, <2>1, <2>3 DEF After
    <2>6. Ahead(d, seed) \in Nat
      BY <1>3 DEF Ahead
    <2> HIDE DEF turns
    <2>7. Cardinality(turns) <= Window(d) - 1
      BY <1>3, <2>4, <2>5, <2>6
    <2>8. QED
      BY <2>7 DEF turns
  <1>6. QED
    BY <1>1, <1>2, <1>4, <1>5

\* An iteration on something else than a seed.
LEMMA OtherFair ==
    ASSUME NEW v \in Seq(Texts), NEW t \in Texts, ~IsTurn(t), NEW c, Minded(c), NEW late, Fair(v, c, late)
    PROVE  Fair(Append(v, t), c, late)
  <1> DEFINE w == Append(v, t)
  <1>1. /\ Len(w) = Len(v) + 1 /\ \A m \in 1 .. Len(v) : w[m] = v[m]
        /\ TurnsOf(v) \subseteq 1 .. Len(v) /\ TurnsOf(w) = TurnsOf(v)
        /\ \A k \in 0 .. Len(v) : After(w, k) = After(v, k)
        /\ After(w, Len(w)) = 0
    BY TurnsAppended
  <1>2. Len(v) \in Nat
    OBVIOUS
  <1>3. c.seeds \in Nat \ {0} /\ c.index \in 0 .. c.seeds - 1 /\ Window(c) >= c.seeds /\ Window(c) \in Nat
    BY CuriosityParameters DEF Minded, Minds, Window
  <1> HIDE DEF w
  <1>4. AreSeeds(w, c)
    BY <1>1 DEF Fair, AreSeeds
  <1>5. Recalled(w, c, late)
    <2>1. \A n \in TurnsOf(v) : w[n] = v[n] /\ After(w, n) = After(v, n)
      BY <1>1, <1>2
    <2>2. QED
      BY <1>1, <2>1 DEF Fair, Recalled
  <1>6. Bounded(w, c)
    <2> SUFFICES ASSUME NEW seed \in 0 .. c.seeds - 1, NEW n \in 0 .. Len(w),
                        \A m \in TurnsOf(w) : m > n => w[m].n # seed
                 PROVE  After(w, n) + Ahead(c, seed) <= Window(c) - 1
      BY DEF Bounded
    <2>1. CASE n = Len(w)
      BY <1>1, <1>3, <2>1 DEF Ahead
    <2>2. CASE n # Len(w)
      <3>1. n \in 0 .. Len(v) /\ \A m \in TurnsOf(v) : m > n => v[m].n # seed
        BY <1>1, <1>2, <2>2
      <3>2. QED
        BY <1>1, <3>1 DEF Fair, Bounded
    <2>3. QED
      BY <2>1, <2>2
  <1>7. InOrder(w, c)
    BY <1>1, <1>2 DEF Fair, InOrder
  <1>8. PastTurns(w, c)
    BY <1>6, PastAppended DEF Fair, w
  <1>9. QED
    BY <1>4, <1>5, <1>6, <1>7, <1>8 DEF Fair, w

\* What recent holds had its turn lately.
LEMMA RememberedLately ==
    ASSUME NEW v \in Seq(Texts), NEW c, Minded(c), Recalled(v, c, 0),
           NEW seed \in 0 .. c.seeds - 1, Remembers(c, seed)
    PROVE  \E n \in TurnsOf(v) : v[n].n = seed /\ After(v, n) <= RecentMax - 1
  <1>1. PICK j \in DOMAIN c.recent : c.recent[j] = SeedText(seed)
    BY DEF Remembers
  <1>2. PICK n \in TurnsOf(v) : v[n].n = seed /\ After(v, n) <= Len(c.recent) - j + 0
    BY <1>1 DEF Recalled
  <1>3. Len(c.recent) <= RecentMax /\ Len(c.recent) \in Nat /\ j \in 1 .. Len(c.recent)
    BY DEF Minded, Minds
  <1>4. After(v, n) \in Nat
    BY TurnsAppended, SeedIsText DEF TurnsOf
  <1>5. QED
    BY <1>2, <1>3, <1>4, CuriosityParameters

\* With more seeds than recent holds, the next one of the rotation is not in it.
LEMMA NextIsOpen ==
    ASSUME NEW v \in Seq(Texts), NEW c, Minded(c), Recalled(v, c, 0), InOrder(v, c), c.seeds > RecentMax
    PROVE  ~Remembers(c, c.index)
  <1> SUFFICES ASSUME Remembers(c, c.index) PROVE FALSE
    OBVIOUS
  <1>1. c.seeds \in Nat /\ c.index \in 0 .. c.seeds - 1
    BY DEF Minded, Minds
  <1>2. PICK n \in TurnsOf(v) : v[n].n = c.index /\ After(v, n) <= RecentMax - 1
    BY <1>1, RememberedLately
  <1>3. Ahead(c, c.index) = 0
    BY <1>1 DEF Ahead
  <1>4. After(v, n) + Ahead(c, v[n].n) >= c.seeds - 1
    BY DEF InOrder
  <1>5. After(v, n) \in Nat
    BY TurnsAppended, SeedIsText DEF TurnsOf
  <1>6. QED
    BY <1>1, <1>2, <1>3, <1>4, <1>5, CuriosityParameters

\* A new index changes nothing else.
LEMMA MovedOn ==
    ASSUME NEW c, Minded(c), NEW i \in 0 .. c.seeds - 1
    PROVE  LET d == [c EXCEPT !.index = i] IN
           d.seeds = c.seeds /\ d.index = i /\ d.recent = c.recent /\ d.followups = c.followups /\ Minded(d)
  <1>1. c.seeds \in Nat \ {0} /\ i \in Nat /\ i < c.seeds
    BY DEF Minded, Minds
  <1>2. QED
    BY <1>1 DEF Minded, Minds

\* A seed is less than a round away.
LEMMA AheadRange ==
    ASSUME NEW c, Minded(c), NEW seed \in 0 .. c.seeds - 1
    PROVE  Ahead(c, seed) \in Int /\ 0 <= Ahead(c, seed) /\ Ahead(c, seed) <= c.seeds - 1
  <1>1. c.seeds \in Nat /\ c.index \in Nat /\ c.index < c.seeds
    BY DEF Minded, Minds
  <1>2. QED
    BY <1>1 DEF Ahead

\* A turn of a seed: the others come nearer, or had theirs lately.
LEMMA TurnFair ==
    ASSUME NEW v \in Seq(Texts), NEW c, Minded(c), Fair(v, c, 0),
           NEW s \in 0 .. c.seeds - 1, NEW i \in 0 .. c.seeds - 1, NEW d, d = [c EXCEPT !.index = i],
           \A r \in (0 .. c.seeds - 1) \ {s} :
              \/ Ahead(d, r) <= Ahead(c, r) - 1
              \/ Remembers(c, r) /\ c.seeds <= RecentMax,
           c.seeds > RecentMax =>
              \A r \in 0 .. c.seeds - 1 : Ahead(d, r) = IF r = s THEN c.seeds - 1 ELSE Ahead(c, r) - 1
    PROVE  Fair(Append(v, SeedText(s)), d, 1)
  <1> DEFINE t == SeedText(s)
             w == Append(v, t)
             n == Len(v) + 1
  <1>0. s \in Nat /\ t \in Texts /\ IsTurn(t) /\ t.n = s
    BY SeedIsText DEF Minded, Minds, SeedText, IsTurn
  <1>1. /\ Len(w) = n /\ w[n] = t /\ \A m \in 1 .. Len(v) : w[m] = v[m]
        /\ TurnsOf(v) \subseteq 1 .. Len(v) /\ TurnsOf(w) = TurnsOf(v) \cup {n}
        /\ \A k \in 0 .. Len(v) : After(v, k) \in Nat /\ After(w, k) = After(v, k) + 1
        /\ After(w, n) = 0
    <2> HIDE DEF t
    <2>1. QED
      BY <1>0, TurnsAppended
  <1>2. Len(v) \in Nat
    OBVIOUS
  <1>3. /\ c.seeds \in Int /\ c.seeds >= 1 /\ RecentMax \in Int /\ RecentMax >= 1
        /\ Window(c) \in Int /\ Window(c) >= c.seeds
        /\ c.seeds <= RecentMax => Window(c) = c.seeds + RecentMax
    BY CuriosityParameters DEF Minded, Minds, Window
  <1>4. d.seeds = c.seeds /\ d.index = i /\ d.recent = c.recent /\ Minded(d)
    BY MovedOn
  <1>5. Window(d) = Window(c)
    BY <1>4 DEF Window
  <1>6. \A r \in 0 .. c.seeds - 1 : /\ Ahead(c, r) \in Int /\ 0 <= Ahead(c, r) /\ Ahead(c, r) <= c.seeds - 1
                                   /\ Ahead(d, r) \in Int /\ 0 <= Ahead(d, r) /\ Ahead(d, r) <= c.seeds - 1
    BY <1>4, AheadRange
  <1> HIDE DEF t, w
  <1>7. AreSeeds(w, d)
    BY <1>0, <1>1, <1>4 DEF Fair, AreSeeds
  <1>8. Recalled(w, d, 1)
    <2> SUFFICES ASSUME NEW j \in DOMAIN c.recent, NEW seed \in 0 .. c.seeds - 1, c.recent[j] = SeedText(seed)
                 PROVE  \E m \in TurnsOf(w) : w[m].n = seed /\ After(w, m) <= Len(c.recent) - j + 1
      BY <1>4 DEF Recalled
    <2>1. PICK m \in TurnsOf(v) : v[m].n = seed /\ After(v, m) <= Len(c.recent) - j + 0
      BY DEF Fair, Recalled
    <2>2. After(w, m) = After(v, m) + 1 /\ After(v, m) \in Nat /\ w[m] = v[m]
      BY <1>1, <1>2
    <2>3. Len(c.recent) \in Nat /\ j \in Nat
      BY DEF Minded, Minds
    <2>4. After(w, m) <= Len(c.recent) - j + 1
      BY <2>1, <2>2, <2>3
    <2>5. QED
      BY <1>1, <2>1, <2>2, <2>4
  <1>9. Bounded(w, d)
    <2> SUFFICES ASSUME NEW seed \in 0 .. c.seeds - 1, NEW k \in 0 .. n,
                        \A m \in TurnsOf(w) : m > k => w[m].n # seed
                 PROVE  After(w, k) + Ahead(d, seed) <= Window(c) - 1
      BY <1>1, <1>4, <1>5 DEF Bounded
    <2>0. /\ Ahead(c, seed) \in Int /\ 0 <= Ahead(c, seed) /\ Ahead(c, seed) <= c.seeds - 1
          /\ Ahead(d, seed) \in Int /\ 0 <= Ahead(d, seed) /\ Ahead(d, seed) <= c.seeds - 1
      BY <1>6
    <2>1. CASE k = n
      <3>1. After(w, k) = 0
        BY <1>1, <2>1
      <3>2. QED
        BY <1>3, <2>0, <3>1
    <2>2. CASE k \in 0 .. Len(v)
      <3>1. seed # s
        BY <1>0, <1>1, <1>2, <2>2
      <3>2. \A m \in TurnsOf(v) : m > k => v[m].n # seed
        BY <1>1
      <3>3. CASE Ahead(d, seed) <= Ahead(c, seed) - 1
        <4>1. After(v, k) + Ahead(c, seed) <= Window(c) - 1
          BY <2>2, <3>2 DEF Fair, Bounded
        <4>2. After(v, k) \in Nat /\ After(w, k) = After(v, k) + 1
          BY <1>1, <2>2
        <4>3. QED
          BY <1>3, <2>0, <3>3, <4>1, <4>2
      <3>4. CASE Remembers(c, seed) /\ c.seeds <= RecentMax
        <4>1. PICK m \in TurnsOf(v) : v[m].n = seed /\ After(v, m) <= RecentMax - 1
          BY <3>4, RememberedLately DEF Fair
        <4>2. m <= k /\ m \in 1 .. Len(v)
          BY <1>1, <2>2, <3>2, <4>1
        <4>3. After(v, k) <= After(v, m)
          BY <1>1, <2>2, <4>2, LaterIsFewer
        <4>4. After(v, m) \in Nat /\ After(v, k) \in Nat /\ After(w, k) = After(v, k) + 1
          BY <1>1, <2>2, <4>2
        <4>5. After(v, m) <= RecentMax - 1
          BY <4>1
        <4>6. After(w, k) <= RecentMax /\ After(w, k) \in Int
          BY <1>3, <4>3, <4>4, <4>5
        <4>7. Window(c) = c.seeds + RecentMax
          BY <1>3, <3>4
        <4>8. QED
          BY SMTT(30), <1>3, <2>0, <4>6, <4>7
      <3>5. QED
        BY <3>1, <3>3, <3>4
    <2>3. QED
      BY <1>2, <2>1, <2>2
  <1>10. InOrder(w, d)
    <2> SUFFICES ASSUME c.seeds > RecentMax, NEW m \in TurnsOf(w)
                 PROVE  After(w, m) + Ahead(d, w[m].n) >= c.seeds - 1
      BY <1>4 DEF InOrder
    <2>1. CASE m = n
      <3>1. w[m].n = s /\ After(w, m) = 0
        BY <1>0, <1>1, <2>1
      <3>2. Ahead(d, s) = c.seeds - 1
        OBVIOUS
      <3>3. QED
        BY <1>3, <3>1, <3>2
    <2>2. CASE m \in TurnsOf(v)
      <3>1. /\ w[m].n = v[m].n /\ v[m].n \in 0 .. c.seeds - 1
            /\ After(v, m) \in Nat /\ After(w, m) = After(v, m) + 1
        BY <1>1, <1>2, <2>2 DEF Fair, AreSeeds
      <3>2. After(v, m) + Ahead(c, v[m].n) >= c.seeds - 1
        BY <2>2 DEF Fair, InOrder
      <3>3. CASE v[m].n = s
        <4>1. Ahead(d, v[m].n) = c.seeds - 1
          BY <3>3
        <4>2. QED
          BY <1>3, <3>1, <4>1
      <3>4. CASE v[m].n # s
        <4>1. Ahead(d, v[m].n) = Ahead(c, v[m].n) - 1
          BY <3>1, <3>4
        <4>2. QED
          BY SMTT(30), <1>3, <1>6, <3>1, <3>2, <4>1
      <3>5. QED
        BY <3>3, <3>4
    <2>3. QED
      BY <1>1, <2>1, <2>2
  <1>11. PastTurns(w, d)
    BY <1>0, <1>4, <1>9, PastAppended DEF Fair, w
  <1>12. QED
    BY <1>7, <1>8, <1>9, <1>10, <1>11 DEF Fair, w, t

\* How far a seed is once the rotation has gone past k seeds and taken the next.
LEMMA AheadMoved ==
    ASSUME NEW c, Minded(c), NEW d, NEW k \in 0 .. c.seeds - 1, NEW r \in 0 .. c.seeds - 1, d.seeds = c.seeds,
           d.index = (IF c.index + (k + 1) < c.seeds THEN c.index + (k + 1) ELSE c.index + (k + 1) - c.seeds)
    PROVE  Ahead(d, r) = IF Ahead(c, r) > k THEN Ahead(c, r) - k - 1 ELSE Ahead(c, r) - k - 1 + c.seeds
  <1>1. PICK S \in Nat, x \in Nat : c.seeds = S /\ c.index = x /\ x < S
    BY DEF Minded, Minds
  <1>2. k \in Int /\ 0 <= k /\ k < S /\ r \in Int /\ 0 <= r /\ r < S
    BY <1>1
  <1>3. PICK i \in Int : d.index = i /\ i = IF x + (k + 1) < S THEN x + (k + 1) ELSE x + (k + 1) - S
    BY <1>1
  <1>4. PICK m \in Int : m = IF r >= x THEN r - x ELSE r - x + S
    <2>1. (IF r >= x THEN r - x ELSE r - x + S) \in Int
      BY <1>1, <1>2
    <2>2. QED
      BY <2>1
  <1>5. Ahead(c, r) = m /\ Ahead(d, r) = IF r >= i THEN r - i ELSE r - i + S
    BY <1>1, <1>3, <1>4 DEF Ahead
  <1>6. (IF r >= i THEN r - i ELSE r - i + S) = (IF m > k THEN m - k - 1 ELSE m - k - 1 + S)
    BY ONLY S \in Nat, x \in Nat, i \in Int, m \in Int, <1>1, <1>2, <1>3, <1>4
  <1>7. QED
    BY <1>1, <1>5, <1>6

\* The item that next() returns, whichever it is: only a turn needs that recent
\* is up to date, and a turn comes only when nothing is to be followed up.
LEMMA NextFair ==
    ASSUME NEW v \in Seq(Texts), NEW c, Minded(c), NEW next,
           Rotated(c, next) \/ Repeated(c, next), Fair(v, c, 0)
    PROVE  Fair(Append(v, next.text), next.then, 1)
  <1>1. c.seeds \in Nat \ {0} /\ c.index \in 0 .. c.seeds - 1 /\ c.index \in Nat /\ c.index < c.seeds
    BY DEF Minded, Minds
  <1>2. CASE Repeated(c, next)
    <2>1. PICK s \in 0 .. c.seeds - 1 : next.text = SeedText(s)
      BY <1>2 DEF Repeated
    <2>2. next.then = [c EXCEPT !.index = c.index]
      BY <1>2 DEF Repeated, Minded, Minds
    <2>3. \A r \in 0 .. c.seeds - 1 : Remembers(c, r)
      BY <1>2 DEF Repeated
    <2>4. ~(c.seeds > RecentMax)
      BY <1>1, <2>3, NextIsOpen DEF Fair
    <2>5. c.seeds <= RecentMax
      BY <1>1, <2>4, CuriosityParameters
    <2>6. QED
      BY <1>1, <2>1, <2>2, <2>3, <2>4, <2>5, TurnFair
  <1>3. CASE Rotated(c, next)
    <2> DEFINE seed(m) == (c.index + m) % c.seeds
    <2>1. PICK k \in 0 .. c.seeds - 1 :
            /\ next.text = SeedText(seed(k))
            /\ \A m \in 0 .. k - 1 : Remembers(c, seed(m))
            /\ next.then = [c EXCEPT !.index = seed(k + 1)]
      BY <1>3 DEF Rotated
    <2>2. \A m \in 0 .. c.seeds :
             /\ seed(m) = IF c.index + m < c.seeds THEN c.index + m ELSE c.index + m - c.seeds
             /\ seed(m) \in 0 .. c.seeds - 1
      <3> SUFFICES ASSUME NEW m \in 0 .. c.seeds
                   PROVE  /\ seed(m) = IF c.index + m < c.seeds THEN c.index + m ELSE c.index + m - c.seeds
                          /\ seed(m) \in 0 .. c.seeds - 1
        OBVIOUS
      <3>1. QED
        BY <1>1, Turning
    <2> HIDE DEF seed
    <2> DEFINE s == seed(k)
               i == seed(k + 1)
    <2>3. s \in 0 .. c.seeds - 1 /\ i \in 0 .. c.seeds - 1
      BY <1>1, <2>2
    <2>4. next.then.seeds = c.seeds /\ next.then.index = i
      BY <2>1, <2>3, MovedOn
    <2>5. \A r \in 0 .. c.seeds - 1 : \E m \in 0 .. c.seeds - 1 :
             /\ r = seed(m) /\ Ahead(c, r) = m
             /\ Ahead(next.then, r) = IF m > k THEN m - k - 1 ELSE m - k - 1 + c.seeds
      <3> SUFFICES ASSUME NEW r \in 0 .. c.seeds - 1
                   PROVE  \E m \in 0 .. c.seeds - 1 :
                             /\ r = seed(m) /\ Ahead(c, r) = m
                             /\ Ahead(next.then, r) = IF m > k THEN m - k - 1 ELSE m - k - 1 + c.seeds
        OBVIOUS
      <3> DEFINE m == Ahead(c, r)
      <3>1. m \in 0 .. c.seeds - 1 /\ m = IF r >= c.index THEN r - c.index ELSE r - c.index + c.seeds
        BY <1>1 DEF Ahead
      <3>2. i = IF c.index + (k + 1) < c.seeds THEN c.index + (k + 1) ELSE c.index + (k + 1) - c.seeds
        <4>1. k + 1 \in 0 .. c.seeds
          BY <1>1
        <4> HIDE DEF i
        <4>2. seed(k + 1) = IF c.index + (k + 1) < c.seeds THEN c.index + (k + 1) ELSE c.index + (k + 1) - c.seeds
          BY <2>2, <4>1
        <4>3. QED
          BY <4>2 DEF i
      <3>3. Ahead(next.then, r) = IF m > k THEN m - k - 1 ELSE m - k - 1 + c.seeds
        BY <2>4, <3>2, AheadMoved
      <3> HIDE DEF m
      <3>4. r = seed(m)
        BY SMTT(30), <1>1, <2>2, <3>1
      <3>5. QED
        BY <3>1, <3>3, <3>4 DEF m
    <2>6. c.seeds > RecentMax => k = 0
      <3> SUFFICES ASSUME c.seeds > RecentMax, k # 0 PROVE FALSE
        OBVIOUS
      <3>1. ~Remembers(c, c.index)
        BY NextIsOpen DEF Fair
      <3>2. seed(0) = c.index
        BY <1>1, <2>2
      <3>3. 0 \in 0 .. k - 1
        OBVIOUS
      <3>4. QED
        BY <2>1, <3>1, <3>2, <3>3
    <2>7. ASSUME NEW r \in (0 .. c.seeds - 1) \ {s}
          PROVE  \/ Ahead(next.then, r) <= Ahead(c, r) - 1
                 \/ Remembers(c, r) /\ c.seeds <= RecentMax
      <3>1. PICK m \in 0 .. c.seeds - 1 :
              /\ r = seed(m) /\ Ahead(c, r) = m
              /\ Ahead(next.then, r) = IF m > k THEN m - k - 1 ELSE m - k - 1 + c.seeds
        BY <2>5
      <3>2. CASE m > k
        BY <1>1, <3>1, <3>2
      <3>3. CASE m = k
        BY <3>1, <3>3
      <3>4. CASE m < k
        <4>1. m \in 0 .. k - 1 /\ k # 0
          BY <3>4
        <4>2. Remembers(c, r)
          BY <2>1, <3>1, <4>1
        <4>3. c.seeds <= RecentMax
          BY <1>1, <2>6, <4>1, CuriosityParameters
        <4>4. QED
          BY <4>2, <4>3
      <3>5. QED
        BY <3>2, <3>3, <3>4
    <2>8. ASSUME c.seeds > RecentMax, NEW r \in 0 .. c.seeds - 1
          PROVE  Ahead(next.then, r) = IF r = s THEN c.seeds - 1 ELSE Ahead(c, r) - 1
      <3>1. PICK m \in 0 .. c.seeds - 1 :
              /\ r = seed(m) /\ Ahead(c, r) = m
              /\ Ahead(next.then, r) = IF m > k THEN m - k - 1 ELSE m - k - 1 + c.seeds
        BY <2>5
      <3>2. k = 0
        BY <2>6, <2>8
      <3>3. CASE m = 0
        BY <1>1, <3>1, <3>2, <3>3
      <3>4. CASE m # 0
        <4>1. seed(0) = c.index /\ r # seed(0)
          <5>1. seed(0) = c.index
            BY <1>1, <2>2
          <5>2. r # c.index
            BY <1>1, <3>1, <3>4 DEF Ahead
          <5>3. QED
            BY <5>1, <5>2
        <4>2. QED
          BY <1>1, <3>1, <3>2, <3>4, <4>1
      <3>5. QED
        BY <3>3, <3>4
    <2>9. next.text = SeedText(s) /\ next.then = [c EXCEPT !.index = i]
      BY <2>1
    <2> HIDE DEF s, i
    <2>10. QED
      BY <2>3, <2>7, <2>8, <2>9, TurnFair
  <1>4. QED
    BY <1>2, <1>3

\* Fair is about the seeds, recent and the place in the rotation.
LEMMA FairSame ==
    ASSUME NEW v, NEW c, NEW d, d.seeds = c.seeds, d.recent = c.recent, d.index = c.index, NEW late, Fair(v, c, late)
    PROVE  Fair(v, d, late)
  <1>1. Window(d) = Window(c) /\ \A seed : Ahead(d, seed) = Ahead(c, seed)
    BY DEF Window, Ahead
  <1>2. AreSeeds(v, d) /\ Recalled(v, d, late)
    BY DEF Fair, AreSeeds, Recalled
  <1>3. Bounded(v, d) /\ InOrder(v, d)
    BY <1>1 DEF Fair, Bounded, InOrder
  <1>4. PastTurns(v, d)
    BY <1>1 DEF Fair, PastTurns
  <1>5. QED
    BY <1>2, <1>3, <1>4 DEF Fair

\* recent may be one turn late.
LEMMA FairLater ==
    ASSUME NEW v \in Seq(Texts), NEW c, Minded(c), Fair(v, c, 0)
    PROVE  Fair(v, c, 1)
  <1> SUFFICES ASSUME NEW j \in DOMAIN c.recent, NEW seed \in 0 .. c.seeds - 1, c.recent[j] = SeedText(seed)
               PROVE  \E n \in TurnsOf(v) : v[n].n = seed /\ After(v, n) <= Len(c.recent) - j + 1
    BY DEF Fair, Recalled
  <1>1. PICK n \in TurnsOf(v) : v[n].n = seed /\ After(v, n) <= Len(c.recent) - j + 0
    BY DEF Fair, Recalled
  <1>2. After(v, n) \in Nat /\ Len(c.recent) \in Nat /\ j \in Nat
    BY TurnsAppended, SeedIsText DEF Minded, Minds, TurnsOf
  <1>3. After(v, n) <= Len(c.recent) - j + 1
    BY <1>1, <1>2
  <1>4. QED
    BY <1>1, <1>3

\* A promoted item goes to recent.
LEMMA PromotedFair ==
    ASSUME NEW v \in Seq(Texts), NEW c, Minded(c), Fair(v, c, 1), NEW t \in Texts, v # <<>>, v[Len(v)] = t
    PROVE  LET d == RecordPromoted(c, t) IN
           /\ Minded(d) /\ d.seeds = c.seeds /\ d.followups = c.followups /\ Fair(v, d, 0)
           /\ d.recent # <<>> /\ d.recent[Len(d.recent)] = t
  <1> DEFINE d == RecordPromoted(c, t)
             new == Pushed(c.recent, t, RecentMax)
  <1>1. /\ new \in Seq(Texts) /\ Len(new) <= RecentMax /\ Len(new) \in 1 .. Len(c.recent) + 1
        /\ new[Len(new)] = t
        /\ \A j \in 1 .. Len(new) - 1 :
              \E i \in 1 .. Len(c.recent) : new[j] = c.recent[i] /\ Len(new) - j = Len(c.recent) - i + 1
    <2>1. c.recent \in Seq(Texts) /\ Len(c.recent) <= RecentMax /\ RecentMax \in Nat \ {0}
      BY CuriosityParameters DEF Minded, Minds
    <2>2. new \in Seq(Texts) /\ Len(new) <= RecentMax /\ Extends(new, c.recent, t)
      BY <2>1, PushedIn
    <2>3. QED
      BY <2>2 DEF Extends
  <1>2. d = [c EXCEPT !.recent = new]
    BY DEF RecordPromoted
  <1> HIDE DEF new, d
  <1>3. d.seeds = c.seeds /\ d.followups = c.followups /\ d.recent = new /\ d.index = c.index /\ Minded(d)
    BY <1>1, <1>2 DEF Minded, Minds
  <1>4. Fair(v, d, 0)
    <2>1. Window(d) = Window(c) /\ \A seed : Ahead(d, seed) = Ahead(c, seed)
      BY <1>3 DEF Window, Ahead
    <2>2. AreSeeds(v, d)
      BY <1>3 DEF Fair, AreSeeds
    <2>3. Bounded(v, d) /\ InOrder(v, d)
      BY <1>3, <2>1 DEF Fair, Bounded, InOrder
    <2>4. PastTurns(v, d)
      BY <1>3, <2>1 DEF Fair, PastTurns
    <2>5. ASSUME NEW j \in DOMAIN new, NEW seed \in 0 .. c.seeds - 1, new[j] = SeedText(seed)
          PROVE  \E n \in TurnsOf(v) : v[n].n = seed /\ After(v, n) <= Len(new) - j + 0
      <3>1. DOMAIN new = 1 .. Len(new) /\ Len(new) \in Nat /\ j \in 1 .. Len(new)
        BY <1>1
      <3>2. CASE j = Len(new)
        <4>1. t = SeedText(seed)
          BY <1>1, <2>5, <3>2
        <4>2. IsTurn(t) /\ t.n = seed
          BY <4>1 DEF SeedText, IsTurn
        <4>3. Len(v) \in DOMAIN v /\ Len(v) \in Nat
          OBVIOUS
        <4>4. Len(v) \in TurnsOf(v)
          BY <4>2, <4>3 DEF TurnsOf
        <4>5. {m \in TurnsOf(v) : m > Len(v)} = {}
          BY <4>3 DEF TurnsOf
        <4>6. After(v, Len(v)) = 0
          BY <4>5, FS_EmptySet DEF After
        <4>7. After(v, Len(v)) <= Len(new) - j + 0
          BY <3>1, <3>2, <4>6
        <4>8. QED
          BY <4>2, <4>4, <4>7
      <3>3. CASE j # Len(new)
        <4>1. j \in 1 .. Len(new) - 1
          BY <3>1, <3>3
        <4>2. PICK i \in 1 .. Len(c.recent) : new[j] = c.recent[i] /\ Len(new) - j = Len(c.recent) - i + 1
          BY <1>1, <4>1
        <4>3. i \in DOMAIN c.recent /\ Len(c.recent) \in Nat
          BY DEF Minded, Minds
        <4>4. PICK n \in TurnsOf(v) : v[n].n = seed /\ After(v, n) <= Len(c.recent) - i + 1
          BY <2>5, <4>2, <4>3 DEF Fair, Recalled
        <4>5. Len(c.recent) - i + 1 = Len(new) - j + 0
          BY <3>1, <4>2, <4>3
        <4>6. After(v, n) <= Len(new) - j + 0
          BY <4>4, <4>5
        <4>7. QED
          BY <4>4, <4>6
      <3>4. QED
        BY <3>2, <3>3
    <2>6. Recalled(v, d, 0)
      BY <1>3, <2>5 DEF Recalled
    <2>7. QED
      BY <2>2, <2>3, <2>4, <2>6 DEF Fair
  <1>5. new # <<>>
    BY <1>1
  <1>6. QED
    BY <1>1, <1>3, <1>4, <1>5 DEF d

\* A burst that has worked on nothing is fair.
LEMMA NothingIsFair ==
    ASSUME NEW v \in Seq(Texts), Len(v) = 0, NEW c, Minded(c), c.recent = <<>>
    PROVE  Fair(v, c, 0)
  <1>1. TurnsOf(v) = {}
    BY DEF TurnsOf
  <1>2. c.seeds \in Int /\ c.seeds >= 1 /\ Window(c) \in Int /\ Window(c) >= c.seeds
    BY CuriosityParameters DEF Minded, Minds, Window
  <1>3. AreSeeds(v, c) /\ InOrder(v, c)
    BY <1>1 DEF AreSeeds, InOrder
  <1>4. Recalled(v, c, 0)
    BY DEF Recalled
  <1>5. Bounded(v, c)
    <2> SUFFICES ASSUME NEW seed \in 0 .. c.seeds - 1, NEW n \in 0 .. Len(v)
                 PROVE  After(v, n) + Ahead(c, seed) <= Window(c) - 1
      BY DEF Bounded
    <2>1. {m \in TurnsOf(v) : m > n} = {}
      BY <1>1
    <2>2. After(v, n) = 0
      BY <2>1, FS_EmptySet DEF After
    <2>3. Ahead(c, seed) \in Int /\ Ahead(c, seed) <= c.seeds - 1
      BY AheadRange
    <2>4. QED
      BY <1>2, <2>2, <2>3
  <1>6. PastTurns(v, c)
    <2> SUFFICES ASSUME NEW seed \in 0 .. c.seeds - 1, NEW to \in 0 .. Len(v), NEW from \in 0 .. to
                 PROVE  Cardinality({m \in TurnsOf(v) : from < m /\ m <= to}) <= Window(c) - 1
      BY DEF PastTurns
    <2>1. {m \in TurnsOf(v) : from < m /\ m <= to} = {}
      BY <1>1
    <2>2. Cardinality({m \in TurnsOf(v) : from < m /\ m <= to}) = 0
      BY <2>1, FS_EmptySet
    <2>3. QED
      BY <1>2, <2>2
  <1>7. QED
    BY <1>3, <1>4, <1>5, <1>6 DEF Fair

-----------------------------------------------------------------------------
(* What a burst has worked on, and what it has in mind.                    *)

Items(r) == [n \in DOMAIN r |-> r[n].item]

\* The items of the rows are texts, one for each row.
LEMMA ItemsOfRows ==
    ASSUME NEW r \in Seq(RowRecords)
    PROVE  Items(r) \in Seq(Texts) /\ Len(Items(r)) = Len(r) /\ \A n \in DOMAIN r : Items(r)[n] = r[n].item
  <1>1. DOMAIN r = 1 .. Len(r) /\ Len(r) \in Nat /\ \A n \in 1 .. Len(r) : r[n].item \in Texts
    <2>1. DOMAIN r = 1 .. Len(r) /\ Len(r) \in Nat /\ \A n \in 1 .. Len(r) : r[n] \in RowRecords
      OBVIOUS
    <2>2. \A row \in RowRecords : row.item \in Texts
      BY DEF RowRecords
    <2>3. QED
      BY <2>1, <2>2
  <1>2. Items(r) \in [1 .. Len(r) -> Texts]
    BY <1>1 DEF Items
  <1>3. QED
    BY <1>1, <1>2 DEF Items

\* A new row adds its item.
LEMMA ItemsAppended ==
    ASSUME NEW r \in Seq(RowRecords), NEW row \in RowRecords
    PROVE  Items(Append(r, row)) = Append(Items(r), row.item)
  <1> DEFINE longer == Append(r, row)
             items == Append(Items(r), row.item)
  <1>1. /\ longer \in Seq(RowRecords) /\ Len(longer) = Len(r) + 1 /\ longer[Len(r) + 1] = row
        /\ \A n \in 1 .. Len(r) : longer[n] = r[n]
    BY AppendProperties
  <1>2. /\ Items(r) \in Seq(Texts) /\ Len(Items(r)) = Len(r)
        /\ \A n \in DOMAIN r : Items(r)[n] = r[n].item
    BY ItemsOfRows
  <1>3. row.item \in Texts
    BY DEF RowRecords
  <1>4. /\ items \in Seq(Texts) /\ Len(items) = Len(r) + 1 /\ items[Len(r) + 1] = row.item
        /\ \A n \in 1 .. Len(r) : items[n] = Items(r)[n]
    <2> HIDE DEF Items
    <2>1. QED
      BY <1>2, <1>3, AppendProperties
  <1> HIDE DEF longer, items
  <1>5. /\ Items(longer) \in Seq(Texts) /\ Len(Items(longer)) = Len(longer)
        /\ \A n \in DOMAIN longer : Items(longer)[n] = longer[n].item
    BY <1>1, ItemsOfRows
  <1>6. Len(r) \in Nat /\ DOMAIN r = 1 .. Len(r) /\ DOMAIN longer = 1 .. Len(r) + 1
    BY <1>1
  <1>7. \A n \in 1 .. Len(r) + 1 : Items(longer)[n] = items[n]
    BY <1>1, <1>2, <1>4, <1>5, <1>6
  <1>8. Items(longer) = items
    BY <1>1, <1>4, <1>5, <1>7, SeqEqual
  <1>9. QED
    BY <1>8 DEF longer, items

\* An iteration is at hand: its item is not in a row yet.
Busy(p) == at[p] \in {"iterating", "crashed", "killed"}

\* The items of the iterations that ended and of the one at hand.
Worked(p) == IF Busy(p) THEN Append(Items(rows[p]), item[p]) ELSE Items(rows[p])

Late(p) == IF Busy(p) \/ curiosity[p].followups # <<>> THEN 1 ELSE 0

\* Between two iterations, what the last one left.
Left(p) ==
    LET last == rows[p][Len(rows[p])] IN
    IF rows[p] = <<>> THEN curiosity[p].followups = <<>>
    ELSE IF last.outcome = "rolled-back" THEN curiosity[p].followups = <<FollowUp(last.item)>>
    ELSE /\ curiosity[p].followups = <<>> /\ curiosity[p].recent # <<>>
         /\ curiosity[p].recent[Len(curiosity[p].recent)] = last.item

\* The types, and what the places say of the rows and follow-ups.
Sane(p) ==
    /\ Minded(curiosity[p]) /\ counts[p] \in [GapNames -> Nat] /\ item[p] \in Texts
    /\ rows[p] \in Seq(RowRecords) /\ before[p] \in Int
    /\ at[p] = "new" => rows[p] = <<>>
    /\ at[p] = "iterating" => curiosity[p].followups = <<>>
    /\ at[p] \in {"new", "loop"} => Left(p)

Mind(p) == Sane(p) /\ Fair(Worked(p), curiosity[p], Late(p))

\* today_cost_usd() is a number.
LEMMA TodayIsInt ==
    ASSUME FileInv, Trackers, NEW p \in Processes
    PROVE  TodayCost(p) \in Int
  <1>1. state[p].cost[day] \in Nat
    BY DEF FileInv, Typed, Trackers, States
  <1>2. QED
    BY <1>1, WalCostIsNat DEF TodayCost

\* What a burst worked on is a sequence of texts.
LEMMA WorkedItems ==
    ASSUME NEW p, item[p] \in Texts, rows[p] \in Seq(RowRecords)
    PROVE  Items(rows[p]) \in Seq(Texts) /\ Worked(p) \in Seq(Texts)
  BY ItemsOfRows DEF Worked

\* A new burst has a new Curiosity and no rows.
LEMMA MindInit == BurstInit => Shaped /\ \A p \in Processes : Mind(p)
  <1> SUFFICES ASSUME BurstInit PROVE Shaped /\ \A p \in Processes : Mind(p)
    OBVIOUS
  <1>1. Shaped
    BY DEF BurstInit, Shaped
  <1>2. ASSUME NEW p \in Processes
        PROVE  Mind(p)
    <2>1. /\ at[p] = "new" /\ rows[p] = <<>> /\ item[p] = SeedText(0) /\ before[p] = 0
          /\ counts[p] = plan[p].live /\ curiosity[p] = NewCuriosity(plan[p].seeds) /\ plan \in Plans
      BY DEF BurstInit
    <2>2. plan[p].seeds \in Nat \ {0} /\ counts[p] \in [GapNames -> Nat]
      BY <2>1, BurstParameters
    <2>3. Minded(curiosity[p]) /\ curiosity[p].recent = <<>> /\ curiosity[p].followups = <<>>
      BY <2>1, <2>2, CuriosityParameters DEF NewCuriosity, Minded, Minds
    <2>4. item[p] \in Texts /\ rows[p] \in Seq(RowRecords)
      BY <2>1, SeedIsText
    <2>5. Sane(p)
      BY <2>1, <2>2, <2>3, <2>4 DEF Sane, Left
    <2>6. Worked(p) = Items(rows[p]) /\ Late(p) = 0
      BY <2>1, <2>3 DEF Worked, Late, Busy
    <2>7. Items(rows[p]) \in Seq(Texts) /\ Len(Items(rows[p])) = 0
      BY <2>1, <2>4, ItemsOfRows
    <2>8. QED
      BY <2>3, <2>5, <2>6, <2>7, NothingIsFair DEF Mind
  <1>3. QED
    BY <1>1, <1>2

\* A step that leaves the mind of a burst alone keeps its invariant.
LEMMA RestsMind ==
    ASSUME NEW p \in Processes, Mind(p), Rests(p)
    PROVE  Mind(p)'
  <1>1. /\ curiosity'[p] = curiosity[p] /\ counts'[p] = counts[p] /\ item'[p] = item[p]
        /\ before'[p] = before[p] /\ rows'[p] = rows[p]
    BY DEF Rests
  <1>2. /\ Busy(p)' <=> Busy(p)
        /\ at'[p] = "new" => at[p] = "new"
        /\ at'[p] = "iterating" => at[p] = "iterating"
        /\ at'[p] \in {"new", "loop"} => at[p] \in {"new", "loop"}
    BY DEF Rests, Busy
  <1>3. Left(p)' = Left(p)
    BY <1>1 DEF Left
  <1>4. Sane(p)'
    BY <1>1, <1>2, <1>3 DEF Mind, Sane
  <1>5. Worked(p)' = Worked(p) /\ Late(p)' = Late(p)
    BY <1>1, <1>2 DEF Worked, Late
  <1>6. QED
    BY <1>1, <1>4, <1>5 DEF Mind

\* What begins, and after what.
LEMMA BeginsCases ==
    ASSUME NEW p \in Processes, Mind(p), NEW next \in NextItems(curiosity[p], counts[p]), at[p] = "loop"
    PROVE  LET last == rows[p][Len(rows[p])] IN
           /\ next.text \in Texts /\ Minded(next.then) /\ next.then.followups = <<>>
           /\ Fair(Append(Items(rows[p]), next.text), next.then, 1)
           /\ rows[p] # <<>> /\ last.outcome = "rolled-back" => next.text = FollowUp(last.item)
           /\ rows[p] # <<>> /\ last.outcome # "rolled-back" =>
                 /\ next.text.tries = 0
                 /\ curiosity[p].seeds > RecentMax /\ next.text.about = "seed" => next.text # last.item
  <1> DEFINE c == curiosity[p]
             d == next.then
             t == next.text
             v == Items(rows[p])
             last == rows[p][Len(rows[p])]
  <1>1. /\ Minded(c) /\ counts[p] \in [GapNames -> Nat] /\ rows[p] \in Seq(RowRecords) /\ item[p] \in Texts
        /\ Left(p)
    BY DEF Mind, Sane
  <1>2. v \in Seq(Texts)
    BY <1>1, ItemsOfRows
  <1>3. Fair(v, c, IF c.followups # <<>> THEN 1 ELSE 0)
    BY DEF Mind, Worked, Late, Busy
  <1>4. Followed(c, next) \/ Gapped(c, next) \/ Rotated(c, next) \/ Repeated(c, next)
    BY <1>1, NextCases
  <1>5. t \in Texts /\ Minded(d)
    BY <1>1, <1>4, NextMinded
  <1>6. CASE Followed(c, next)
    <2>1. c.followups # <<>> /\ t = Head(c.followups) /\ d = [c EXCEPT !.followups = Tail(@)]
      BY <1>6 DEF Followed
    <2>2. rows[p] # <<>> /\ last.outcome = "rolled-back" /\ c.followups = <<FollowUp(last.item)>>
      BY <1>1, <2>1 DEF Left
    <2>3. t = FollowUp(last.item) /\ Tail(c.followups) = <<>>
      BY <2>1, <2>2
    <2>4. last \in RowRecords
      <3>1. Len(rows[p]) \in DOMAIN rows[p]
        BY <1>1, <2>2
      <3>2. QED
        BY <1>1, <3>1
    <2>5. ~IsTurn(t)
      BY <2>3, <2>4 DEF RowRecords, Texts, FollowUp, IsTurn
    <2>6. d.followups = <<>> /\ d.seeds = c.seeds /\ d.recent = c.recent /\ d.index = c.index
      BY <1>1, <2>1, <2>3 DEF Minded, Minds
    <2>7. Fair(v, c, 1)
      BY <1>3, <2>1
    <2>8. Fair(v, d, 1)
      BY <2>6, <2>7, FairSame
    <2>9. Fair(Append(v, t), d, 1)
      BY <1>2, <1>5, <2>5, <2>8, OtherFair
    <2>10. QED
      BY <1>5, <2>2, <2>3, <2>6, <2>9
  <1>7. CASE ~Followed(c, next)
    <2>1. c.followups = <<>>
      BY <1>4, <1>7 DEF Gapped, Rotated, Repeated
    <2>2. Fair(v, c, 0)
      BY <1>3, <2>1
    <2>3. CASE Gapped(c, next)
      <3>1. d = c /\ t.about # "seed" /\ t.tries = 0
        BY <2>3 DEF Gapped
      <3>2. ~IsTurn(t)
        BY <3>1 DEF IsTurn
      <3>3. Fair(Append(v, t), d, 1)
        BY <1>2, <1>5, <2>2, <3>1, <3>2, FairLater, OtherFair
      <3>4. ~(rows[p] # <<>> /\ last.outcome = "rolled-back")
        BY <1>1, <2>1 DEF Left
      <3>5. QED
        BY <1>5, <2>1, <3>1, <3>3, <3>4
    <2>4. CASE Rotated(c, next) \/ Repeated(c, next)
      <3>1. Fair(Append(v, t), d, 1)
        BY <1>1, <1>2, <2>2, <2>4, NextFair
      <3>2. d.followups = <<>> /\ t.tries = 0
        <4>1. CASE Repeated(c, next)
          BY <2>1, <4>1 DEF Repeated, SeedText
        <4>2. CASE Rotated(c, next)
          <5>1. PICK i, n : d = [c EXCEPT !.index = i] /\ t = SeedText(n)
            BY <4>2 DEF Rotated
          <5>2. QED
            BY <1>1, <2>1, <5>1 DEF SeedText, Minded, Minds
        <4>3. QED
          BY <2>4, <4>1, <4>2
      <3>3. ~(rows[p] # <<>> /\ last.outcome = "rolled-back")
        BY <1>1, <2>1 DEF Left
      <3>4. ASSUME rows[p] # <<>>, c.seeds > RecentMax
            PROVE  t # last.item
        <4>1. c.recent # <<>> /\ c.recent[Len(c.recent)] = last.item /\ Len(c.recent) \in DOMAIN c.recent
          BY <1>1, <3>3, <3>4 DEF Left, Minded, Minds
        <4>2. CASE Repeated(c, next)
          <5>1. c.index \in 0 .. c.seeds - 1
            BY <1>1 DEF Minded, Minds
          <5>2. QED
            BY <1>1, <1>2, <2>2, <3>4, <4>2, <5>1, NextIsOpen DEF Fair, Repeated
        <4>3. CASE Rotated(c, next)
          <5>1. PICK seed \in Int : t = SeedText(seed) /\ ~Remembers(c, seed)
            <6>1. PICK k \in 0 .. c.seeds - 1 :
                    t = SeedText((c.index + k) % c.seeds) /\ ~Remembers(c, (c.index + k) % c.seeds)
              BY <4>3 DEF Rotated
            <6>2. (c.index + k) % c.seeds \in Int
              BY <1>1, <6>1 DEF Minded, Minds
            <6>3. QED
              BY <6>1, <6>2
          <5>2. QED
            BY <4>1, <5>1 DEF Remembers
        <4>4. QED
          BY <2>4, <4>2, <4>3
      <3>5. QED
        BY <1>5, <3>1, <3>2, <3>3, <3>4
    <2>5. QED
      BY <1>4, <1>7, <2>3, <2>4
  <1>8. QED
    BY <1>6, <1>7

\* So does the choice of the next item,
LEMMA BeginsMind ==
    ASSUME FileInv, Trackers, NEW p \in Processes, Mind(p), Begins(p)
    PROVE  Mind(p)'
  <1>1. PICK next \in NextItems(curiosity[p], counts[p]) : item'[p] = next.text /\ curiosity'[p] = next.then
    BY DEF Begins
  <1>2. /\ at[p] = "loop" /\ at'[p] = "iterating" /\ before'[p] = TodayCost(p)
        /\ counts'[p] = counts[p] /\ rows'[p] = rows[p]
    BY DEF Begins
  <1>3. /\ next.text \in Texts /\ Minded(next.then) /\ next.then.followups = <<>>
        /\ Fair(Append(Items(rows[p]), next.text), next.then, 1)
    BY <1>2, BeginsCases
  <1>4. Sane(p)'
    <2>1. /\ counts[p] \in [GapNames -> Nat] /\ rows[p] \in Seq(RowRecords)
      BY DEF Mind, Sane
    <2>2. before'[p] \in Int
      BY <1>2, TodayIsInt
    <2>3. QED
      BY <1>1, <1>2, <1>3, <2>1, <2>2 DEF Sane
  <1>5. Worked(p)' = Append(Items(rows[p]), next.text) /\ Late(p)' = 1
    BY <1>1, <1>2 DEF Worked, Late, Busy
  <1>6. QED
    BY <1>1, <1>3, <1>4, <1>5 DEF Mind

\* and the end of an iteration, promoted or rolled back.
LEMMA EndsMind ==
    ASSUME FileInv, Trackers, NEW p \in Processes, Mind(p), NEW outcome \in Outcomes, Ends(p, outcome)
    PROVE  Mind(p)'
  <1> DEFINE c == curiosity[p]
             row == Row(p, outcome)
  <1>1. /\ at[p] = "iterating" /\ at'[p] = "loop" /\ rows'[p] = Append(rows[p], row)
        /\ counts'[p] = counts[p] \/ counts'[p] = [counts[p] EXCEPT !.episodic = @ + 1]
        /\ item'[p] = item[p] /\ before'[p] = before[p]
    BY DEF Ends
  <1>2. /\ Minded(c) /\ counts[p] \in [GapNames -> Nat] /\ rows[p] \in Seq(RowRecords) /\ item[p] \in Texts
        /\ before[p] \in Int /\ c.followups = <<>>
    BY <1>1 DEF Mind, Sane
  <1>3. row \in RowRecords /\ row.item = item[p] /\ row.outcome = outcome
    BY <1>2, TodayIsInt DEF Row, RowCost, RowRecords
  <1> HIDE DEF row
  <1>4. /\ rows'[p] \in Seq(RowRecords) /\ rows'[p] # <<>> /\ rows'[p][Len(rows'[p])] = row
    <2>1. PICK r \in Seq(RowRecords) : r = rows[p]
      BY <1>2
    <2>2. /\ Append(r, row) \in Seq(RowRecords) /\ Append(r, row) # <<>> /\ Len(Append(r, row)) = Len(r) + 1
          /\ Append(r, row)[Len(r) + 1] = row
      BY <1>3, AppendProperties
    <2>3. QED
      BY <1>1, <2>1, <2>2
  <1> DEFINE v == Append(Items(rows[p]), item[p])
  <1>5. Items(rows'[p]) = v
    BY <1>1, <1>2, <1>3, ItemsAppended
  <1>6. /\ Worked(p) = v /\ Worked(p)' = v /\ Late(p) = 1
        /\ Late(p)' = IF curiosity'[p].followups # <<>> THEN 1 ELSE 0
    BY <1>1, <1>5 DEF Worked, Late, Busy
  <1>7. v \in Seq(Texts) /\ v # <<>> /\ v[Len(v)] = item[p]
    <2>1. PICK u \in Seq(Texts) : u = Items(rows[p])
      BY <1>2, ItemsOfRows
    <2>2. PICK t \in Texts : t = item[p]
      BY <1>2
    <2>3. /\ Append(u, t) \in Seq(Texts) /\ Append(u, t) # <<>> /\ Len(Append(u, t)) = Len(u) + 1
          /\ Append(u, t)[Len(u) + 1] = t
      BY AppendProperties
    <2>4. QED
      BY <2>1, <2>2, <2>3
  <1>8. Fair(v, c, 1)
    BY <1>6 DEF Mind
  <1> HIDE DEF v
  <1>9. counts'[p] \in [GapNames -> Nat]
    <2>1. \A n \in GapNames : [counts[p] EXCEPT !.episodic = @ + 1][n] \in Nat
      BY <1>2
    <2>2. [counts[p] EXCEPT !.episodic = @ + 1] \in [GapNames -> Nat]
      BY <1>2, <2>1
    <2>3. QED
      BY <1>1, <1>2, <2>2
  <1>10. CASE outcome = "promoted"
    <2> DEFINE d == RecordPromoted(c, item[p])
    <2>1. curiosity'[p] = d
      BY <1>10 DEF Ends
    <2>2. /\ Minded(d) /\ d.followups = <<>> /\ Fair(v, d, 0)
          /\ d.recent # <<>> /\ d.recent[Len(d.recent)] = item[p]
      BY <1>2, <1>7, <1>8, PromotedFair
    <2> HIDE DEF d
    <2>3. Left(p)'
      BY <1>3, <1>4, <1>10, <2>1, <2>2 DEF Left
    <2>4. Sane(p)'
      BY <1>1, <1>2, <1>4, <1>9, <2>1, <2>2, <2>3 DEF Sane
    <2>5. QED
      BY <1>6, <2>1, <2>2, <2>4 DEF Mind
  <1>11. CASE outcome = "rolled-back"
    <2> DEFINE again == FollowUp(item[p])
               q == <<again>>
               d == [c EXCEPT !.followups = q]
    <2>1. again \in Texts
      BY <1>2 DEF FollowUp, Texts
    <2>2. Pushed(<<>>, again, FollowUpMax) = <<again>>
      <3>1. Append(<<>>, again) = <<again>> /\ Len(<<again>>) = 1
        OBVIOUS
      <3>2. ~(1 > FollowUpMax)
        BY CuriosityParameters
      <3>3. QED
        BY <3>1, <3>2 DEF Pushed
    <2>3. curiosity'[p] = d
      BY <1>2, <1>11, <2>2 DEF Ends, RecordRollback
    <2> HIDE DEF again
    <2>4. q \in Seq(Texts) /\ q # <<>>
      BY <2>1
    <2> HIDE DEF q
    <2>5. /\ d.followups = q /\ d.seeds = c.seeds /\ d.recent = c.recent
          /\ d.index = c.index /\ Minded(d)
      BY <1>2, <2>4 DEF Minded, Minds
    <2> HIDE DEF d
    <2>6. Left(p)'
      BY <1>3, <1>4, <1>11, <2>3, <2>5 DEF Left, again, q
    <2>7. Sane(p)'
      BY <1>1, <1>2, <1>4, <1>9, <2>3, <2>5, <2>6 DEF Sane
    <2>8. Fair(v, d, 1)
      BY <1>8, <2>5, FairSame
    <2>9. QED
      BY <1>6, <2>3, <2>4, <2>5, <2>7, <2>8 DEF Mind
  <1>12. QED
    BY <1>10, <1>11 DEF Outcomes

\* The invariant of the bursts.
BurstInv == FileInv /\ Waiting /\ Trackers /\ Shaped /\ \A p \in Processes : Mind(p)

\* The invariant of the bursts holds at first.
LEMMA BurstInvInit == BurstInit => BurstInv
  BY FileInit, WaitingInit, TrackersInit, MindInit DEF BurstInit, BurstInv

\* Every step of the program keeps it.
LEMMA BurstInvStep == BurstInv /\ [BurstNext]_allVars => BurstInv'
  <1> SUFFICES ASSUME BurstInv, [BurstNext]_allVars PROVE BurstInv'
    OBVIOUS
  <1>1. FileInv' /\ Waiting' /\ Trackers'
    BY BurstFileStep, WaitingStep, TrackersStep DEF BurstInv
  <1>2. Shaped' /\ \A p \in Processes : BurstView(p)
    BY BurstViews DEF BurstInv
  <1>3. ASSUME NEW p \in Processes PROVE Mind(p)'
    BY <1>2, RestsMind, BeginsMind, EndsMind DEF BurstInv, BurstView
  <1>4. QED
    BY <1>1, <1>2, <1>3 DEF BurstInv

\* No seed starves, for any number of seeds and any size of recent, whatever is
\* promoted and whatever rolls back.
THEOREM NoSeedStarves == BurstSpec => []SeedsTakeTurns
  <1>1. BurstInv => SeedsTakeTurns
    <2> SUFFICES ASSUME BurstInv, NEW p \in Processes, NEW from \in DOMAIN rows[p], NEW to \in DOMAIN rows[p],
                        Cardinality({n \in from .. to : rows[p][n].item.about = "seed" /\ rows[p][n].item.tries = 0})
                            >= Window(curiosity[p]),
                        NEW seed \in 0 .. curiosity[p].seeds - 1
                 PROVE  \E n \in {n \in from .. to : rows[p][n].item.about = "seed" /\ rows[p][n].item.tries = 0} :
                            rows[p][n].item.n = seed
      BY DEF SeedsTakeTurns, Window
    <2> DEFINE c == curiosity[p]
               v == Worked(p)
               turns == {n \in from .. to : rows[p][n].item.about = "seed" /\ rows[p][n].item.tries = 0}
               window == {m \in TurnsOf(v) : from - 1 < m /\ m <= to}
    <2>1. Minded(c) /\ rows[p] \in Seq(RowRecords) /\ item[p] \in Texts /\ PastTurns(v, c)
      BY DEF BurstInv, Mind, Sane, Fair
    <2>2. /\ Items(rows[p]) \in Seq(Texts) /\ Len(Items(rows[p])) = Len(rows[p])
          /\ \A n \in DOMAIN rows[p] : Items(rows[p])[n] = rows[p][n].item
      BY <2>1, ItemsOfRows
    <2>3. DOMAIN rows[p] = 1 .. Len(rows[p]) /\ Len(rows[p]) \in Nat
      BY <2>1
    <2>4. v \in Seq(Texts) /\ Len(v) >= Len(rows[p]) /\ \A n \in DOMAIN rows[p] : v[n] = rows[p][n].item
      <3>1. CASE Busy(p)
        <4>1. v = Append(Items(rows[p]), item[p])
          BY <3>1 DEF Worked
        <4>2. PICK u \in Seq(Texts) : u = Items(rows[p])
          BY <2>2
        <4>3. PICK t \in Texts : t = item[p]
          BY <2>1
        <4>4. /\ Append(u, t) \in Seq(Texts) /\ Len(Append(u, t)) = Len(u) + 1
              /\ \A n \in 1 .. Len(u) : Append(u, t)[n] = u[n]
          BY AppendProperties
        <4>5. QED
          BY <2>2, <2>3, <4>1, <4>2, <4>3, <4>4
      <3>2. CASE ~Busy(p)
        BY <2>2, <2>3, <3>2 DEF Worked
      <3>3. QED
        BY <3>1, <3>2
    <2> HIDE DEF v
    <2>5. Len(v) \in Nat /\ DOMAIN v = 1 .. Len(v)
      BY <2>4
    <2>6. window = turns
      <3>1. \A n \in from .. to : n \in DOMAIN v /\ v[n] = rows[p][n].item
        BY <2>3, <2>4, <2>5
      <3>2. QED
        BY <2>3, <2>5, <3>1 DEF TurnsOf, IsTurn
    <2>7. CASE from <= to
      <3>1. SUFFICES ASSUME \A n \in turns : rows[p][n].item.n # seed PROVE FALSE
        OBVIOUS
      <3>2. \A n \in window : v[n].n # seed
        BY <2>3, <2>4, <2>6, <3>1
      <3>3. to \in 0 .. Len(v) /\ from - 1 \in 0 .. to
        BY <2>3, <2>4, <2>5, <2>7
      <3>4. Cardinality(window) <= Window(c) - 1
        BY <2>1, <3>2, <3>3 DEF PastTurns
      <3>5. Cardinality(turns) >= Window(c)
        OBVIOUS
      <3>6. Window(c) \in Int
        BY <2>1, CuriosityParameters DEF Minded, Minds, Window
      <3>7. Cardinality(turns) \in Int
        <4>1. IsFiniteSet(from .. to)
          BY <2>3, FS_Interval
        <4>2. turns \in SUBSET (from .. to)
          OBVIOUS
        <4> HIDE DEF turns
        <4>3. IsFiniteSet(turns)
          BY <4>1, <4>2, FS_Subset
        <4>4. QED
          BY <4>3, FS_CardinalityType
      <3> HIDE DEF turns, window
      <3>8. QED
        BY <2>6, <3>4, <3>5, <3>6, <3>7
    <2>8. CASE from > to
      <3>1. turns = {}
        BY <2>3, <2>8
      <3>2. Cardinality(turns) = 0
        BY <3>1, FS_EmptySet
      <3>3. Window(c) >= 1 /\ Window(c) \in Int
        BY <2>1, CuriosityParameters DEF Minded, Minds, Window
      <3>4. QED
        BY <3>2, <3>3
    <2>9. QED
      BY <2>3, <2>7, <2>8
  <1>2. QED
    BY <1>1, BurstInvInit, BurstInvStep, PTL DEF BurstSpec

\* What rolled back is followed up at once, and what was promoted is not taken again
\* at once, for any number of seeds and any size of recent.
THEOREM TakenUpAtOnce == BurstSpec => FailureIsTakenUp
  <1>1. BurstInv /\ [BurstNext]_allVars =>
            [\A p \in Processes :
               at[p] = "loop" /\ at'[p] = "iterating" /\ rows[p] # <<>> =>
                   LET last == rows[p][Len(rows[p])] IN
                   IF last.outcome = "rolled-back"
                   THEN item'[p] = FollowUp(last.item)
                   ELSE /\ item'[p].tries = 0
                        /\ curiosity[p].seeds > RecentMax /\ item'[p].about = "seed" =>
                               item'[p] # last.item]_allVars
    <2> SUFFICES ASSUME BurstInv, [BurstNext]_allVars,
                        NEW p \in Processes, at[p] = "loop", at'[p] = "iterating", rows[p] # <<>>
                 PROVE  LET last == rows[p][Len(rows[p])] IN
                        IF last.outcome = "rolled-back"
                        THEN item'[p] = FollowUp(last.item)
                        ELSE /\ item'[p].tries = 0
                             /\ curiosity[p].seeds > RecentMax /\ item'[p].about = "seed" =>
                                    item'[p] # last.item
      OBVIOUS
    <2>1. BurstView(p) /\ Mind(p)
      BY BurstViews DEF BurstInv
    <2>2. Begins(p)
      BY <2>1 DEF BurstView, Rests, Ends
    <2>3. PICK next \in NextItems(curiosity[p], counts[p]) : item'[p] = next.text
      BY <2>2 DEF Begins
    <2>4. QED
      BY <2>1, <2>3, BeginsCases
  <1>2. QED
    BY <1>1, BurstInvInit, BurstInvStep, PTL DEF BurstSpec, FailureIsTakenUp

-----------------------------------------------------------------------------
(* The ledger of a burst.                                                  *)

Total(r) == Sum([n \in DOMAIN r |-> r[n].cost])

\* The costs of the rows add up to a number.
LEMMA TotalOfRows ==
    ASSUME NEW r \in Seq(RowRecords)
    PROVE  Total(r) = SumOf([n \in DOMAIN r |-> r[n].cost], 1 .. Len(r)) /\ Total(r) \in Int
  <1> DEFINE f == [n \in DOMAIN r |-> r[n].cost]
  <1>1. DOMAIN r = 1 .. Len(r) /\ Len(r) \in Nat /\ IsFiniteSet(1 .. Len(r))
    BY FS_Interval
  <1>2. \A n \in 1 .. Len(r) : f[n] \in Int
    <2>1. \A n \in 1 .. Len(r) : r[n] \in RowRecords
      BY <1>1
    <2>2. \A row \in RowRecords : row.cost \in Int
      BY DEF RowRecords
    <2>3. QED
      BY <1>1, <2>1, <2>2
  <1>3. DOMAIN f = 1 .. Len(r)
    BY <1>1
  <1> HIDE DEF f
  <1>4. Sum(f) = SumOf(f, 1 .. Len(r))
    BY <1>3 DEF Sum, SumOf
  <1>5. SumOf(f, 1 .. Len(r)) \in Int
    BY <1>1, <1>2, SumType
  <1>6. QED
    BY <1>4, <1>5 DEF Total, f

\* No rows show no cost.
LEMMA TotalOfNone == Total(<<>>) = 0
  <1>1. <<>> \in Seq(RowRecords) /\ 1 .. Len(<<>>) = {}
    OBVIOUS
  <1>2. Total(<<>>) = SumOf([n \in DOMAIN <<>> |-> <<>>[n].cost], {})
    BY <1>1, TotalOfRows
  <1>3. QED
    BY <1>2, SumEmpty

\* A new row adds its cost.
LEMMA TotalAppended ==
    ASSUME NEW r \in Seq(RowRecords), NEW row \in RowRecords
    PROVE  Total(Append(r, row)) = Total(r) + row.cost
  <1> DEFINE w == Append(r, row)
             f == [n \in DOMAIN r |-> r[n].cost]
             g == [n \in DOMAIN w |-> w[n].cost]
             S == 1 .. Len(r)
             T == 1 .. Len(w)
  <1>1. /\ w \in Seq(RowRecords) /\ Len(w) = Len(r) + 1 /\ w[Len(r) + 1] = row
        /\ \A n \in 1 .. Len(r) : w[n] = r[n]
    BY AppendProperties
  <1>2. DOMAIN r = S /\ Len(r) \in Nat
    OBVIOUS
  <1> HIDE DEF w
  <1>3. DOMAIN w = T /\ Len(w) \in Nat
    BY <1>1
  <1>4. Total(r) = SumOf(f, S) /\ Total(w) = SumOf(g, T)
    BY <1>1, TotalOfRows
  <1>5. \A n \in T : w[n] \in RowRecords /\ g[n] = w[n].cost
    BY <1>1, <1>3
  <1>6. \A other \in RowRecords : other.cost \in Int
    BY DEF RowRecords
  <1>7. \A n \in T : g[n] \in Int
    BY <1>5, <1>6
  <1>8. IsFiniteSet(S) /\ IsFiniteSet(T)
    BY <1>2, <1>3, FS_Interval
  <1>9. Len(w) \in T /\ T \ {Len(w)} = S
    BY <1>1, <1>2, <1>3
  <1>10. g[Len(w)] = row.cost /\ \A n \in S : g[n] = f[n]
    BY <1>1, <1>2, <1>3
  <1> HIDE DEF f, g, S, T
  <1>11. SumOf(g, T) = g[Len(w)] + SumOf(g, T \ {Len(w)})
    BY <1>7, <1>8, <1>9, SumSplit
  <1>12. SumOf(g, S) = SumOf(f, S)
    BY <1>7, <1>8, <1>9, <1>10, SumEqual
  <1>13. Total(r) \in Int /\ row.cost \in Int
    BY <1>6, TotalOfRows
  <1>14. Total(w) = row.cost + SumOf(g, S)
    BY <1>4, <1>9, <1>10, <1>11
  <1>15. SumOf(g, S) = Total(r)
    BY <1>4, <1>12
  <1>16. Total(w) = Total(r) + row.cost
    BY <1>13, <1>14, <1>15
  <1>17. QED
    BY <1>16 DEF w

Alive(p) == at[p] \notin {"stopped", "killed"}

\* What the burst would show had it spent nothing: the reading it started with.
Started(p) == (IF Busy(p) THEN before[p] ELSE TodayCost(p)) - Total(rows[p])

\* All rows of a burst that was not killed, with the iteration at hand, show what the
\* day's cost rose by since the first one: the differences telescope.
LEMMA ShownSinceStart ==
    ASSUME FileInv, Trackers, NEW p \in Processes, Sane(p)
    PROVE  Started(p) \in Int /\ (Alive(p) => Shown(p) = TodayCost(p) - Started(p))
  <1>1. TodayCost(p) \in Int /\ before[p] \in Int /\ Total(rows[p]) \in Int
    BY TodayIsInt, TotalOfRows DEF Sane
  <1>2. Alive(p) => Shown(p) = Total(rows[p]) + IF Busy(p) THEN TodayCost(p) - before[p] ELSE 0
    BY DEF Shown, Total, Alive, Busy, RowCost
  <1>3. QED
    BY <1>1, <1>2 DEF Started

\* Until midnight, and until a cost goes to the write-ahead log.
Quiet == day = 1 /\ \A c \in Calls : pc[c] # "walled"

WalTidy == \A r \in wal : r.call \in Calls /\ pc[r.call] = "walled"

Unstarted ==
    \A p \in Processes : at[p] = "new" =>
        state[p] = FreshState /\ \A c \in Calls : owner[c] = p => pc[c] = "idle"

\* What the calls were charged, what of it the file holds, and a burst's own part.
Charge == [c \in Calls |-> IF pc[c] \in Answered THEN actual[c] ELSE 0]

Recorded == [c \in Calls |-> IF pc[c] = "done" THEN actual[c] ELSE 0]

OwnCosts(p) == [c \in Calls |-> IF owner[c] = p /\ pc[c] = "done" THEN actual[c] ELSE 0]

\* What the tracker of a burst shows lies between its own calls and all that was charged.
Bracket(p) ==
    /\ 0 <= Started(p)
    /\ Started(p) + Own(p) <= Base.cost[1]
    /\ Started(p) + Own(p) <= state[p].cost[1]
    /\ state[p].cost[1] <= charged[1]

\* Until midnight, the file holds the costs of the calls that are done.
Accounts ==
    /\ \A c \in Calls : pc[c] \notin Answered => actual[c] = 0
    /\ charged[1] = Sum(Charge)
    /\ Base.cost[1] = Sum(Recorded)
    /\ \A p \in Processes : Alive(p) => Bracket(p)

\* The sums that follow are of amounts.
LEMMA CostTypes ==
    ASSUME FileInv
    PROVE  /\ Charge \in [Calls -> Nat] /\ Sum(Charge) \in Nat
           /\ Recorded \in [Calls -> Nat] /\ Sum(Recorded) \in Nat
           /\ \A p : OwnCosts(p) \in [Calls -> Nat] /\ Own(p) = Sum(OwnCosts(p)) /\ Own(p) \in Nat
           /\ Base.cost \in [AllDays -> Nat] /\ 1 \in AllDays
  <1>1. /\ Charge \in [Calls -> Nat] /\ Recorded \in [Calls -> Nat]
        /\ \A p : OwnCosts(p) \in [Calls -> Nat] /\ Own(p) = Sum(OwnCosts(p))
    BY DEF FileInv, Typed, Charge, Recorded, OwnCosts, Own
  <1>2. Base.cost \in [AllDays -> Nat]
    BY BaseIsState DEF FileInv, States
  <1>3. 1 \in AllDays
    BY BudgetParameters DEF AllDays
  <1>4. ASSUME NEW p PROVE Sum(OwnCosts(p)) \in Nat
    BY <1>1, SumOfCalls
  <1>5. QED
    BY <1>1, <1>2, <1>3, <1>4, SumOfCalls

\* What the file holds was charged.
LEMMA RecordedWasCharged ==
    ASSUME FileInv
    PROVE  /\ Sum(Recorded) <= Sum(Charge)
           /\ \A c \in Calls : pc[c] \in Answered \ {"done"} => Sum(Recorded) + actual[c] <= Sum(Charge)
  <1>1. /\ Charge \in [Calls -> Nat] /\ Recorded \in [Calls -> Nat] /\ Sum(Recorded) \in Nat /\ Sum(Charge) \in Nat
        /\ actual \in [Calls -> Nat]
    BY CostTypes DEF FileInv, Typed
  <1>2. \A c \in Calls : Recorded[c] <= Charge[c]
    BY <1>1 DEF Recorded, Charge, Answered
  <1>3. Sum(Recorded) <= Sum(Charge)
    BY <1>1, <1>2, SumOfSame
  <1>4. ASSUME NEW c \in Calls, pc[c] \in Answered \ {"done"}
        PROVE  Sum(Recorded) + actual[c] <= Sum(Charge)
    <2> DEFINE g == [Recorded EXCEPT ![c] = actual[c]]
    <2>1. Recorded[c] = 0 /\ Charge[c] = actual[c]
      BY <1>4 DEF Recorded, Charge
    <2>2. g \in [Calls -> Nat] /\ g[c] = actual[c] /\ \A d \in Calls \ {c} : Recorded[d] = g[d]
      BY <1>1
    <2> HIDE DEF g
    <2>3. Sum(g) = Sum(Recorded) - Recorded[c] + g[c]
      BY <1>1, <2>2, SumOfChanged
    <2>4. \A d \in Calls : g[d] <= Charge[d]
      BY <1>1, <1>2, <2>1, <2>2
    <2>5. Sum(g) <= Sum(Charge)
      BY <1>1, <2>2, <2>4, SumOfSame
    <2>6. QED
      BY <1>1, <2>1, <2>2, <2>3, <2>5
  <1>5. QED
    BY <1>3, <1>4

\* What the step of a call does to the money.
Carries(c) ==
    /\ charged' = charged /\ actual' = actual /\ Base'.cost = Base.cost
    /\ state'[owner[c]].cost \in {state[owner[c]].cost, Base.cost}
    /\ pc[c] # "done" /\ pc'[c] # "done" /\ (pc'[c] \in Answered <=> pc[c] \in Answered)

Replies(c) ==
    /\ pc[c] = "inflight" /\ pc'[c] = "returned"
    /\ actual'[c] \in Nat /\ charged'[1] = charged[1] + actual'[c]
    /\ \A d \in Calls \ {c} : actual'[d] = actual[d]
    /\ Base' = Base /\ state' = state

Applies(c) ==
    /\ pc[c] = "drained" /\ pc'[c] = "recording"
    /\ charged' = charged /\ actual' = actual /\ Base' = Base
    /\ state'[owner[c]].cost[1] = Base.cost[1] + actual[c]

Commits(c) ==
    /\ pc[c] = "recording" /\ pc'[c] = "done"
    /\ charged' = charged /\ actual' = actual /\ state' = state
    /\ Base'.cost[1] = Base.cost[1] + actual[c] /\ state[owner[c]].cost[1] = Base.cost[1] + actual[c]

\* As long as nothing goes to the write-ahead log, a step of a call does one of these.
LEMMA MoneyMoves ==
    ASSUME FileInv, Waiting, Trackers, Quiet, Quiet', wal = {}, NEW c \in Calls, Metered(c)
    PROVE  Carries(c) \/ Replies(c) \/ Applies(c) \/ Commits(c)
  <1> DEFINE p == owner[c]
             loaded == Pruned(Loaded(state[p]))
  <1>1. /\ p \in Processes /\ state[p] \in States /\ Base \in States /\ day = 1 /\ 1 \in AllDays
        /\ DOMAIN state = Processes /\ DOMAIN pc = Calls /\ actual \in [Calls -> Nat]
        /\ charged \in [AllDays -> Nat]
    BY BaseIsState, CostTypes DEF FileInv, Typed, Trackers, Quiet
  <1>2. lock = Nobody => loaded \in States /\ loaded.cost = Base.cost
    BY <1>1, PrunedAgrees DEF loaded
  <1>3. disk' = disk => Base' = Base
    BY DEF Base
  <1> HIDE DEF loaded
  <1>4. CASE \E est \in Estimates : ReserveEnter(c, est) \/ ReserveRefused(c, est)
    <2>1. PICK est \in Estimates : ReserveEnter(c, est) \/ ReserveRefused(c, est)
      BY <1>4
    <2>2. PICK label \in {"reserving", "refused"} :
            /\ pc[c] = "idle" /\ pc' = [pc EXCEPT ![c] = label]
            /\ charged' = charged /\ actual' = actual /\ disk' = disk
            /\ \/ state' = state
               \/ lock = Nobody /\ state' = [state EXCEPT ![p] = loaded]
               \/ lock = Nobody /\ state' = [state EXCEPT ![p] = [loaded EXCEPT !.pending[c] = est]]
      BY <2>1 DEF ReserveEnter, ReserveRefused, Goto, SetState, callVars, loaded
    <2>3. state'[p].cost \in {state[p].cost, Base.cost}
      <3>1. lock = Nobody => [loaded EXCEPT !.pending[c] = est].cost = Base.cost
        BY <1>2 DEF States
      <3>2. QED
        BY <1>1, <1>2, <2>2, <3>1
    <2>4. QED
      BY <1>1, <1>3, <2>2, <2>3 DEF Carries, Answered
  <1>5. CASE CancelEnter(c) \/ CancelNothing(c)
    <2>1. PICK label \in {"cancelling", "cancelled"} :
            /\ pc[c] = "raised" /\ pc' = [pc EXCEPT ![c] = label]
            /\ charged' = charged /\ actual' = actual /\ disk' = disk /\ lock = Nobody
            /\ \/ state' = [state EXCEPT ![p] = loaded]
               \/ state' = [state EXCEPT ![p] = Cleared(loaded, c)]
      BY <1>5 DEF CancelEnter, CancelNothing, Goto, SetState, callVars, loaded
    <2>2. state'[p].cost = Base.cost
      <3>1. Cleared(loaded, c).cost = Base.cost
        BY <1>2, <2>1 DEF Cleared, States
      <3>2. QED
        BY <1>1, <1>2, <2>1, <3>1
    <2>3. QED
      BY <1>1, <1>3, <2>1, <2>2 DEF Carries, Answered
  <1>6. CASE ReserveCommit(c) \/ CancelCommit(c)
    <2>1. PICK label \in {"inflight", "cancelled"} :
            /\ pc[c] \in {"reserving", "cancelling"} /\ pc' = [pc EXCEPT ![c] = label]
            /\ charged' = charged /\ actual' = actual /\ disk' = state[p] /\ state' = state
      BY <1>6 DEF ReserveCommit, CancelCommit, Commit, Goto, callVars
    <2>2. Saves(c)
      BY <2>1 DEF FileInv, Holding
    <2>3. state[p].cost = Base.cost
      BY <2>1, <2>2 DEF Saves
    <2>4. Base' = state[p]
      BY <1>1, <2>1, NoFileIsNoState DEF Base
    <2>5. QED
      BY <1>1, <2>1, <2>3, <2>4 DEF Carries, Answered
  <1>7. CASE RecordCommit(c)
    <2>1. /\ pc[c] = "recording" /\ pc' = [pc EXCEPT ![c] = "done"]
          /\ charged' = charged /\ actual' = actual /\ disk' = state[p] /\ state' = state
      BY <1>7 DEF RecordCommit, Commit, Goto, callVars
    <2>2. Saves(c)
      BY <2>1 DEF FileInv, Holding
    <2>3. state[p].cost = [Base.cost EXCEPT ![1] = @ + actual[c]]
      BY <1>1, <2>1, <2>2 DEF Saves
    <2>4. Base' = state[p] /\ Base.cost \in [AllDays -> Nat]
      BY <1>1, <2>1, NoFileIsNoState, CostTypes DEF Base
    <2>5. state[p].cost[1] = Base.cost[1] + actual[c]
      BY <1>1, <2>3, <2>4
    <2>6. QED
      BY <1>1, <2>1, <2>4, <2>5 DEF Commits
  <1>8. CASE RecordApply(c)
    <2>1. /\ pc[c] = "drained" /\ pc' = [pc EXCEPT ![c] = "recording"]
          /\ charged' = charged /\ actual' = actual /\ disk' = disk
          /\ state' = [state EXCEPT ![p] = Cleared(Billed(loaded, actual[c]), c)]
      BY <1>8 DEF RecordApply, Goto, SetState, callVars, loaded
    <2>2. Loaded(state[p]) = Base
      <3>1. disk # NoFile
        BY <2>1 DEF FileInv, Typed, Untouched, Called, Reserving
      <3>2. QED
        BY <3>1 DEF Loaded, Base
    <2>3. loaded \in States /\ loaded.cost = Base.cost
      BY <1>1, <2>2, PrunedState DEF loaded
    <2>4. Base.cost \in [AllDays -> Nat]
      BY CostTypes
    <2>5. Cleared(Billed(loaded, actual[c]), c).cost[1] = Base.cost[1] + actual[c]
      BY <1>1, <2>3, <2>4 DEF Cleared, Billed, States
    <2>6. QED
      BY <1>1, <1>3, <2>1, <2>5 DEF Applies
  <1>9. CASE \E cost \in 0 .. amount[c] : CallReturns(c, cost)
    <2>1. PICK cost \in 0 .. amount[c] : CallReturns(c, cost)
      BY <1>9
    <2>2. /\ pc[c] = "inflight" /\ pc' = [pc EXCEPT ![c] = "returned"]
          /\ actual' = [actual EXCEPT ![c] = cost] /\ charged' = [charged EXCEPT ![day] = @ + cost]
          /\ state' = state /\ disk' = disk
      BY <2>1 DEF CallReturns, Goto
    <2>3. QED
      BY <1>1, <1>3, <2>2 DEF Replies
  <1>10. CASE RecordDrain(c)
    <2>1. /\ pc[c] = "returned" /\ pc' = [pc EXCEPT ![c] = "drained"]
          /\ charged' = charged /\ actual' = actual /\ disk' = disk
          /\ state' = [state EXCEPT ![p] = Drained(state[p])]
      BY <1>10 DEF RecordDrain, Goto, SetState, callVars
    <2>2. Drained(state[p]).cost = state[p].cost
      BY <1>1, DrainedState
    <2>3. QED
      BY <1>1, <1>3, <2>1, <2>2 DEF Carries, Answered
  <1>11. CASE CallRaises(c) \/ RecordUnlink(c) \/ LockRefused(c) \/ SaveFails(c) \/ RecordRaises(c)
    <2>1. PICK label \in {"raised", "drained", "refused", "uncancelled", "unsaved", "unrecorded"} :
            /\ pc[c] \in CASE label = "raised" -> {"inflight"} [] label = "drained" -> {"draining"}
                           [] label = "refused" -> {"idle"} [] label = "unsaved" -> {"reserving"}
                           [] label = "unrecorded" -> {"recording", "returned"}
                           [] OTHER -> {"raised", "cancelling"}
            /\ pc' = [pc EXCEPT ![c] = label]
            /\ charged' = charged /\ actual' = actual /\ disk' = disk /\ state' = state
      BY <1>11 DEF CallRaises, RecordUnlink, LockRefused, SaveFails, RecordRaises, Goto, callVars
    <2>2. QED
      BY <1>1, <1>3, <2>1 DEF Carries, Answered
  <1>12. CASE RecordToWal(c)
    BY <1>1, <1>12 DEF RecordToWal, Goto, Quiet
  <1>13. QED
    BY <1>4, <1>5, <1>6, <1>7, <1>8, <1>9, <1>10, <1>11, <1>12 DEF Metered

\* The steps of the bursts, as far as the money goes.
LEMMA BurstSteps ==
    ASSUME FileInv, Waiting, [BurstNext]_allVars
    PROVE  \/ \E p \in Processes : Start(p)
           \/ \E c \in Calls : Metered(c) /\ at[owner[c]] = "iterating" /\ UNCHANGED <<at, before, rows>>
           \/ NewDay /\ UNCHANGED <<at, before, rows>>
           \/ \E p \in Processes : Interrupted(p) /\ Die(p)
           \/ UNCHANGED vars
  <1>1. ASSUME NEW p \in Processes, AgentCalls(p)
        PROVE  \E c \in Calls : Metered(c) /\ at[owner[c]] = "iterating" /\ UNCHANGED <<at, before, rows>>
    BY <1>1 DEF AgentCalls, Between, Metered
  <1>2. ASSUME NEW c \in Calls, CallGoesOn(c)
        PROVE  Metered(c) /\ at[owner[c]] = "iterating" /\ UNCHANGED <<at, before, rows>>
    <2>1. Metered(c) /\ pc[c] \in Running /\ UNCHANGED <<at, before, rows>>
      BY <1>2 DEF CallGoesOn, Metered, ReserveCommit, Commit, CallReturns, RecordDrain, RecordUnlink,
                  RecordApply, RecordCommit, RecordToWal, CancelEnter, CancelCommit, CancelNothing,
                  CallRaises, SaveFails, RecordRaises, Running
    <2>2. QED
      BY <2>1 DEF Waiting
  <1>3. ASSUME NEW p \in Processes,
               Begin(p) \/ Finish(p) \/ AgentAnswers(p) \/ RolledBack(p) \/ Promoted(p) \/ Crash(p)
        PROVE  UNCHANGED vars
    BY <1>3 DEF Begin, Finish, AgentAnswers, RolledBack, Promoted, Crash
  <1>4. Midnight => NewDay /\ UNCHANGED <<at, before, rows>>
    BY DEF Midnight, burstVars
  <1>5. UNCHANGED allVars => UNCHANGED vars
    BY DEF allVars
  <1>6. ASSUME NEW p \in Processes, Interrupted(p)
        PROVE  Die(p) \/ UNCHANGED vars
    BY <1>6 DEF Interrupted
  <1>7. QED
    BY <1>1, <1>2, <1>3, <1>4, <1>5, <1>6 DEF BurstNext

\* A row in the log is of a call that was walled.
LEMMA WalTidyStep ==
    ASSUME FileInv, Waiting, WalTidy, [BurstNext]_allVars
    PROVE  WalTidy'
  <1>1. CASE (\E p \in Processes : Start(p)) \/ NewDay \/ UNCHANGED vars
    <2>1. UNCHANGED <<wal, pc>>
      BY <1>1 DEF Start, NewDay, vars
    <2>2. QED
      BY <2>1 DEF WalTidy
  <1>2. ASSUME NEW c \in Calls, Metered(c)
        PROVE  WalTidy'
    <2>1. /\ \A d \in Calls \ {c} : pc'[d] = pc[d]
          /\ pc[c] # "walled"
      BY <1>2, MeteredMoves
    <2>2. wal' = wal \/ wal' = {} \/ (pc'[c] = "walled" /\ wal' = wal \cup {[call |-> c, cost |-> actual[c]]})
      BY <1>2 DEF Metered, ReserveEnter, ReserveRefused, ReserveCommit, CallReturns, CallRaises, RecordDrain,
                  RecordUnlink, RecordApply, RecordCommit, RecordToWal, CancelEnter, CancelCommit,
                  CancelNothing, LockRefused, SaveFails, RecordRaises, Commit, Goto, FileInv, Typed
    <2>3. QED
      BY <2>1, <2>2 DEF WalTidy
  <1>3. ASSUME NEW p \in Processes, Interrupted(p)
        PROVE  WalTidy'
    <2>1. /\ wal' = wal
          /\ \A c \in Calls :
                pc'[c] = IF owner[c] = p /\ pc[c] \in Running THEN "dead" ELSE pc[c]
      BY <1>3, InterruptedMoves
    <2>2. QED
      BY <2>1 DEF WalTidy, Running
  <1>4. QED
    BY <1>1, <1>2, <1>3, BurstMeters

\* A burst that has not started has a fresh tracker and no calls.
LEMMA UnstartedStep ==
    ASSUME FileInv, Waiting, Shaped, Unstarted, [BurstNext]_allVars
    PROVE  Unstarted'
  <1> SUFFICES ASSUME NEW q \in Processes, at'[q] = "new"
               PROVE  state'[q] = FreshState /\ \A c \in Calls : owner'[c] = q => pc'[c] = "idle"
    BY DEF Unstarted
  <1>1. at[q] = "new" /\ state[q] = FreshState /\ \A c \in Calls : owner[c] = q => pc[c] = "idle"
    <2>1. BurstView(q)
      BY BurstViews
    <2>2. at[q] = "new"
      BY <2>1 DEF BurstView, Rests, Begins, Ends
    <2>3. QED
      BY <2>2 DEF Unstarted
  <1>2. ASSUME NEW p \in Processes, Start(p)
        PROVE  state'[q] = state[q] /\ UNCHANGED <<pc, owner>>
    <2>1. q # p /\ state' = [state EXCEPT ![p] = Loaded(FreshState)] /\ UNCHANGED <<pc, owner>>
      BY <1>2 DEF Start, MoveTo, Shaped, callVars
    <2>2. QED
      BY <2>1 DEF FileInv, Typed
  <1>3. ASSUME NEW c \in Calls, Metered(c), at[owner[c]] = "iterating"
        PROVE  state'[q] = state[q] /\ owner' = owner /\ \A d \in Calls : owner[d] = q => pc'[d] = pc[d]
    <2>1. owner[c] # q
      BY <1>1, <1>3
    <2>2. QED
      BY <1>3, <2>1, MeteredMoves
  <1>4. NewDay \/ UNCHANGED vars => UNCHANGED <<state, pc, owner>>
    BY DEF NewDay, vars, callVars
  <1>5. CASE \E p \in Processes : Start(p)
    BY <1>1, <1>2, <1>5
  <1>6. CASE \E c \in Calls : Metered(c) /\ at[owner[c]] = "iterating"
    BY <1>1, <1>3, <1>6
  <1>7. CASE NewDay \/ UNCHANGED vars
    BY <1>1, <1>4, <1>7
  <1>8. ASSUME NEW p \in Processes, Interrupted(p)
        PROVE  state'[q] = FreshState /\ \A c \in Calls : owner'[c] = q => pc'[c] = "idle"
    <2>1. /\ at[p] # "new" /\ owner' = owner
          /\ \A c \in Calls :
                pc'[c] = IF owner[c] = p /\ pc[c] \in Running THEN "dead" ELSE pc[c]
          /\ \A r \in Processes \ {p} : state'[r] = state[r]
      BY <1>8, InterruptedMoves
    <2>2. QED
      BY <1>1, <2>1
  <1>9. QED
    BY <1>5, <1>6, <1>7, <1>8, BurstSteps

\* What a burst does between two calls leaves where it started.
LEMMA StartedStays ==
    ASSUME FileInv, Trackers, NEW p \in Processes, Sane(p), Sane(p)', BurstView(p), TodayCost(p)' = TodayCost(p)
    PROVE  Started(p)' = Started(p)
  <1>1. TodayCost(p) \in Int /\ before[p] \in Int /\ Total(rows[p]) \in Int /\ rows[p] \in Seq(RowRecords)
    BY TodayIsInt, TotalOfRows DEF Sane
  <1>2. CASE Rests(p)
    <2>1. before'[p] = before[p] /\ rows'[p] = rows[p] /\ (Busy(p)' <=> Busy(p))
      BY <1>2 DEF Rests, Busy
    <2>2. QED
      BY <2>1 DEF Started
  <1>3. CASE Begins(p)
    <2>1. ~Busy(p) /\ Busy(p)' /\ before'[p] = TodayCost(p) /\ rows'[p] = rows[p]
      BY <1>3 DEF Begins, Busy
    <2>2. QED
      BY <2>1 DEF Started
  <1>4. ASSUME NEW outcome \in Outcomes, Ends(p, outcome)
        PROVE  Started(p)' = Started(p)
    <2> DEFINE row == Row(p, outcome)
    <2>1. Busy(p) /\ ~Busy(p)' /\ rows'[p] = Append(rows[p], row)
      BY <1>4 DEF Ends, Busy
    <2>2. row \in RowRecords /\ row.cost = TodayCost(p) - before[p]
      BY <1>1 DEF Row, RowCost, RowRecords, Sane
    <2> HIDE DEF row
    <2>3. Total(rows'[p]) = Total(rows[p]) + row.cost
      BY <1>1, <2>1, <2>2, TotalAppended
    <2>4. Started(p) = before[p] - Total(rows[p]) /\ Started(p)' = TodayCost(p)' - Total(rows'[p])
      BY <2>1 DEF Started
    <2>5. Started(p)' = TodayCost(p) - (Total(rows[p]) + (TodayCost(p) - before[p]))
      BY <2>2, <2>3, <2>4
    <2>6. QED
      BY <1>1, <2>4, <2>5
  <1>5. QED
    BY <1>2, <1>3, <1>4 DEF BurstView

\* A call's step starts no burst anew.
LEMMA StartedMeters ==
    ASSUME FileInv, Waiting, NEW c \in Calls, Metered(c), at[owner[c]] = "iterating",
           UNCHANGED <<at, before, rows>>, wal = {}, wal' = {}, NEW q \in Processes
    PROVE  Started(q)' = Started(q)
  <1>1. Busy(q)' <=> Busy(q)
    BY DEF Busy
  <1>2. CASE Busy(q)
    BY <1>1, <1>2 DEF Started
  <1>3. CASE ~Busy(q)
    <2>1. q # owner[c]
      BY <1>3 DEF Busy
    <2>2. state'[q] = state[q] /\ day' = day
      BY <2>1, MeteredMoves
    <2>3. WalCost = 0 /\ WalCost' = 0
      <3>1. WalCost = 0
        BY NoWalNoCost
      <3>2. WalCost' = WalCost
        BY DEF WalCost
      <3>3. QED
        BY <3>1, <3>2
    <2>4. TodayCost(q)' = TodayCost(q)
      BY <2>2, <2>3 DEF TodayCost
    <2>5. QED
      BY <1>1, <1>3, <2>4 DEF Started
  <1>4. QED
    BY <1>2, <1>3

\* A tracker that reads the file may see its costs go up, to no more than was charged.
LEMMA CarriesKeeps ==
    ASSUME FileInv, FileInv', Accounts, NEW c \in Calls, Carries(c), UNCHANGED <<owner, at>>,
           \A d \in Calls \ {c} : pc'[d] = pc[d],
           \A q \in Processes \ {owner[c]} : state'[q] = state[q],
           \A q \in Processes : Started(q)' = Started(q) /\ Started(q) \in Int /\ state[q].cost[1] \in Nat
    PROVE  Accounts'
  <1>1. Charge' = Charge /\ Recorded' = Recorded /\ \A q : Own(q)' = Own(q)
    BY DEF Carries, Charge, Recorded, Own
  <1>2. /\ charged'[1] = charged[1] /\ Base'.cost[1] = Base.cost[1] /\ Base.cost[1] <= charged[1]
    BY RecordedWasCharged DEF Carries, Accounts
  <1>3. ASSUME NEW q \in Processes, Alive(q) PROVE Bracket(q)'
    <2>1. Bracket(q)
      BY <1>3 DEF Accounts
    <2>2. state'[q].cost[1] \in {state[q].cost[1], Base.cost[1]}
      BY DEF Carries
    <2>3. QED
      BY <1>1, <1>2, <2>1, <2>2 DEF Bracket
  <1>4. QED
    BY <1>1, <1>2, <1>3 DEF Accounts, Alive, Carries

\* An answer is charged, to the day and to the burst that called.
LEMMA RepliesKeeps ==
    ASSUME FileInv, FileInv', Accounts, NEW c \in Calls, Replies(c), UNCHANGED <<owner, at>>,
           \A d \in Calls \ {c} : pc'[d] = pc[d],
           \A q \in Processes : Started(q)' = Started(q) /\ Started(q) \in Int /\ state[q].cost[1] \in Nat
    PROVE  Accounts'
  <1>1. Recorded' = Recorded /\ \A q : Own(q)' = Own(q)
    BY DEF Replies, Recorded, Own
  <1>2. Sum(Charge') = Sum(Charge) + actual'[c] /\ Sum(Charge) \in Nat /\ actual'[c] \in Nat
    <2> DEFINE g == Charge'
    <2>1. Charge \in [Calls -> Nat] /\ g \in [Calls -> Nat] /\ Sum(Charge) \in Nat
      BY CostTypes DEF FileInv, Typed, Charge
    <2>2. /\ \A d \in Calls \ {c} : Charge[d] = g[d]
          /\ Charge[c] = 0 /\ g[c] = actual'[c] /\ actual'[c] \in Nat
      BY DEF Replies, Charge, Answered
    <2> HIDE DEF g
    <2>3. Sum(g) = Sum(Charge) - Charge[c] + g[c]
      BY <2>1, <2>2, SumOfChanged
    <2>4. QED
      BY <2>1, <2>2, <2>3 DEF g
  <1>3. charged'[1] = Sum(Charge)' /\ charged[1] <= charged'[1]
    BY <1>2 DEF Accounts, Replies
  <1>4. ASSUME NEW q \in Processes, Alive(q) PROVE Bracket(q)'
    <2>1. Bracket(q) /\ Base' = Base /\ state'[q] = state[q]
      BY <1>4 DEF Accounts, Replies
    <2>2. charged[1] \in Nat /\ charged'[1] \in Nat
      BY CostTypes DEF FileInv, Typed
    <2>3. QED
      BY <1>1, <1>3, <2>1, <2>2 DEF Bracket
  <1>5. QED
    BY <1>1, <1>3, <1>4 DEF Accounts, Alive, Replies, Answered

\* The tracker's own state gets the cost on top of what the file holds.
LEMMA AppliesKeeps ==
    ASSUME FileInv, FileInv', Accounts, NEW c \in Calls, Applies(c), UNCHANGED <<owner, at>>,
           \A d \in Calls \ {c} : pc'[d] = pc[d],
           \A q \in Processes \ {owner[c]} : state'[q] = state[q],
           \A q \in Processes : Started(q)' = Started(q) /\ Started(q) \in Int /\ state[q].cost[1] \in Nat
    PROVE  Accounts'
  <1>1. Charge' = Charge /\ Recorded' = Recorded /\ \A q : Own(q)' = Own(q)
    BY DEF Applies, Charge, Recorded, Own, Answered
  <1>2. Base.cost[1] + actual[c] <= charged[1]
    BY RecordedWasCharged DEF Accounts, Applies, Answered
  <1>3. Base.cost[1] \in Nat /\ actual[c] \in Nat /\ charged[1] \in Nat
    BY CostTypes DEF FileInv, Typed
  <1>4. ASSUME NEW q \in Processes, Alive(q) PROVE Bracket(q)'
    <2>1. Bracket(q) /\ Base' = Base /\ charged' = charged /\ Own(q) \in Nat
      BY <1>4, CostTypes DEF Accounts, Applies
    <2>2. CASE q = owner[c]
      BY <1>1, <1>2, <1>3, <2>1, <2>2 DEF Bracket, Applies
    <2>3. CASE q # owner[c]
      BY <1>1, <2>1, <2>3 DEF Bracket
    <2>4. QED
      BY <2>2, <2>3
  <1>5. QED
    BY <1>1, <1>4 DEF Accounts, Alive, Applies, Answered

\* The file gets it, and with it the burst that called.
LEMMA CommitsKeeps ==
    ASSUME FileInv, FileInv', Accounts, NEW c \in Calls, Commits(c), UNCHANGED <<owner, at>>,
           \A d \in Calls \ {c} : pc'[d] = pc[d],
           \A q \in Processes : Started(q)' = Started(q) /\ Started(q) \in Int /\ state[q].cost[1] \in Nat
    PROVE  Accounts'
  <1>1. Charge' = Charge
    BY DEF Commits, Charge, Answered
  <1>2. actual[c] \in Nat /\ Base.cost[1] \in Nat /\ Base'.cost[1] = Base.cost[1] + actual[c]
    BY CostTypes DEF Commits, FileInv, Typed
  <1>3. Sum(Recorded') = Sum(Recorded) + actual[c]
    <2> DEFINE g == Recorded'
    <2>1. Recorded \in [Calls -> Nat] /\ g \in [Calls -> Nat] /\ Sum(Recorded) \in Nat
      BY CostTypes DEF FileInv, Typed, Recorded
    <2>2. /\ \A d \in Calls \ {c} : Recorded[d] = g[d]
          /\ Recorded[c] = 0 /\ g[c] = actual[c]
      BY DEF Commits, Recorded
    <2> HIDE DEF g
    <2>3. Sum(g) = Sum(Recorded) - Recorded[c] + g[c]
      BY <2>1, <2>2, SumOfChanged
    <2>4. QED
      BY <1>2, <2>1, <2>2, <2>3 DEF g
  <1>4. ASSUME NEW q \in Processes
        PROVE  Own(q)' = Own(q) + (IF q = owner[c] THEN actual[c] ELSE 0)
    <2> DEFINE g == OwnCosts(q)'
    <2>1. /\ OwnCosts(q) \in [Calls -> Nat] /\ g \in [Calls -> Nat] /\ Own(q) = Sum(OwnCosts(q)) /\ Own(q) \in Nat
      BY CostTypes DEF FileInv, Typed, OwnCosts
    <2>2. Own(q)' = Sum(g)
      BY DEF Own, OwnCosts
    <2>3. /\ \A d \in Calls \ {c} : OwnCosts(q)[d] = g[d]
          /\ OwnCosts(q)[c] = 0 /\ g[c] = IF q = owner[c] THEN actual[c] ELSE 0
      BY DEF Commits, OwnCosts
    <2> HIDE DEF g
    <2>4. Sum(g) = Sum(OwnCosts(q)) - OwnCosts(q)[c] + g[c]
      BY <2>1, <2>3, SumOfChanged
    <2>5. g[c] \in Nat
      BY <2>1
    <2>6. Sum(g) = Own(q) + g[c]
      BY <2>1, <2>3, <2>4, <2>5
    <2>7. QED
      BY <2>2, <2>3, <2>6
  <1>5. ASSUME NEW q \in Processes, Alive(q) PROVE Bracket(q)'
    <2>1. Bracket(q) /\ state'[q] = state[q] /\ charged' = charged /\ Own(q) \in Nat
      BY <1>5, CostTypes DEF Accounts, Commits
    <2>2. CASE q = owner[c]
      <3>1. Own(q)' = Own(q) + actual[c] /\ state[q].cost[1] = Base.cost[1] + actual[c]
        BY <1>4, <2>2 DEF Commits
      <3>2. QED
        BY <1>2, <2>1, <3>1 DEF Bracket
    <2>3. CASE q # owner[c]
      <3>1. Own(q)' = Own(q)
        BY <1>4, <2>1, <2>3
      <3>2. QED
        BY <1>2, <2>1, <3>1 DEF Bracket
    <2>4. QED
      BY <2>2, <2>3
  <1>6. charged'[1] = Sum(Charge') /\ Base'.cost[1] = Sum(Recorded')
    BY <1>1, <1>2, <1>3 DEF Accounts, Commits
  <1>7. QED
    BY <1>5, <1>6 DEF Accounts, Alive, Commits, Answered

\* The invariant of the ledgers.
LedgerInv == BurstInv /\ WalTidy /\ Unstarted /\ (Quiet => Accounts)

\* As long as no call was walled the write-ahead log is empty.
LEMMA QuietWal == WalTidy /\ Quiet => wal = {}
  BY DEF WalTidy, Quiet

\* The readings a burst compares are numbers.
LEMMA LedgerTypes ==
    ASSUME BurstInv, NEW q \in Processes
    PROVE  Started(q) \in Int /\ state[q].cost[1] \in Nat
  <1>1. Started(q) \in Int
    BY ShownSinceStart DEF BurstInv, Mind
  <1>2. state[q].cost[1] \in Nat
    BY CostTypes DEF BurstInv, Trackers, States
  <1>3. QED
    BY <1>1, <1>2

\* A new tracker starts with what the file holds.
LEMMA AccountsStart ==
    ASSUME LedgerInv, BurstInv', Accounts, Quiet, NEW p \in Processes, Start(p)
    PROVE  Accounts'
  <1>1. /\ at[p] = "new" /\ at' = [at EXCEPT ![p] = "loop"] /\ state' = [state EXCEPT ![p] = Base]
        /\ UNCHANGED <<wal, pc, owner, actual, day, charged, before, rows>>
    BY DEF Start, MoveTo, Loaded, Base, callVars
  <1>2. Base' = Base /\ Charge' = Charge /\ Recorded' = Recorded /\ \A q : Own(q)' = Own(q)
    BY <1>1, StartKeeps DEF LedgerInv, BurstInv, Charge, Recorded, Own
  <1>3. Base.cost[1] \in Nat /\ charged[1] \in Nat /\ Base.cost[1] <= charged[1]
    BY CostTypes, RecordedWasCharged DEF LedgerInv, BurstInv, FileInv, Typed, Accounts
  <1>4. ASSUME NEW q \in Processes \ {p}, Alive(q)' PROVE Bracket(q)'
    <2>1. state'[q] = state[q] /\ (Busy(q)' <=> Busy(q)) /\ Alive(q)
      BY <1>1, <1>4 DEF LedgerInv, BurstInv, FileInv, Typed, Shaped, Busy, Alive
    <2>2. Started(q)' = Started(q)
      <3>1. TodayCost(q)' = TodayCost(q)
        BY <1>1, <2>1 DEF TodayCost, WalCost
      <3>2. QED
        BY <1>1, <2>1, <3>1 DEF Started
    <2>3. QED
      BY <1>1, <1>2, <2>1, <2>2 DEF Accounts, Bracket
  <1>5. Bracket(p)'
    <2>1. state'[p] = Base /\ ~Busy(p)' /\ rows'[p] = <<>>
      BY <1>1 DEF LedgerInv, BurstInv, FileInv, Typed, Shaped, Busy, Mind, Sane
    <2>2. WalCost' = 0
      <3>1. WalCost = 0
        BY QuietWal, NoWalNoCost DEF LedgerInv
      <3>2. WalCost' = WalCost
        BY <1>1 DEF WalCost
      <3>3. QED
        BY <3>1, <3>2
    <2>3. Started(p)' = Base.cost[1]
      BY <1>1, <1>3, <2>1, <2>2, TotalOfNone DEF Started, TodayCost, Quiet
    <2>4. Own(p) = 0
      <3>1. OwnCosts(p) \in [Calls -> Nat] /\ Own(p) = Sum(OwnCosts(p))
        BY CostTypes DEF LedgerInv, BurstInv
      <3>2. \A c \in Calls : OwnCosts(p)[c] = 0
        BY <1>1 DEF LedgerInv, Unstarted, OwnCosts
      <3>3. QED
        BY <3>1, <3>2, SumOfCalls, SumZero, BudgetParameters
    <2>5. QED
      BY <1>1, <1>2, <1>3, <2>1, <2>3, <2>4 DEF Bracket
  <1>6. QED
    BY <1>1, <1>2, <1>4, <1>5 DEF Accounts

\* Every step of a call keeps the accounts.
LEMMA AccountsMeters ==
    ASSUME LedgerInv, BurstInv', WalTidy', Accounts, Quiet, Quiet', NEW c \in Calls, Metered(c),
           at[owner[c]] = "iterating", UNCHANGED <<at, before, rows>>
    PROVE  Accounts'
  <1>1. /\ FileInv /\ FileInv' /\ Waiting /\ Trackers
    BY DEF LedgerInv, BurstInv
  <1>2. wal = {} /\ wal' = {}
    BY QuietWal DEF LedgerInv, WalTidy, Quiet
  <1>3. /\ owner' = owner /\ \A d \in Calls \ {c} : pc'[d] = pc[d]
        /\ \A q \in Processes \ {owner[c]} : state'[q] = state[q]
    BY <1>1, MeteredMoves
  <1>4. ASSUME NEW q \in Processes
        PROVE  Started(q)' = Started(q) /\ Started(q) \in Int /\ state[q].cost[1] \in Nat
    BY <1>1, <1>2, StartedMeters, LedgerTypes DEF LedgerInv
  <1>5. Carries(c) \/ Replies(c) \/ Applies(c) \/ Commits(c)
    BY <1>1, <1>2, MoneyMoves
  <1>6. QED
    BY <1>1, <1>3, <1>4, <1>5, CarriesKeeps, RepliesKeeps, AppliesKeeps, CommitsKeeps

\* A step that leaves the budget alone keeps them.
LEMMA AccountsRest ==
    ASSUME LedgerInv, BurstInv', Accounts, UNCHANGED vars, [BurstNext]_allVars
    PROVE  Accounts'
  <1>1. UNCHANGED <<disk, wal, state, pc, owner, actual, day, charged>>
    BY DEF vars, callVars
  <1>2. Base' = Base /\ Charge' = Charge /\ Recorded' = Recorded /\ \A q : Own(q)' = Own(q)
    BY <1>1 DEF Base, Charge, Recorded, Own
  <1>3. ASSUME NEW q \in Processes, Alive(q)' PROVE Bracket(q)'
    <2>1. TodayCost(q)' = TodayCost(q)
      BY <1>1 DEF TodayCost, WalCost
    <2>2. BurstView(q)
      BY BurstViews DEF LedgerInv, BurstInv
    <2>3. Started(q)' = Started(q)
      BY <2>1, <2>2, StartedStays DEF LedgerInv, BurstInv, Mind
    <2>4. Alive(q)
      BY <1>3, <2>2 DEF Alive, BurstView, Rests, Begins, Ends
    <2>5. QED
      BY <1>1, <1>2, <2>3, <2>4 DEF Accounts, Bracket
  <1>4. QED
    BY <1>1, <1>2, <1>3 DEF Accounts

\* A burst that is killed leaves its charges to the day, and the others as they were.
LEMMA AccountsInterrupted ==
    ASSUME LedgerInv, BurstInv', Accounts, NEW p \in Processes, Interrupted(p), [BurstNext]_allVars
    PROVE  Accounts'
  <1>1. /\ UNCHANGED <<wal, owner, actual, day, charged>> /\ Base' = Base
        /\ at[p] \in {"loop", "iterating"}
        /\ at' = [at EXCEPT ![p] = IF at[p] = "loop" THEN "stopped" ELSE "killed"]
        /\ \A c \in Calls :
              pc'[c] = IF owner[c] = p /\ pc[c] \in Running THEN "dead" ELSE pc[c]
        /\ \A q \in Processes \ {p} : state'[q] = state[q]
    BY InterruptedMoves DEF LedgerInv, BurstInv
  <1>2. \A c \in Calls : /\ pc'[c] \notin Answered => pc[c] \notin Answered
                         /\ pc'[c] # pc[c] => pc'[c] = "dead" /\ pc[c] # "done"
    BY <1>1 DEF Answered, Running
  <1>3. Charge' = Charge
    BY <1>1, <1>2 DEF Charge, Accounts, Answered
  <1>4. Recorded' = Recorded /\ \A q : Own(q)' = Own(q)
    BY <1>1, <1>2 DEF Recorded, Own
  <1>5. ASSUME NEW q \in Processes, Alive(q)' PROVE Bracket(q)'
    <2>1. q # p /\ Alive(q)
      BY <1>1, <1>5 DEF Alive, LedgerInv, BurstInv, Shaped
    <2>2. TodayCost(q)' = TodayCost(q)
      BY <1>1, <2>1 DEF TodayCost, WalCost
    <2>3. BurstView(q)
      BY BurstViews DEF LedgerInv, BurstInv
    <2>4. Started(q)' = Started(q)
      BY <2>2, <2>3, StartedStays DEF LedgerInv, BurstInv, Mind
    <2>5. QED
      BY <1>1, <1>4, <2>1, <2>4 DEF Accounts, Bracket
  <1>6. QED
    BY <1>1, <1>2, <1>3, <1>4, <1>5 DEF Accounts

\* Nothing is charged and nothing shown.
LEMMA LedgerInit == BurstInit => LedgerInv
  <1> SUFFICES ASSUME BurstInit PROVE LedgerInv
    OBVIOUS
  <1>1. BurstInv
    BY BurstInvInit
  <1>2. /\ wal = {} /\ state = [p \in Processes |-> FreshState] /\ pc = [c \in Calls |-> "idle"]
        /\ day = 1 /\ charged = NoCost /\ disk = NoFile /\ at = [p \in Processes |-> "new"]
        /\ rows = [p \in Processes |-> <<>>]
    BY DEF BurstInit, Init
  <1>3. WalTidy /\ Unstarted
    BY <1>2 DEF WalTidy, Unstarted
  <1>4. Base.cost[1] = 0 /\ charged[1] = 0 /\ \A p \in Processes : state[p].cost[1] = 0
    <2>1. 1 \in AllDays
      BY <1>1, CostTypes DEF BurstInv
    <2>2. Base = FreshState /\ FreshState.cost[1] = 0 /\ charged[1] = 0
      BY <1>2, <2>1 DEF Base, FreshState, NoCost
    <2>3. QED
      BY <1>2, <2>2
  <1>5. Sum(Charge) = 0 /\ Sum(Recorded) = 0 /\ \A p \in Processes : Own(p) = 0
    <2>1. /\ Charge \in [Calls -> Nat] /\ Recorded \in [Calls -> Nat]
          /\ \A p : OwnCosts(p) \in [Calls -> Nat] /\ Own(p) = Sum(OwnCosts(p))
      BY <1>1, CostTypes DEF BurstInv
    <2>2. \A c \in Calls : Charge[c] = 0 /\ Recorded[c] = 0 /\ \A p : OwnCosts(p)[c] = 0
      BY <1>2 DEF Charge, Recorded, OwnCosts, Answered
    <2>3. ASSUME NEW f \in [Calls -> Nat], \A c \in Calls : f[c] = 0 PROVE Sum(f) = 0
      BY <2>3, SumOfCalls, SumZero, BudgetParameters
    <2>4. QED
      BY <2>1, <2>2, <2>3
  <1>6. ASSUME NEW p \in Processes PROVE Bracket(p)
    <2>1. Started(p) = 0
      <3>1. ~Busy(p) /\ rows[p] = <<>> /\ WalCost = 0
        BY <1>2, NoWalNoCost DEF Busy
      <3>2. TodayCost(p) = 0
        BY <1>2, <1>4, <3>1 DEF TodayCost
      <3>3. QED
        BY <3>1, <3>2, TotalOfNone DEF Started
    <2>2. QED
      BY <1>4, <1>5, <2>1 DEF Bracket
  <1>7. Accounts
    BY <1>4, <1>5, <1>6 DEF Accounts, BurstInit, Init
  <1>8. QED
    BY <1>1, <1>3, <1>7 DEF LedgerInv

\* Every step keeps the accounts, until midnight or a walled call ends what they claim.
LEMMA LedgerStep == LedgerInv /\ [BurstNext]_allVars => LedgerInv'
  <1> SUFFICES ASSUME LedgerInv, [BurstNext]_allVars PROVE LedgerInv'
    OBVIOUS
  <1>1. BurstInv' /\ WalTidy' /\ Unstarted'
    BY BurstInvStep, WalTidyStep, UnstartedStep DEF LedgerInv, BurstInv
  <1>2. ASSUME Quiet' PROVE Accounts'
    <2>1. ASSUME NEW p \in Processes, Start(p) PROVE Accounts'
      <3>1. Quiet
        BY <1>2, <2>1 DEF Start, Quiet
      <3>2. QED
        BY <1>1, <2>1, <3>1, AccountsStart DEF LedgerInv
    <2>2. ASSUME NEW c \in Calls, Metered(c), at[owner[c]] = "iterating", UNCHANGED <<at, before, rows>>
          PROVE  Accounts'
      <3>1. Quiet
        <4>1. /\ day' = day /\ pc[c] # "walled" /\ \A d \in Calls \ {c} : pc'[d] = pc[d]
          BY <2>2, MeteredMoves DEF LedgerInv, BurstInv
        <4>2. QED
          BY <1>2, <4>1 DEF Quiet
      <3>2. QED
        BY <1>1, <1>2, <2>2, <3>1, AccountsMeters DEF LedgerInv
    <2>3. CASE NewDay
      <3>1. day' # 1
        BY <2>3 DEF NewDay, LedgerInv, BurstInv, FileInv, Typed, AllDays
      <3>2. QED
        BY <1>2, <3>1 DEF Quiet
    <2>4. CASE UNCHANGED vars
      <3>1. Quiet
        BY <1>2, <2>4 DEF vars, Quiet
      <3>2. QED
        BY <1>1, <2>4, <3>1, AccountsRest DEF LedgerInv
    <2>5. ASSUME NEW p \in Processes, Interrupted(p) PROVE Accounts'
      <3>1. /\ day' = day
            /\ \A c \in Calls :
                  pc'[c] = IF owner[c] = p /\ pc[c] \in Running THEN "dead" ELSE pc[c]
        BY <2>5, InterruptedMoves DEF LedgerInv, BurstInv
      <3>2. Quiet
        BY <1>2, <3>1 DEF Quiet, Running
      <3>3. QED
        BY <1>1, <2>5, <3>2, AccountsInterrupted DEF LedgerInv
    <2>6. QED
      BY <2>1, <2>2, <2>3, <2>4, <2>5, BurstSteps DEF LedgerInv, BurstInv
  <1>3. QED
    BY <1>1, <1>2 DEF LedgerInv

\* All rows of a burst that was not killed show no less together than its own calls
\* were billed and no more than all calls of the day were, for any number of parallel
\* bursts.
THEOREM LedgerBracketsSpend == BurstSpec => []RowsBracketSpend
  <1>1. LedgerInv => RowsBracketSpend
    <2> SUFFICES ASSUME LedgerInv, Quiet, NEW p \in Processes, Alive(p)
                 PROVE  Own(p) <= Shown(p) /\ Shown(p) <= charged[1]
      BY DEF RowsBracketSpend, Quiet, Alive
    <2>1. Bracket(p)
      BY DEF LedgerInv, Accounts
    <2>2. TodayCost(p) = state[p].cost[1]
      <3>1. WalCost = 0
        BY QuietWal, NoWalNoCost DEF LedgerInv
      <3>2. state[p].cost[1] \in Nat
        BY LedgerTypes DEF LedgerInv
      <3>3. QED
        BY <3>1, <3>2 DEF TodayCost, Quiet
    <2>3. Shown(p) = TodayCost(p) - Started(p)
      BY ShownSinceStart DEF LedgerInv, BurstInv, Mind
    <2>4. Started(p) \in Int /\ state[p].cost[1] \in Int /\ Own(p) \in Int /\ charged[1] \in Int
      BY LedgerTypes, CostTypes DEF LedgerInv, BurstInv, FileInv, Typed
    <2>5. QED
      BY <2>1, <2>2, <2>3, <2>4 DEF Bracket
  <1>2. QED
    BY <1>1, LedgerInit, LedgerStep, PTL DEF BurstSpec

=============================================================================
