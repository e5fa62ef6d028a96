--------------------------- MODULE Distributional ---------------------------
(***************************************************************************)
(* csis.verification.distributional_graders: a grader computes a metric of *)
(* each case, bootstraps a percentile interval for their mean, then one    *)
(* for every slice with enough cases, and compares a bound of the interval *)
(* with its threshold.                                                     *)
(*                                                                         *)
(* The random generator belongs to the grader and goes on from evaluation  *)
(* to evaluation, so each resample is a nondeterministic choice.  Metrics  *)
(* are integers in units of 1/Scale, a mean is kept as the sum it divides, *)
(* and a confidence level is a fraction.  A product of floats that should  *)
(* be an integer may come out just below it.                               *)
(***************************************************************************)
EXTENDS Integers, FiniteSets, FiniteSetsExt, Sequences, SequencesExt

CONSTANTS
    Scale,       \* units of a metric
    Graders,     \* the graders, as constructed: a set of Grader
    SliceCap,    \* n_bootstrap of a slice at most (200)
    SliceMinN,   \* slice_min_n
    WorstK,      \* k of worst_slices
    Slices,      \* (key, value) pairs that name slices, in sorted order
    Populations, \* lists of samples: [pred, truth, slices]
    None,        \* no threshold: a grader class that sets none (the four here do)
    Inf          \* the float inf, and a metric that raises

All == "all"

ASSUME DistributionalParameters ==
    /\ Scale \in Nat \ {0}
    /\ SliceCap \in Nat \ {0} /\ SliceMinN \in Nat \ {0} /\ WorstK \in Nat
    /\ \A g \in Graders :
          /\ g.kind \in {"dice", "iou", "landmark", "assd"}
          /\ g.threshold \in Nat \cup {None}
          /\ g.bootstraps \in Nat \ {0}
          /\ g.ci.num \in Nat \ {0} /\ g.ci.den \in Nat /\ g.ci.num < g.ci.den
    /\ Slices \in Seq(ToSet(Slices)) /\ All \notin ToSet(Slices)
    /\ \A m, n \in DOMAIN Slices : Slices[m] = Slices[n] => m = n
    /\ \A list \in Populations :
          /\ list \in Seq(ToSet(list))
          /\ \A n \in DOMAIN list :
                /\ IsFiniteSet(list[n].pred) /\ list[n].pred \subseteq Int
                /\ IsFiniteSet(list[n].truth) /\ list[n].truth \subseteq Int
    /\ None \notin Nat /\ Inf \notin Int

-----------------------------------------------------------------------------
(* The metric of a case.  A mask is the set of its positions.              *)

Dice(pred, truth) ==
    IF pred = {} /\ truth = {} THEN Scale
    ELSE (2 * Cardinality(pred \cap truth) * Scale) \div (Cardinality(pred) + Cardinality(truth))

Iou(pred, truth) ==
    IF pred \cup truth = {} THEN Scale
    ELSE (Cardinality(pred \cap truth) * Scale) \div Cardinality(pred \cup truth)

Distance(a, b) == IF a < b THEN b - a ELSE a - b

Total(f, S) == MapThenSumSet(LAMBDA x : f[x], S)

\* Landmarks in one dimension: as many as there are of the other, in ascending order.
Place(points, p) == Cardinality({q \in points : q < p})

LandmarkError(pred, truth) ==
    LET pairs == {pair \in pred \X truth : Place(pred, pair[1]) = Place(truth, pair[2])}
    IN Total([pair \in pairs |-> Scale * Distance(pair[1], pair[2])], pairs) \div Cardinality(pred)

Directed(from, to) == Max({Min({Distance(a, b) : b \in to}) : a \in from})

Hausdorff(pred, truth) ==
    IF pred = {} \/ truth = {} THEN Inf
    ELSE Scale * Max({Directed(pred, truth), Directed(truth, pred)})

PerSampleMetric(kind, sample) ==
    CASE kind = "dice"     -> Dice(sample.pred, sample.truth)
      [] kind = "iou"      -> Iou(sample.pred, sample.truth)
      [] kind = "landmark" -> IF Cardinality(sample.pred) # Cardinality(sample.truth) \/ sample.pred = {}
                              THEN Inf
                              ELSE LandmarkError(sample.pred, sample.truth)
      [] kind = "assd"     -> Hausdorff(sample.pred, sample.truth)

HigherIsBetter(kind) == kind \in {"dice", "iou"}

-----------------------------------------------------------------------------
(* The percentile interval.                                                *)

\* int() of a product of floats that is exactly num/den on paper.
Truncations(num, den) ==
    {num \div den} \cup (IF num > 0 /\ num % den = 0 THEN {num \div den - 1} ELSE {})

LowerIndices(ci, n) == Truncations((ci.den - ci.num) * n, 2 * ci.den)

UpperIndices(ci, n, lower) ==
    {Max({lower, Min({n - 1, up - 1})}) : up \in Truncations((ci.den + ci.num) * n, 2 * ci.den)}

\* An index of Python: a negative one counts from the end.
At(list, index) == list[(index % Len(list)) + 1]

\* resampled_stats, sorted when the last of them is there.
Insert(sorted, x) == InsertAt(sorted, Cardinality({n \in DOMAIN sorted : sorted[n] <= x}) + 1, x)

\* Seeded fault: the bound that is easier to clear.
PassedGenerously(g, n, lower, upper) ==
    \/ g.threshold = None
    \/ HigherIsBetter(g.kind) /\ upper >= g.threshold * n
    \/ ~HigherIsBetter(g.kind) /\ lower <= g.threshold * n

\* _passed, for bounds that are sums over n cases.
Passed(g, n, lower, upper) ==
    \/ g.threshold = None
    \/ HigherIsBetter(g.kind) /\ lower >= g.threshold * n
    \/ ~HigherIsBetter(g.kind) /\ upper <= g.threshold * n

-----------------------------------------------------------------------------

VARIABLES
    grader,   \* the grader that evaluates
    samples,
    metrics,  \* per_sample
    turn,     \* what is bootstrapped: 0 is the whole population, k the k-th slice
    drawn,    \* sorted means of its resamples so far
    reports   \* what was reported: the whole population, then slices

vars == <<grader, samples, metrics, turn, drawn, reports>>

Over == Len(Slices) + 1

Init ==
    /\ grader \in Graders
    /\ samples \in Populations
    /\ metrics = <<>>
    /\ turn = 0
    /\ drawn = <<>>
    /\ reports = <<>>

\* Seeded fault: a case counts for the last slice it names only.
CarriersOfLast(slice) ==
    {n \in DOMAIN samples :
        \E k \in DOMAIN Slices :
            /\ Slices[k] = slice /\ slice \in samples[n].slices
            /\ \A m \in DOMAIN Slices : Slices[m] \in samples[n].slices => m <= k}

\* The cases that carry a slice.
Carriers(slice) == {n \in DOMAIN samples : slice \in samples[n].slices}

CasesOf(k) == IF k = 0 THEN DOMAIN samples ELSE Carriers(Slices[k])

\* Slices with too few cases are left out.
Following(k) ==
    Min({m \in k + 1 .. Over : m = Over \/ Cardinality(CasesOf(m)) >= SliceMinN})

\* No samples: a failed result, without looking at the threshold.
EvaluateNothing ==
    /\ samples = <<>> /\ reports = <<>>
    /\ reports' = <<[name |-> All, n |-> 0, point |-> 0, lower |-> 0, upper |-> 0,
                     passed |-> FALSE]>>
    /\ turn' = Over
    /\ UNCHANGED <<grader, samples, metrics, drawn>>

\* per_sample_metric of every case.  An infinite one makes bootstrap_ci raise,
\* and evaluate with it; so does a case that a metric refuses.
Measure ==
    LET values == [n \in DOMAIN samples |-> PerSampleMetric(grader.kind, samples[n])] IN
    /\ samples # <<>> /\ metrics = <<>>
    /\ metrics' = values
    /\ turn' = IF \E n \in DOMAIN values : values[n] = Inf THEN Over ELSE 0
    /\ UNCHANGED <<grader, samples, drawn, reports>>

\* Resamples of the population at hand: a slice has fewer of them.
Wanted == IF turn = 0 THEN grader.bootstraps ELSE Min({grader.bootstraps, SliceCap})

\* The sums a resample can have, which has as many cases as there are.
ResampleSums(cases) ==
    {Total([n \in cases |-> metrics[draw[n]]], cases) : draw \in [cases -> cases]}

Resample ==
    /\ metrics # <<>> /\ turn # Over
    /\ Len(drawn) < Wanted
    /\ \E sum \in ResampleSums(CasesOf(turn)) : drawn' = Insert(drawn, sum)
    /\ UNCHANGED <<grader, samples, metrics, turn, reports>>

\* The bounds are read off the sorted list and judged.  The result rounds what
\* it shows, after the judgement.
Report ==
    LET cases == CasesOf(turn)
        n == Cardinality(cases)
    IN
    /\ metrics # <<>> /\ turn # Over
    /\ Len(drawn) = Wanted
    /\ \E low \in LowerIndices(grader.ci, Wanted) : \E up \in UpperIndices(grader.ci, Wanted, low) :
          reports' = Append(reports,
              [name |-> IF turn = 0 THEN All ELSE Slices[turn], n |-> n, point |-> Total(metrics, cases),
               lower |-> At(drawn, low), upper |-> At(drawn, up),
               passed |-> Passed(grader, n, At(drawn, low), At(drawn, up))])
    /\ drawn' = <<>>
    /\ turn' = Following(turn)
    /\ UNCHANGED <<grader, samples, metrics>>

Next == EvaluateNothing \/ Measure \/ Resample \/ Report

Spec == Init /\ [][Next]_vars

-----------------------------------------------------------------------------
(* The hook for the Critic.                                                *)

Finished == reports # <<>> /\ turn = Over

SliceReports == Tail(reports)

\* point_estimate of a is better than that of b.
Better(a, b) ==
    IF HigherIsBetter(grader.kind) THEN a.point * b.n > b.point * a.n ELSE a.point * b.n < b.point * a.n

\* Seeded fault: sorted the same way whatever the direction is.
ComesBeforeAscending(m, n) ==
    LET a == SliceReports[m]  b == SliceReports[n]
    IN a.point * b.n < b.point * a.n \/ (a.point * b.n = b.point * a.n /\ m < n)

\* A stable sort by the point estimate, the worst first.
ComesBefore(m, n) ==
    LET a == SliceReports[m]  b == SliceReports[n]
    IN Better(b, a) \/ (~Better(a, b) /\ m < n)

\* The report that k others come before.
Sorted(k) ==
    CHOOSE n \in DOMAIN SliceReports : Cardinality({m \in DOMAIN SliceReports : ComesBefore(m, n)}) = k

\* worst_slices: the first k of them.
WorstSlices == [k \in 1 .. Min({WorstK, Len(SliceReports)}) |-> SliceReports[Sorted(k - 1)]]

-----------------------------------------------------------------------------
(* Properties.                                                             *)

Misses(sum, n) ==
    IF HigherIsBetter(grader.kind) THEN sum < grader.threshold * n ELSE sum > grader.threshold * n

\* A verdict is conservative, in either direction and at any confidence level: of
\* the resamples it rests on, at most the share of one tail, and one more, miss
\* the threshold that was passed.
ConservativePass ==
    [][\A r \in DOMAIN reports' \ DOMAIN reports :
          LET rep == reports'[r]
              missing == Cardinality({n \in DOMAIN drawn : Misses(drawn[n], rep.n)})
          IN rep.passed /\ grader.threshold # None =>
                 2 * grader.ci.den * missing
                     <= (grader.ci.den - grader.ci.num) * Len(drawn) + 2 * grader.ci.den]_vars

\* When all cases that carry a slice are on one side of the threshold, no draw
\* can turn the verdict on that slice, nor the cases outside it; and a slice
\* with enough cases has a verdict.
VerdictFollowsCases ==
    Finished /\ grader.threshold # None => \A slice \in ToSet(Slices) :
        LET carriers == {n \in DOMAIN samples : slice \in samples[n].slices}
            own == {metrics[n] : n \in carriers}
            enough == Cardinality(carriers) >= SliceMinN
            verdicts == {reports[r].passed : r \in {q \in DOMAIN reports : reports[q].name = slice}}
        IN samples # <<>> =>
               /\ enough <=> verdicts # {}
               /\ (\A v \in own : ~Misses(v, 1)) => FALSE \notin verdicts
               /\ (\A v \in own : Misses(v, 1)) => TRUE \notin verdicts

\* No slice that is kept from the Critic is worse than one that is given to it, and it
\* is given as many different ones as there are.
CriticGetsWorst ==
    Finished =>
        /\ Cardinality(ToSet(WorstSlices)) = Min({WorstK, Len(SliceReports)})
        /\ \A w \in ToSet(WorstSlices), s \in ToSet(SliceReports) \ ToSet(WorstSlices) :
              ~Better(w, s)

=============================================================================
