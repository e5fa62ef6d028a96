-------------------------- MODULE MCDistributional --------------------------
(***************************************************************************)
(* An instance of Distributional for TLC: masks and points of two or three *)
(* positions, populations of up to three cases, and graders whose interval *)
(* is wide, narrow (its two indices meet) or falls on whole numbers.       *)
(***************************************************************************)
EXTENDS Distributional

Third == [num |-> 1, den |-> 3]
Quarter == [num |-> 1, den |-> 4]
Half == [num |-> 1, den |-> 2]

MCGraders ==
    {[kind |-> "dice", threshold |-> 8, ci |-> Half, bootstraps |-> 4],
     [kind |-> "dice", threshold |-> 8, ci |-> Quarter, bootstraps |-> 3],
     [kind |-> "iou", threshold |-> 6, ci |-> Third, bootstraps |-> 3],
     [kind |-> "iou", threshold |-> 6, ci |-> Half, bootstraps |-> 1],
     [kind |-> "landmark", threshold |-> 12, ci |-> Half, bootstraps |-> 3],
     [kind |-> "assd", threshold |-> 12, ci |-> Half, bootstraps |-> 4]}

MCSlices == <<"modality=CT", "organ=liver", "organ=lung">>

\* Agreement, disagreement by one and by two, partial overlap, a missing surface.
Cases ==
    {<<{1}, {1}>>, <<{1}, {2}>>, <<{1}, {3}>>, <<{1, 2}, {1, 3}>>, <<{1, 2}, {1}>>, <<{}, {1}>>}

Sample(case, slices) == [pred |-> case[1], truth |-> case[2], slices |-> slices]

Few == {<<{1}, {1}>>, <<{1}, {3}>>, <<{1, 2}, {1, 3}>>, <<{1, 2}, {1}>>}

\* Three cases of which two share an organ and two a modality, two cases, one, none.
MCPopulations ==
    {<<>>} \cup {<<Sample(c, {"organ=lung"})>> : c \in Cases}
    \cup {<<Sample(a, {"modality=CT", "organ=liver"}), Sample(b, {"organ=liver"})>> : a, b \in Cases}
    \cup {<<Sample(a, {"modality=CT", "organ=liver"}), Sample(b, {"modality=CT", "organ=lung"}),
            Sample(c, {"organ=lung"})>> : a, b, c \in Few}

\* The units are fine enough for every metric of these cases to be exact, and the
\* two overlaps are what they are by definition: 2i / (p + t) and i / (p + t - i).
ASSUME Exact ==
    \A c \in Cases :
        LET p == Cardinality(c[1])  t == Cardinality(c[2])  i == Cardinality(c[1] \cap c[2]) IN
        /\ Dice(c[1], c[2]) * (p + t) = 2 * i * Scale
        /\ Iou(c[1], c[2]) * (p + t - i) = i * Scale
        /\ Iou(c[1], c[2]) <= Dice(c[1], c[2])

=============================================================================
