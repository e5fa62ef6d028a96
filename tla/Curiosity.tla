------------------------------ MODULE Curiosity ------------------------------
(***************************************************************************)
(* csis.curiosity: what to work on next.  The state of a Curiosity object  *)
(* is a record                                                             *)
(*     [seeds, followups, recent, index]                                   *)
(* of the number of its seeds, the follow-ups of iterations that rolled    *)
(* back, the items of those that promoted, and the place in the rotation.  *)
(* A text is a record too: what it is about (a seed or the gap of a tier), *)
(* the number of the seed or of the entries the tier has, the salt, and    *)
(* how many failures it quotes.                                            *)
(***************************************************************************)
EXTENDS Integers, Sequences

CONSTANTS
    FollowUpMax, \* maxlen of _rollback_followups (16)
    RecentMax,   \* maxlen of recent (8)
    GapLimit,    \* the most entries of a tier that has a gap (10)
    Salts        \* values of the salt (0 .. 9999)

ASSUME CuriosityParameters ==
    /\ FollowUpMax \in Nat \ {0} /\ RecentMax \in Nat \ {0} /\ GapLimit \in Nat
    /\ Salts # {}

\* The tiers whose gaps count, in the order of tier_names().
GapTiers == <<"episodic", "semantic", "procedural">>

GapNames == {GapTiers[n] : n \in DOMAIN GapTiers}

SeedText(n) == [about |-> "seed", n |-> n, salt |-> 0, tries |-> 0]

GapText(tier, count, salt) == [about |-> tier, n |-> count, salt |-> salt, tries |-> 0]

\* "re-investigate '...': previous attempt failed (...)"
FollowUp(text) == [text EXCEPT !.tries = @ + 1]

\* A deque with a maxlen drops from its other end.
Pushed(queue, text, max) ==
    LET longer == Append(queue, text)
    IN IF Len(longer) > max THEN Tail(longer) ELSE longer

NewCuriosity(seeds) == [seeds |-> seeds, followups |-> <<>>, recent |-> <<>>, index |-> 0]

RecordRollback(c, text) ==
    [c EXCEPT !.followups = Pushed(@, FollowUp(text), FollowUpMax)]

\* Seeded fault: recent has no maxlen.
RecordPromotedForEver(c, text) == [c EXCEPT !.recent = Append(@, text)]

RecordPromoted(c, text) == [c EXCEPT !.recent = Pushed(@, text, RecentMax)]

\* _gap_driven: the texts it may return for the number of live entries per tier;
\* of the tiers with the fewest the first one counts.
GapDriven(counts) ==
    LET n == CHOOSE n \in DOMAIN GapTiers : \A m \in DOMAIN GapTiers :
                 \/ counts[GapTiers[n]] < counts[GapTiers[m]]
                 \/ counts[GapTiers[n]] = counts[GapTiers[m]] /\ n <= m
        fewest == counts[GapTiers[n]]
    IN IF fewest > GapLimit THEN {} ELSE {GapText(GapTiers[n], fewest, salt) : salt \in Salts}

\* The rotation, skipping what is in recent; when everything is, a random seed.
SeedRotation(c) ==
    LET seed(k) == SeedText((c.index + k) % c.seeds)
        isRecent(text) == \E n \in DOMAIN c.recent : c.recent[n] = text
        open == {k \in 0 .. c.seeds - 1 : ~isRecent(seed(k))}
        first == CHOOSE k \in open : \A m \in open : k <= m
    IN IF open = {}
       THEN {[text |-> seed(k), then |-> c] : k \in 0 .. c.seeds - 1}
       ELSE {[text |-> seed(first), then |-> [c EXCEPT !.index = (@ + first + 1) % c.seeds]]}

\* Seeded fault: gaps before follow-ups.
NextItemsGapFirst(c, counts) ==
    CASE GapDriven(counts) # {} -> {[text |-> text, then |-> c] : text \in GapDriven(counts)}
      [] GapDriven(counts) = {} /\ c.followups # <<>> ->
             {[text |-> Head(c.followups), then |-> [c EXCEPT !.followups = Tail(@)]]}
      [] OTHER -> SeedRotation(c)

\* next(): what it may return, and the state it leaves.
NextItems(c, counts) ==
    CASE c.followups # <<>> ->
             {[text |-> Head(c.followups), then |-> [c EXCEPT !.followups = Tail(@)]]}
      [] c.followups = <<>> /\ GapDriven(counts) # {} ->
             {[text |-> text, then |-> c] : text \in GapDriven(counts)}
      [] OTHER -> SeedRotation(c)

=============================================================================
