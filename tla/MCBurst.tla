------------------------------- MODULE MCBurst -------------------------------
(***************************************************************************)
(* An instance of Burst for TLC: two short bursts that pay for their calls *)
(* on one budget, and one long burst on the mock backend for every number  *)
(* of seeds, with and without gaps in the memory.                          *)
(***************************************************************************)
EXTENDS Burst, TLC

CONSTANTS p, q

Full == [episodic |-> 2, semantic |-> 2, procedural |-> 2]
NoSemantic == [episodic |-> 2, semantic |-> 0, procedural |-> 2]
FewEpisodic == [episodic |-> 0, semantic |-> 2, procedural |-> 2]

Idle == [iters |-> 0, backend |-> "mock", seeds |-> 1, live |-> Full]

Paying(iters) == [iters |-> iters, backend |-> "anthropic", seeds |-> 2, live |-> Full]

MCPlans ==
    {p :> Paying(2) @@ q :> Paying(1)}
    \cup {p :> [iters |-> 7, backend |-> "mock", seeds |-> n, live |-> live] @@ q :> Idle :
             n \in 1 .. 3, live \in {Full, NoSemantic, FewEpisodic}}

MCAgents == <<"builder", "critic">>

MCSymmetry == Permutations(Calls)

=============================================================================
