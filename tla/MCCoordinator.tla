---------------------------- MODULE MCCoordinator ----------------------------
(***************************************************************************)
(* Instances of Coordinator for TLC.                                       *)
(***************************************************************************)
EXTENDS Coordinator, TLC

\* One tier the Librarian may write to and the one it may not.
MCTiers == <<"episodic", "procedural">>

\* Two tiers it may write to.
MCOpenTiers == <<"episodic", "semantic">>

\* One backend: "renamed" differs from "base" in its name only, "other" in its
\* model as well.
MCIdentityOf(c) ==
    [k \in IdentityKeys |->
        CASE k = "checkpoint_id" -> c
          [] k = "model_id" /\ c = "other" -> "sonnet"
          [] k = "model_id" /\ c # "other" -> "opus"
          [] OTHER -> "same"]

MCConfigurations == [builder : {"base"}, auditor : {"base", "renamed", "other"}]

\* The configuration of the defaults.
MCDefaultConfiguration == [builder : {"base"}, auditor : {"other"}]

MCSymmetry == Permutations(EntryIds) \cup Permutations(Iterations)

=============================================================================
