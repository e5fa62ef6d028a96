---------------------------- MODULE Verification ----------------------------
(***************************************************************************)
(* csis.verification and csis.agents.verifier as far as they decide: what  *)
(* the Critic's answer counts for, how far two checkpoint identities       *)
(* differ, and what makes a certificate pass.  The texts of plans,         *)
(* artifacts and findings are left out.                                    *)
(***************************************************************************)
EXTENDS Naturals, FiniteSets, Sequences

CONSTANTS
    Graders,      \* names in the registry
    MinAttempts,  \* critic_min_attempts
    Checkpoints,  \* names of checkpoints
    IdentityOf(_) \* checkpoint_identity of the backend

IdentityKeys == {"checkpoint_id", "model_id", "tool_set", "backend"}

MinDistinct == 2

ASSUME VerificationParameters ==
    /\ IsFiniteSet(Graders)
    /\ MinAttempts \in Nat
    /\ \A c \in Checkpoints : DOMAIN IdentityOf(c) = IdentityKeys

\* What an item of the Critic's JSON array may be: an attempt that found a
\* problem, one that did not, an object without the key, and no object at all.
CriticItems == {"falsified", "held", "silent", "junk"}

\* The Critic's answers: arrays of at most MinAttempts items.  No array at all, or
\* one that cannot be parsed, is the empty one.
CriticAnswers == UNION {[1 .. n -> CriticItems] : n \in 0 .. MinAttempts}

\* parse_critic_output: objects are findings, falsified or not; an object without
\* the key is an attempt that did not falsify.
Findings(answer) ==
    LET objects == {n \in DOMAIN answer : answer[n] # "junk"}
        Nth(n) == CHOOSE m \in objects : Cardinality({k \in objects : k <= m}) = n
    IN [n \in 1 .. Cardinality(objects) |-> answer[Nth(n)] = "falsified"]

\* Seeded fault: any difference will do.
AnyDifference(builder, verifier) == IdentityOf(builder) # IdentityOf(verifier)

\* assert_cross_checkpoint.
CrossCheckpoint(builder, verifier) ==
    Cardinality({k \in IdentityKeys : IdentityOf(builder)[k] # IdentityOf(verifier)[k]}) >= MinDistinct

\* Seeded fault: an empty answer of the Critic is no objection.
PassesUnattempted(results, findings) ==
    /\ \A g \in Graders : results[g]
    /\ \A n \in DOMAIN findings : ~findings[n]

\* The verdict of build_certificate.  A grader that raises has failed.
Passes(results, findings) ==
    /\ \A g \in Graders : results[g]
    /\ \A n \in DOMAIN findings : ~findings[n]
    /\ Len(findings) >= MinAttempts

Certificate(results, findings) ==
    [passed |-> Passes(results, findings), results |-> results, findings |-> findings]

=============================================================================
