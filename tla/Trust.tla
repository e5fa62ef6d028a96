------------------------------- MODULE Trust -------------------------------
(***************************************************************************)
(* The trust lattice of memory entries and the table of authority that     *)
(* guards a store: which role may write to a tier (csis/memory/trust.py    *)
(* and csis/safety/tier_guard.py).  Constant definitions only: every       *)
(* module that handles memory entries is built on them.                    *)
(***************************************************************************)
EXTENDS Integers

\* Trust levels.  The integers are the ones of the IntEnum: the code compares
\* trust levels as integers, and DEPRECATED is below all the others.
DEPRECATED == -1
RAW        == 0
UNTRUSTED  == 1
CANDIDATE  == 2
VERIFIED   == 3
PROMOTED   == 4

TrustLevels == DEPRECATED .. PROMOTED

\* Seeded fault: DEPRECATED is not terminal.
ValidPromotionRevives(current, target) ==
    target = DEPRECATED \/ target > current

\* A promotion moves strictly up; DEPRECATED is reachable from every other
\* level and nothing leaves it.
ValidPromotion(current, target) ==
    /\ current # DEPRECATED
    /\ target = DEPRECATED \/ target > current

TierNames == {"working", "episodic", "semantic", "procedural", "causal"}

Roles == {"coordinator", "researcher", "builder", "critic", "verifier",
          "librarian", "auditor", "overseer"}

\* The capability tier (T0 .. T4) of the consumers of a memory tier: the
\* Builder, at T1, loads skills from procedural memory.
ConsumerTier(tier) == IF tier = "procedural" THEN 1 ELSE 0

\* The capability ceiling of a role; an unknown role has T0.
Ceiling(role) ==
    CASE role \in {"builder", "verifier"} -> 1
      [] role = "overseer" -> 4
      [] OTHER -> 0

\* TierGuard.write_tier: a write needs a ceiling at least as high as the tier
\* its readers act at.
MayWriteTier(role, tier) == Ceiling(role) >= ConsumerTier(tier)

=============================================================================
