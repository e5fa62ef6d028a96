---------------------------- MODULE MCMemoryStore ----------------------------
(***************************************************************************)
(* Instances of MemoryStore for TLC.                                       *)
(***************************************************************************)
EXTENDS MemoryStore, TLC

CONSTANTS e1, e2

\* Every list of at most two ids: the empty batch, single entries, the pair in
\* both orders, and the batches that name one entry twice.
MCBatches == {<<>>} \cup {<<a>> : a \in {e1, e2}} \cup {<<a, b>> : a, b \in {e1, e2}}

\* The librarian and a caller that names no role.
MCRoles == {"librarian", None}

\* What the program's own writers use, and a candidate that was deprecated.
MCWrittenTrust == {CANDIDATE, DEPRECATED}

MCSymmetry == Permutations(Clients) \cup Permutations(Contents) \cup Permutations(Reasons)

=============================================================================
