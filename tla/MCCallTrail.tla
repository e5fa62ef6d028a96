----------------------------- MODULE MCCallTrail -----------------------------
(***************************************************************************)
(* An instance of CallTrail for TLC: two calls, of one process or of two.  *)
(* No symmetry, because a liveness property is checked.                    *)
(***************************************************************************)
EXTENDS CallTrail

\* One estimate is above the ceiling of a call, and two of the other are above the cap.
MCEstimates == {2, 3}

=============================================================================
