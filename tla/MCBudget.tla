------------------------------ MODULE MCBudget ------------------------------
(***************************************************************************)
(* Instances of Budget for TLC.                                            *)
(***************************************************************************)
EXTENDS Budget, TLC

MCSymmetry == Permutations(Processes) \cup Permutations(Calls)

=============================================================================
