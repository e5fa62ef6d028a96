----------------------------- MODULE MCEventLog -----------------------------
(***************************************************************************)
(* An instance of EventLog for TLC.  It has no symmetry, because a         *)
(* liveness property is checked.                                           *)
(***************************************************************************)
EXTENDS EventLog

=============================================================================
