------------------------------ MODULE MCDaemon ------------------------------
(***************************************************************************)
(* An instance of Daemon for TLC.  The constants are small enough that the *)
(* pacing window, the snapshot boundary and the total are all passed.      *)
(***************************************************************************)
EXTENDS Daemon

\* The window must fill, and a snapshot boundary must come before the end.
ASSUME CasesHappen == Rate <= RecentLen /\ RecentLen < MaxTotal /\ SnapshotEvery < MaxTotal

=============================================================================
