------------------------------ MODULE LinearLog ------------------------------
(***************************************************************************)
(* What the event log promises its users: one sequence of events that only *)
(* grows, shared by all processes, in which an event is found from the     *)
(* moment its emit() returns.  Abstract specification; EventLog.tla is the *)
(* implementation.                                                         *)
(***************************************************************************)
EXTENDS Sequences

CONSTANT Events  \* the events emit() is called with

VARIABLES
    log,    \* the events, in the order of their seq numbers
    acked   \* the events whose emit() has returned

vars == <<log, acked>>

Logged == {log[i] : i \in DOMAIN log}

Init ==
    /\ log = <<>>
    /\ acked = {}

Append1(e) ==
    /\ e \notin Logged
    /\ log' = Append(log, e)
    /\ UNCHANGED acked

Acknowledge(e) ==
    /\ e \in Logged
    /\ acked' = acked \cup {e}
    /\ UNCHANGED log

Next == \E e \in Events : Append1(e) \/ Acknowledge(e)

Spec == Init /\ [][Next]_vars

=============================================================================
