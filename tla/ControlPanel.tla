----------------------------- MODULE ControlPanel -----------------------------
(***************************************************************************)
(* csis.ui.server with --allow-control: the dashboard starts daemons,      *)
(* single iterations and bursts as detached processes, keeps a table of    *)
(* them under tasks_lock, polls and kills them, and drops the stop file.   *)
(* Every request has a thread of its own.  The processes survive the       *)
(* server; its table does not.                                             *)
(*                                                                         *)
(* The operating system is modelled by what Popen relies on: an ended      *)
(* child keeps its pid until its parent has waited for it, and a pid       *)
(* nobody holds may be given to the next process.                          *)
(*                                                                         *)
(* A daemon runs in the dashboard's root and looks for STOP beside the     *)
(* package it was imported from: in that root when it is a checkout, else  *)
(* in the checkout that is installed.  Home says which.                    *)
(***************************************************************************)
EXTENDS Naturals, FiniteSets

CONSTANTS
    Tasks,       \* requests that start something; also their task ids
    Pids,        \* process ids
    NoPid,
    Nobody,      \* no task
    Roots,       \* directories a dashboard can be started for (--root)
    Home,        \* root -> where a daemon started in it looks for STOP
    MaxRestarts, \* bound: restarts of the dashboard
    MaxKills     \* bound: kill requests

ASSUME PanelParameters ==
    /\ NoPid \notin Pids /\ Nobody \notin Tasks
    /\ Home \in [Roots -> Roots]
    /\ MaxRestarts \in Nat /\ MaxKills \in Nat

VARIABLES
    request,  \* task -> "new", "logging", "spawned", "listed" or "lost"
    kind,     \* task -> "daemon", "iteration" or "burst"; "none" before the request
    process,  \* task -> "none", "running", "zombie" (not yet waited for) or "gone"
    pid,      \* task -> its process id; stays in the table when the process is gone
    done,     \* tasks whose table entry says so
    locked,   \* a kill request holds tasks_lock
    victim,   \* the task it has found running and not signalled yet
    root,     \* the root of the dashboard that runs
    base,     \* task -> the root its process was started in
    stopFiles, \* roots that hold a file STOP
    hit,      \* history: <<task that was to be killed, task that was signalled>>
    kills, restarts

bounds == <<kills, restarts>>
killing == <<locked, victim, hit>>
places == <<root, base>>
vars == <<request, kind, process, pid, done, killing, places, stopFiles, bounds>>

\* The process id is taken by a process that runs or was not waited for.
Taken == {pid[t] : t \in {u \in Tasks : process[u] \in {"running", "zombie"}}}

Init ==
    /\ request = [t \in Tasks |-> "new"]
    /\ kind = [t \in Tasks |-> "none"]
    /\ process = [t \in Tasks |-> "none"]
    /\ pid = [t \in Tasks |-> NoPid]
    /\ done = {}
    /\ locked = FALSE /\ victim = Nobody
    /\ root \in Roots
    /\ base = [t \in Tasks |-> root]
    /\ stopFiles = {}
    /\ hit = {}
    /\ kills = 0 /\ restarts = 0

-----------------------------------------------------------------------------
(* start-daemon, run-iteration, run-burst.                                 *)

\* The names are made, of the current second, and the log is opened for
\* appending.
Starts(t, what) ==
    /\ request[t] = "new"
    /\ request' = [request EXCEPT ![t] = "logging"]
    /\ kind' = [kind EXCEPT ![t] = what]
    /\ UNCHANGED <<process, pid, done, killing, places, stopFiles, bounds>>

StartDaemon(t) == Starts(t, "daemon")
RunIteration(t) == Starts(t, "iteration")
RunBurst(t) == Starts(t, "burst")

\* Popen, with the root as the working directory.
Spawn(t) ==
    /\ request[t] = "logging"
    /\ \E p \in Pids \ Taken : pid' = [pid EXCEPT ![t] = p]
    /\ process' = [process EXCEPT ![t] = "running"]
    /\ request' = [request EXCEPT ![t] = "spawned"]
    /\ base' = [base EXCEPT ![t] = root]
    /\ UNCHANGED <<kind, done, killing, root, stopFiles, bounds>>

\* The log cannot be opened or Popen raises: an error is answered.
SpawnFails(t) ==
    /\ request[t] = "logging"
    /\ request' = [request EXCEPT ![t] = "lost"]
    /\ UNCHANGED <<kind, process, pid, done, killing, places, stopFiles, bounds>>

Register(t) ==
    /\ request[t] = "spawned"
    /\ ~locked
    /\ request' = [request EXCEPT ![t] = "listed"]
    /\ UNCHANGED <<kind, process, pid, done, killing, places, stopFiles, bounds>>

-----------------------------------------------------------------------------
(* /api/control/tasks and kill-task                                        *)

Listed == {t \in Tasks : request[t] = "listed"}

\* proc.poll() waits for a child that has ended.
Polled(ts) == [t \in Tasks |-> IF t \in ts /\ process[t] = "zombie" THEN "gone" ELSE process[t]]

\* Entries that are done are not polled again.
ListTasks ==
    /\ ~locked
    /\ process' = Polled(Listed \ done)
    /\ done' = done \cup {t \in Listed : process[t] \in {"zombie", "gone"}}
    /\ UNCHANGED <<request, kind, pid, killing, places, stopFiles, bounds>>

Look(t) ==
    /\ t \in Listed
    /\ victim = Nobody
    /\ kills < MaxKills
    /\ kills' = kills + 1
    /\ process' = Polled({t})
    /\ victim' = IF process[t] = "running" THEN t ELSE Nobody
    /\ UNCHANGED <<request, kind, pid, done, hit, places, stopFiles, restarts>>

\* Seeded fault: the lock is given back before the signal is sent.
KillLookUnlocked(t) == ~locked /\ Look(t) /\ locked' = FALSE

\* A task that has ended is only reported ...
KillLook(t) == ~locked /\ Look(t) /\ locked' = (victim' # Nobody)

\* ... and another is signalled by its process id, under the same lock.
Terminate ==
    /\ victim # Nobody
    /\ LET struck == {t \in Tasks : pid[t] = pid[victim] /\ process[t] \in {"running", "zombie"}}
       IN hit' = hit \cup {<<victim, t>> : t \in struck}
    /\ victim' = Nobody /\ locked' = FALSE
    /\ UNCHANGED <<request, kind, process, pid, done, places, stopFiles, bounds>>

-----------------------------------------------------------------------------
(* stop-daemon; the processes; the dashboard itself.                       *)

\* It is written into the root, whatever the daemons were started in.
DropStopFile ==
    /\ stopFiles' = stopFiles \cup {root}
    /\ UNCHANGED <<request, kind, process, pid, done, killing, places, bounds>>

\* At its limit, by an exception, by SIGTERM.  The child of a dashboard that is
\* still there waits to be waited for.
Ends(t) ==
    /\ process[t] = "running"
    /\ process' = [process EXCEPT ![t] = IF request[t] = "lost" THEN "gone" ELSE "zombie"]
    /\ UNCHANGED <<request, kind, pid, done, killing, places, stopFiles, bounds>>

\* A daemon stops for the file beside its package, and leaves it there.
DaemonStops(t) ==
    /\ kind[t] = "daemon"
    /\ Home[base[t]] \in stopFiles
    /\ Ends(t)

\* A new dashboard, for any root: the table is empty, the requests that were on
\* their way are lost, and the operating system waits for the orphans.
Restart ==
    /\ restarts < MaxRestarts
    /\ restarts' = restarts + 1
    /\ root' \in Roots
    /\ request' = [t \in Tasks |-> IF request[t] = "new" THEN "new" ELSE "lost"]
    /\ process' = Polled(Tasks)
    /\ done' = {} /\ locked' = FALSE /\ victim' = Nobody
    /\ UNCHANGED <<kind, pid, hit, base, stopFiles, kills>>

Next ==
    \/ \E t \in Tasks :
          \/ StartDaemon(t) \/ RunIteration(t) \/ RunBurst(t)
          \/ Spawn(t) \/ SpawnFails(t) \/ Register(t)
          \/ KillLook(t)
          \/ Ends(t) \/ DaemonStops(t)
    \/ Terminate \/ ListTasks \/ DropStopFile
    \/ Restart

Spec == Init /\ [][Next]_vars

-----------------------------------------------------------------------------
(* Properties.                                                             *)

\* A kill reaches the process of its task and no other, although it is sent to a
\* number that another process may have by then: other requests list, poll, start
\* and kill at the same time, processes end at any moment, and a process id is
\* given away again as soon as its process was waited for.
SignalsHitTheirTask == \A h \in hit : h[1] = h[2]

=============================================================================
