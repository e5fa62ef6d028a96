-------------------------- MODULE ControlPanelProofs --------------------------
(***************************************************************************)
(* What a kill request of the dashboard strikes, for every set of requests *)
(* and of process ids and any number of kills and restarts.  The argument: *)
(* two processes that nobody has waited for have different ids (OwnPid),   *)
(* and a task that a kill request has found running is not waited for      *)
(* until it was signalled, because poll() needs the lock the request holds *)
(* (VictimIsThere).                                                        *)
(***************************************************************************)
EXTENDS ControlPanel, TLAPS

Typed ==
    /\ request \in [Tasks -> {"new", "logging", "spawned", "listed", "lost"}]
    /\ process \in [Tasks -> {"none", "running", "zombie", "gone"}]
    /\ pid \in [Tasks -> Pids \cup {NoPid}]
    /\ done \subseteq Tasks
    /\ victim \in Tasks \cup {Nobody}

\* The process holds its id.
Holds(t) == process[t] \in {"running", "zombie"}

OwnPid == \A t, u \in Tasks : Holds(t) /\ Holds(u) /\ pid[t] = pid[u] => t = u

VictimIsThere == victim # Nobody => locked /\ victim \in Listed /\ Holds(victim)

PanelInv == Typed /\ OwnPid /\ VictimIsThere /\ SignalsHitTheirTask

\* The table and the processes are empty at the start.
LEMMA PanelInit == Init => PanelInv
  BY DEF Init, PanelInv, Typed, OwnPid, Holds, VictimIsThere, SignalsHitTheirTask

\* A step that takes processes only forward, changes no id and signals nobody
\* keeps the invariant when it leaves the victim of a kill request alone.
LEMMA NothingSpawned ==
    ASSUME PanelInv, Typed', UNCHANGED <<pid, hit>>,
           \A t \in Tasks : Holds(t)' => Holds(t),
           VictimIsThere'
    PROVE  PanelInv'
  BY DEF PanelInv, OwnPid, Holds, SignalsHitTheirTask

\* The requests that start something, up to the process.
LEMMA RequestKeeps ==
    ASSUME PanelInv, NEW t \in Tasks,
           StartDaemon(t) \/ RunIteration(t) \/ RunBurst(t) \/ SpawnFails(t) \/ Register(t)
    PROVE  PanelInv'
  <1>1. PICK place \in {"logging", "lost", "listed"} :
            /\ request' = [request EXCEPT ![t] = place]
            /\ request[t] # "listed"
            /\ UNCHANGED <<process, pid, done, killing>>
    BY DEF StartDaemon, RunIteration, RunBurst, Starts, SpawnFails, Register
  <1>2. Typed'
    BY <1>1 DEF PanelInv, Typed, killing
  <1>3. VictimIsThere'
    BY <1>1 DEF PanelInv, Typed, VictimIsThere, Listed, Holds, killing
  <1>4. QED
    BY <1>1, <1>2, <1>3, NothingSpawned DEF Holds, killing

\* Popen is given an id that no process holds.
LEMMA SpawnKeeps ==
    ASSUME PanelInv, NEW t \in Tasks, Spawn(t)
    PROVE  PanelInv'
  <1>1. PICK p \in Pids \ Taken :
            /\ pid' = [pid EXCEPT ![t] = p]
            /\ process' = [process EXCEPT ![t] = "running"]
            /\ request' = [request EXCEPT ![t] = "spawned"]
            /\ request[t] = "logging"
            /\ UNCHANGED <<done, killing>>
    BY DEF Spawn
  <1>2. Typed'
    BY <1>1 DEF PanelInv, Typed, killing
  <1>3. \A u \in Tasks : Holds(u) => pid[u] # p
    BY DEF Taken, Holds
  <1>4. OwnPid'
    BY <1>1, <1>3 DEF PanelInv, Typed, OwnPid, Holds
  <1>5. VictimIsThere'
    BY <1>1 DEF PanelInv, Typed, VictimIsThere, Listed, Holds, killing
  <1>6. SignalsHitTheirTask'
    BY <1>1 DEF PanelInv, SignalsHitTheirTask, killing
  <1>7. QED
    BY <1>2, <1>4, <1>5, <1>6 DEF PanelInv

\* The listing polls every task, but not while a kill request is under way.
LEMMA ListKeeps ==
    ASSUME PanelInv, ListTasks
    PROVE  PanelInv'
  <1>1. /\ ~locked /\ process' = Polled(Listed \ done)
        /\ done' = done \cup {t \in Listed : process[t] \in {"zombie", "gone"}}
        /\ UNCHANGED <<request, pid, killing>>
    BY DEF ListTasks
  <1>2. Typed' /\ \A t \in Tasks : Holds(t)' => Holds(t)
    BY <1>1 DEF PanelInv, Typed, Polled, Holds, Listed, killing
  <1>3. victim' = Nobody
    BY <1>1 DEF PanelInv, VictimIsThere, killing
  <1>4. QED
    BY <1>1, <1>2, <1>3, NothingSpawned DEF VictimIsThere, killing

\* A kill request that looks at its task holds the lock if the task runs.
LEMMA LookKeeps ==
    ASSUME PanelInv, NEW t \in Tasks, KillLook(t)
    PROVE  PanelInv'
  <1>1. /\ t \in Listed /\ process' = Polled({t})
        /\ victim' = IF process[t] = "running" THEN t ELSE Nobody
        /\ locked' = (victim' # Nobody)
        /\ UNCHANGED <<request, pid, done, hit>>
    BY DEF KillLook, Look
  <1>2. Typed' /\ \A u \in Tasks : Holds(u)' => Holds(u)
    BY <1>1 DEF PanelInv, Typed, Polled, Holds
  <1>3. VictimIsThere'
    BY <1>1, PanelParameters DEF PanelInv, Typed, VictimIsThere, Holds, Listed, Polled
  <1>4. QED
    BY <1>1, <1>2, <1>3, NothingSpawned

\* The signal goes to an id only the victim holds.
LEMMA TerminateKeeps ==
    ASSUME PanelInv, Terminate
    PROVE  PanelInv'
  <1> DEFINE struck == {t \in Tasks : pid[t] = pid[victim] /\ process[t] \in {"running", "zombie"}}
  <1>1. /\ victim # Nobody /\ victim' = Nobody
        /\ hit' = hit \cup {<<victim, t>> : t \in struck}
        /\ UNCHANGED <<request, process, pid, done>>
    BY DEF Terminate
  <1>2. victim \in Tasks /\ Holds(victim)
    BY <1>1 DEF PanelInv, Typed, VictimIsThere
  <1>3. \A t \in struck : t = victim
    BY <1>2 DEF PanelInv, OwnPid, Holds
  <1>4. SignalsHitTheirTask'
    BY <1>1, <1>3 DEF PanelInv, SignalsHitTheirTask
  <1>5. Typed' /\ OwnPid' /\ VictimIsThere'
    BY <1>1 DEF PanelInv, Typed, OwnPid, Holds, VictimIsThere
  <1>6. QED
    BY <1>4, <1>5 DEF PanelInv

\* A process that ends keeps its id while its dashboard is there.
LEMMA EndKeeps ==
    ASSUME PanelInv, NEW t \in Tasks, Ends(t) \/ DaemonStops(t)
    PROVE  PanelInv'
  <1>1. /\ process[t] = "running"
        /\ process' = [process EXCEPT ![t] = IF request[t] = "lost" THEN "gone" ELSE "zombie"]
        /\ UNCHANGED <<request, pid, done, killing>>
    BY DEF Ends, DaemonStops
  <1>2. Typed' /\ \A u \in Tasks : Holds(u)' => Holds(u)
    BY <1>1 DEF PanelInv, Typed, Holds, killing
  <1>3. VictimIsThere'
    BY <1>1 DEF PanelInv, Typed, VictimIsThere, Holds, Listed, killing
  <1>4. QED
    BY <1>1, <1>2, <1>3, NothingSpawned DEF killing

\* A new dashboard has no kill request under way.
LEMMA RestartKeeps ==
    ASSUME PanelInv, Restart
    PROVE  PanelInv'
  <1>1. /\ request' = [t \in Tasks |-> IF request[t] = "new" THEN "new" ELSE "lost"]
        /\ process' = Polled(Tasks) /\ done' = {} /\ victim' = Nobody
        /\ UNCHANGED <<pid, hit>>
    BY DEF Restart
  <1>2. Typed' /\ \A u \in Tasks : Holds(u)' => Holds(u)
    BY <1>1 DEF PanelInv, Typed, Polled, Holds
  <1>3. QED
    BY <1>1, <1>2, NothingSpawned DEF VictimIsThere

\* Every step keeps the invariant.
LEMMA PanelStep == PanelInv /\ [Next]_vars => PanelInv'
  <1> SUFFICES ASSUME PanelInv, [Next]_vars PROVE PanelInv'
    OBVIOUS
  <1>1. ASSUME NEW t \in Tasks,
               StartDaemon(t) \/ RunIteration(t) \/ RunBurst(t) \/ SpawnFails(t) \/ Register(t)
        PROVE  PanelInv'
    BY <1>1, RequestKeeps
  <1>2. CASE DropStopFile \/ UNCHANGED vars
    BY <1>2 DEF DropStopFile, vars, killing, PanelInv, Typed, OwnPid, VictimIsThere, Holds, Listed,
       SignalsHitTheirTask
  <1>3. QED
    BY <1>1, <1>2, SpawnKeeps, ListKeeps, LookKeeps, TerminateKeeps, EndKeeps, RestartKeeps DEF Next

\* The invariant holds in every reachable state.
THEOREM PanelInvariant == Spec => []PanelInv
  BY PanelInit, PanelStep, PTL DEF Spec

\* A kill strikes the process of its task and no other, although a process id is
\* given away again: kill-task polls and signals under one lock, and every poll
\* takes that lock.
THEOREM KillsHitTheirTask == Spec => []SignalsHitTheirTask
  <1>1. PanelInv => SignalsHitTheirTask
    BY DEF PanelInv
  <1>2. QED
    BY <1>1, PanelInvariant, PTL

=============================================================================
