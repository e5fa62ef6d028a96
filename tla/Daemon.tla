------------------------------- MODULE Daemon -------------------------------
(***************************************************************************)
(* csis.daemon: the loop that runs iterations for ever, and the launcher   *)
(* script that starts the process again whenever it has ended.  An         *)
(* iteration is what its caller sees of it: it returns, it raises, or it   *)
(* hits the budget cap.  The daemon may be asked to stop by a file or by   *)
(* a signal, in the middle of anything, and each of its writes (an event,  *)
(* the heartbeat, a snapshot, the stats) may fail.                         *)
(*                                                                         *)
(* Time only matters to the hourly window: an hour has Hour parts, what    *)
(* happened is kept with its age, and ages grow together.                  *)
(***************************************************************************)
EXTENDS Integers, Sequences, FiniteSets

CONSTANTS
    Rate,          \* max_iterations_per_hour, positive
    RecentLen,     \* maxlen of _recent_times
    MaxTotal,      \* max_total_iterations
    SnapshotEvery, \* snapshot_every_n_iterations
    Hour,          \* bound: parts of an hour that are told apart
    MaxFailures,   \* bound: writes that fail and iterations that raise
    MaxKills       \* bound: processes that are killed

ASSUME DaemonParameters ==
    /\ Rate \in Nat \ {0}
    /\ RecentLen \in Nat \ {0}
    /\ MaxTotal \in Nat \ {0}
    /\ SnapshotEvery \in Nat \ {0}
    /\ Hour \in Nat \ {0}
    /\ MaxFailures \in Nat
    /\ MaxKills \in Nat

VARIABLES
    stopFile,   \* the STOP file is there
    launcher,   \* where run_daemon.ps1 is
    pc,         \* where the daemon process is
    halted,     \* the Coordinator's ShutdownToken
    stopped,    \* the daemon's _stopped event
    total,      \* stats.iterations_total
    recent,     \* stats._recent_times, as ages
    hole,       \* this process's safety patterns let something through
    running,    \* history: age of the iteration that runs
    ran,        \* history: number of an iteration that returned -> age of its start, while
                \* that is at most Hour
    unchecked,  \* history: a failure kept the fuzz pass from its verdict
    raised,     \* history: exceptions since the loop condition was last evaluated
    crashed,    \* history: an exception left run_forever's loop
    failures, kills

control == <<stopFile, launcher>>
flags == <<halted, stopped>>
window == <<recent, running, ran>>
history == <<unchecked, raised, crashed>>
bounds == <<failures, kills>>
vars == <<control, pc, flags, total, window, hole, history, bounds>>

NoRuns == [n \in {} |-> 0]

Init ==
    /\ stopFile \in BOOLEAN
    /\ launcher = "check"
    /\ pc = "off"
    /\ halted = FALSE /\ stopped = FALSE
    /\ total = 0
    /\ recent = <<>> /\ running = 0 /\ ran = NoRuns
    /\ hole = FALSE
    /\ unchecked = FALSE /\ raised = 0 /\ crashed = FALSE
    /\ failures = 0 /\ kills = 0

\* Something goes wrong, within the bound.
Fails == failures < MaxFailures /\ failures' = failures + 1

Except == pc' = "except" /\ raised' = raised + 1

\* An exception leaves the loop; the finally clause follows.
Crash == pc' = "final" /\ raised' = raised + 1 /\ crashed' = TRUE

-----------------------------------------------------------------------------
(* The launcher.                                                           *)

\* Seeded fault: a launcher that does not look for the file.
SeesNothing == FALSE
SeesStopFile == stopFile

LauncherStops ==
    /\ launcher = "check" \/ (launcher = "up" /\ pc = "off")
    /\ SeesStopFile
    /\ launcher' = "done"
    /\ UNCHANGED <<stopFile, pc, flags, total, window, hole, history, bounds>>

\* A new process: flags, counters and the window of the last one are gone, and
\* its safety patterns are the ones of the source at this moment.
Launch ==
    /\ launcher = "check"
    /\ ~SeesStopFile
    /\ launcher' = "up"
    /\ pc' = "boot"
    /\ halted' = FALSE /\ stopped' = FALSE
    /\ total' = 0
    /\ recent' = <<>> /\ running' = 0 /\ ran' = NoRuns
    /\ hole' \in BOOLEAN
    /\ unchecked' = FALSE /\ raised' = 0 /\ crashed' = FALSE
    /\ UNCHANGED <<stopFile, bounds>>

\* Whatever the exit code was, the process is started again.
LauncherRestarts ==
    /\ launcher = "up" /\ pc = "off"
    /\ ~SeesStopFile
    /\ launcher' = "check"
    /\ UNCHANGED <<stopFile, pc, flags, total, window, hole, history, bounds>>

-----------------------------------------------------------------------------
(* run_forever                                                             *)

\* stop(), also called by the signal handler.
Stop == halted' = TRUE /\ stopped' = TRUE

\* daemon.start and the first heartbeat are outside every handler.
Boot ==
    /\ pc = "boot"
    /\ \/ pc' = "loop" /\ UNCHANGED failures
       \/ pc' = "off" /\ Fails
    /\ UNCHANGED <<control, flags, total, window, hole, history, kills>>

\* _should_stop.
ShouldStop == stopped \/ stopFile \/ total >= MaxTotal

\* iterations_in_last_hour
InLastHour == {i \in DOMAIN recent : recent[i] <= Hour}

\* Seeded fault, below: one iteration too many.
AllowsOneMore == Cardinality(InLastHour) <= Rate

\* _budget_allows_now
BudgetAllows == Cardinality(InLastHour) < Rate

\* The loop is left, also when the event that says so cannot be written.
LoopEnds ==
    /\ pc = "loop"
    /\ ShouldStop
    /\ \/ pc' = "final" /\ UNCHANGED <<raised, crashed, failures>>
       \/ ~stopped /\ Fails /\ Crash
    /\ UNCHANGED <<control, flags, total, window, hole, unchecked, kills>>

LoopGoesOn ==
    /\ pc = "loop"
    /\ ~ShouldStop
    /\ pc' = IF BudgetAllows THEN "tick" ELSE "window"
    /\ raised' = 0
    /\ UNCHANGED <<control, flags, total, window, hole, unchecked, crashed, bounds>>

\* _sleep_to_next_window sleeps a minute at most.
WindowSleepEnds ==
    /\ pc = "window"
    /\ pc' = "loop"
    /\ UNCHANGED <<control, flags, total, window, hole, history, bounds>>

SleepEnds ==
    /\ pc = "wait"
    /\ pc' = "loop"
    /\ UNCHANGED <<control, flags, total, window, hole, history, bounds>>

\* The handler of BudgetCapExceeded: an event, the totals of the day, stop().
HandleCap ==
    /\ pc = "capped"
    /\ \/ pc' = "wait" /\ Stop /\ UNCHANGED <<raised, crashed, failures>>
       \/ Fails /\ Crash /\ UNCHANGED flags
    /\ UNCHANGED <<control, total, window, hole, unchecked, kills>>

\* The handler of every other exception: an event.
HandleException ==
    /\ pc = "except"
    /\ \/ pc' = "wait" /\ UNCHANGED <<raised, crashed, failures>>
       \/ Fails /\ Crash
    /\ UNCHANGED <<control, flags, total, window, hole, unchecked, kills>>

\* daemon.stop and the stats file; an exception there ends the process too.
Finally ==
    /\ pc = "final"
    /\ pc' = "off"
    /\ UNCHANGED <<control, flags, total, window, hole, history, bounds>>

-----------------------------------------------------------------------------
(* _tick                                                                   *)

\* run_iteration refuses to begin after halt(); its first event may fail.
IterationBegins ==
    /\ pc = "tick"
    /\ \/ /\ ~halted
          /\ pc' = "running"
          /\ UNCHANGED <<raised, failures>>
       \/ halted /\ Except /\ UNCHANGED failures
       \/ Fails /\ Except
    /\ UNCHANGED <<control, flags, total, window, hole, unchecked, crashed, kills>>

\* deque(maxlen=RecentLen): the oldest item makes room.
Kept(times) == IF Len(times) > RecentLen THEN Tail(times) ELSE times

\* The iteration promotes or rolls back, and stats.record counts it.
IterationReturns ==
    /\ pc = "running"
    /\ pc' = "returned"
    /\ total' = total + 1
    /\ recent' = Kept(Append(recent, 0))
    /\ ran' = IF running > Hour THEN ran
              ELSE [n \in DOMAIN ran \cup {total'} |-> IF n = total' THEN running ELSE ran[n]]
    /\ running' = 0
    /\ UNCHANGED <<control, flags, hole, history, bounds>>

\* Seeded fault, below: an exception that is not handled.
IterationKills ==
    /\ pc = "running"
    /\ Fails /\ Crash
    /\ running' = 0
    /\ UNCHANGED <<control, flags, total, recent, ran, hole, unchecked, kills>>

\* An exception is not counted, neither in the totals nor in the window.
IterationRaises ==
    /\ pc = "running"
    /\ Fails /\ Except
    /\ running' = 0
    /\ UNCHANGED <<control, flags, total, recent, ran, hole, unchecked, crashed, kills>>

IterationCapped ==
    /\ pc = "running"
    /\ pc' = "capped"
    /\ raised' = raised + 1
    /\ running' = 0
    /\ UNCHANGED <<control, flags, total, recent, ran, hole, unchecked, crashed, bounds>>

AtSnapshot == total % SnapshotEvery = 0

\* The skill path, whose exceptions end as an event, and the heartbeat.
AfterIteration ==
    /\ pc = "returned"
    /\ \/ /\ pc' = IF AtSnapshot THEN "snapshot" ELSE "wait"
          /\ UNCHANGED <<unchecked, raised, failures>>
       \/ /\ Fails /\ Except
          /\ unchecked' = (unchecked \/ AtSnapshot)
    /\ UNCHANGED <<control, flags, total, window, hole, crashed, kills>>

\* _write_snapshot, which verifies the chain, and _write_stats.
Snapshot ==
    /\ pc = "snapshot"
    /\ \/ pc' = "fuzz" /\ UNCHANGED <<unchecked, raised, failures>>
       \/ Fails /\ Except /\ unchecked' = TRUE
    /\ UNCHANGED <<control, flags, total, window, hole, crashed, kills>>

\* Seeded fault, below: a regression is only reported.
WarnOnly == UNCHANGED flags

\* What a fuzz pass that found blocked text allowed does, after the event.
Regression == Stop

\* The fuzz pass.  Its event comes first: if it fails, nothing stops.
Fuzz ==
    /\ pc = "fuzz"
    /\ \/ /\ pc' = "wait"
          /\ IF hole THEN Regression ELSE UNCHANGED flags
          /\ UNCHANGED <<unchecked, raised, failures>>
       \/ /\ Fails /\ Except
          /\ unchecked' = (unchecked \/ hole)
          /\ UNCHANGED flags
    /\ UNCHANGED <<control, total, window, hole, crashed, kills>>

-----------------------------------------------------------------------------
(* The operator, the machine and the clock.                                *)

DropStopFile ==
    /\ ~stopFile
    /\ stopFile' = TRUE
    /\ UNCHANGED <<launcher, pc, flags, total, window, hole, history, bounds>>

\* SIGINT or SIGTERM, wherever the process is.
Signal ==
    /\ pc # "off"
    /\ Stop
    /\ UNCHANGED <<control, pc, total, window, hole, history, bounds>>

Kill ==
    /\ pc # "off"
    /\ kills < MaxKills
    /\ kills' = kills + 1
    /\ pc' = "off"
    /\ UNCHANGED <<control, flags, total, window, hole, history, failures>>

\* An age counts to the first that is more than an hour.
Older(age) == IF age > Hour THEN age ELSE age + 1

TimePasses ==
    /\ pc # "off"
    /\ recent' = [i \in DOMAIN recent |-> Older(recent[i])]
    /\ ran' = [n \in {m \in DOMAIN ran : ran[m] < Hour} |-> ran[n] + 1]
    /\ running' = IF pc = "running" THEN Older(running) ELSE running
    /\ UNCHANGED <<control, pc, flags, total, hole, history, bounds>>

Loop ==
    \/ Boot \/ LoopEnds \/ LoopGoesOn \/ WindowSleepEnds \/ SleepEnds
    \/ HandleCap \/ HandleException \/ Finally

Tick ==
    \/ IterationBegins \/ IterationReturns \/ IterationRaises \/ IterationCapped
    \/ AfterIteration \/ Snapshot \/ Fuzz

Launcher == LauncherStops \/ Launch \/ LauncherRestarts

Environment == DropStopFile \/ Signal \/ Kill \/ TimePasses

Next == Loop \/ Tick \/ Launcher \/ Environment

\* The process and the launcher go on, and an iteration ends; nothing forces
\* the operator, nor time.
Spec ==
    /\ Init /\ [][Next]_vars
    /\ WF_vars(Loop \/ Tick)
    /\ WF_vars(Launcher)

-----------------------------------------------------------------------------
(* Properties.                                                             *)

\* In no hour does one process begin more than Rate iterations that return,
\* however long each of them takes (the window holds the times of their ends).
\* It needs a window that can hold Rate times, which the code does not require.
PaceKept ==
    RecentLen >= Rate =>
        Cardinality(DOMAIN ran) + (IF pc = "running" /\ running <= Hour THEN 1 ELSE 0) <= Rate

\* A process whose safety patterns let through what they should block ends after
\* its first SnapshotEvery iterations, whatever stops and failures happen around
\* them, unless a failure came between those and the verdict.
HoleContained == hole /\ ~unchecked => total <= SnapshotEvery

\* A process that nobody asked to stop survives any single failure: its loop is
\* left by an exception only if a second exception met the handler of the first.
SurvivesSingleFailure ==
    crashed /\ ~ShouldStop => raised >= 2

\* A STOP file ends the process and the launcher, for good; a signal, a cap or a
\* regression ends the process, wherever it strikes.
EndsWhenAsked ==
    /\ stopFile ~> [](launcher = "done" /\ pc = "off")
    /\ halted ~> pc = "off"

=============================================================================
