---------------------------- MODULE DaemonProofs ----------------------------
(***************************************************************************)
(* The loop that runs for ever, for every rate, length of the window,      *)
(* total and snapshot interval and any number of failures and kills.       *)
(*                                                                         *)
(* The pace takes an argument: what is checked before an iteration are the *)
(* ends of the earlier ones that the window still holds, what is promised  *)
(* is about their starts.  Every iteration begun and returned within the   *)
(* hour has its place in the window, where its end is not older than its   *)
(* start (Windowed), so the check counts at least those iterations; and    *)
(* the time that makes room for a new one is never one of them.            *)
(***************************************************************************)
EXTENDS Daemon, FiniteSetTheorems, SequenceTheorems, TLAPS

Labels ==
    {"off", "boot", "loop", "tick", "window", "wait", "capped", "except", "final",
     "running", "returned", "snapshot", "fuzz"}

\* The variables the argument computes with.
Typed ==
    /\ pc \in Labels
    /\ total \in Nat
    /\ recent \in Seq(Nat)
    /\ running \in Nat
    /\ raised \in Nat

\* Where an exception may leave the loop, one was handled or a stop was asked for.
Surviving ==
    /\ pc \in {"capped", "except"} => raised >= 1
    /\ crashed => pc \in {"final", "off"} /\ (ShouldStop \/ raised >= 2)

\* A process with a hole that did SnapshotEvery iterations is on its way to the
\* verdict or out.
Containing ==
    hole /\ ~unchecked =>
        /\ total <= SnapshotEvery
        /\ total = SnapshotEvery =>
              \/ pc \in {"returned", "snapshot", "fuzz", "final", "off"}
              \/ stopped /\ pc \in {"wait", "loop"}

\* Iteration n that returned within the hour, and all that followed it, began in
\* order, and each has its time in the window, where it ended after it began.
Place(n) == n - total + Len(recent)

Windowed ==
    /\ DOMAIN ran \subseteq Int
    /\ \A n \in DOMAIN ran :
          /\ n <= total /\ Place(n) \in DOMAIN recent
          /\ ran[n] \in 0 .. Hour /\ recent[Place(n)] <= ran[n]
          /\ \A m \in n .. total : m \in DOMAIN ran /\ ran[m] <= ran[n]

\* The one that runs began after them.
RunningLast ==
    /\ pc \notin {"running", "off"} => running = 0
    /\ pc = "running" => \A n \in DOMAIN ran : running <= ran[n]

Paced ==
    /\ Len(recent) <= RecentLen
    /\ RecentLen >= Rate =>
          /\ Cardinality(DOMAIN ran) <= Rate
          /\ pc \in {"tick", "running"} => Cardinality(DOMAIN ran) < Rate
          /\ Windowed
          /\ RunningLast

LoopInv == Typed /\ Surviving /\ Containing /\ Paced

\* Nothing has run in a new process.
LEMMA NothingRan == DOMAIN NoRuns = {} /\ IsFiniteSet({}) /\ Cardinality({}) = 0
  BY FS_EmptySet DEF NoRuns

\* The invariant holds at the start.
LEMMA LoopInit == Init => LoopInv
  <1> SUFFICES ASSUME Init PROVE LoopInv
    OBVIOUS
  <1>1. Typed
    BY EmptySeq DEF Init, Typed, Labels
  <1>2. Surviving /\ Containing
    BY DaemonParameters DEF Init, Surviving, Containing
  <1>3. Len(recent) = 0 /\ DOMAIN ran = {} /\ Cardinality(DOMAIN ran) = 0
    BY NothingRan DEF Init
  <1>4. Paced
    BY <1>3, DaemonParameters DEF Init, Paced, Windowed, RunningLast
  <1>5. QED
    BY <1>1, <1>2, <1>4 DEF LoopInv

\* The window keeps the latest times.
LEMMA KeptFacts ==
    ASSUME NEW times \in Seq(Nat)
    PROVE  /\ Kept(times) \in Seq(Nat)
           /\ Len(Kept(times)) = IF Len(times) > RecentLen THEN Len(times) - 1 ELSE Len(times)
           /\ \A i \in 1 .. Len(Kept(times)) :
                 Kept(times)[i] = times[i + (Len(times) - Len(Kept(times)))]
  <1>1. CASE Len(times) > RecentLen
    <2>1. times # <<>> /\ Len(times) \in Nat
      BY <1>1, DaemonParameters, LenProperties
    <2>2. Kept(times) = Tail(times)
      BY <1>1 DEF Kept
    <2>3. Tail(times) \in Seq(Nat) /\ Len(Tail(times)) = Len(times) - 1
          /\ \A i \in 1 .. Len(Tail(times)) : Tail(times)[i] = times[i + 1]
      BY <2>1, HeadTailProperties
    <2>4. QED
      BY <1>1, <2>1, <2>2, <2>3
  <1>2. CASE ~(Len(times) > RecentLen)
    BY <1>2, LenProperties DEF Kept
  <1>3. QED
    BY <1>1, <1>2

\* The times of the window grow older together.
LEMMA OlderTimes ==
    ASSUME NEW times \in Seq(Nat), NEW older, older = [i \in DOMAIN times |-> Older(times[i])]
    PROVE  older \in Seq(Nat) /\ DOMAIN older = DOMAIN times /\ Len(older) = Len(times)
  <1>1. DOMAIN times = 1 .. Len(times) /\ Len(times) \in Nat
    BY LenProperties
  <1>2. \A i \in 1 .. Len(times) : Older(times[i]) \in Nat
    BY <1>1 DEF Older
  <1>3. older = [i \in 1 .. Len(times) |-> Older(times[i])]
    BY <1>1
  <1>4. older \in Seq(Nat)
    BY <1>1, <1>2, <1>3, IsASeq
  <1>5. DOMAIN older = 1 .. Len(times)
    BY <1>3
  <1>6. Len(older) = Len(times)
    BY <1>1, <1>4, <1>5, LenProperties
  <1>7. QED
    BY <1>1, <1>4, <1>5, <1>6

\* The window keeps its type.
LEMMA RecentStep == Typed /\ [Next]_vars => recent' \in Seq(Nat)
  <1> SUFFICES ASSUME Typed, [Next]_vars PROVE recent' \in Seq(Nat)
    OBVIOUS
  <1>0. recent \in Seq(Nat)
    BY DEF Typed
  <1>1. CASE IterationReturns
    <2>1. Append(recent, 0) \in Seq(Nat)
      BY <1>0, AppendProperties
    <2>2. QED
      BY <1>1, <2>1, KeptFacts DEF IterationReturns
  <1>2. CASE TimePasses
    BY <1>0, <1>2, OlderTimes DEF TimePasses
  <1>3. CASE Launch
    BY <1>3, EmptySeq DEF Launch
  <1>4. CASE ~IterationReturns /\ ~TimePasses /\ ~Launch
    <2>1. recent' = recent
      BY <1>4 DEF Next, Loop, Boot, LoopEnds, LoopGoesOn, WindowSleepEnds, SleepEnds, HandleCap,
         HandleException, Finally, Tick, IterationBegins, IterationRaises, IterationCapped,
         AfterIteration, Snapshot, Fuzz, Launcher, LauncherStops, LauncherRestarts, Environment,
         DropStopFile, Signal, Kill, window, vars
    <2>2. QED
      BY <1>0, <2>1
  <1>5. QED
    BY <1>1, <1>2, <1>3, <1>4

\* Every variable keeps its type.
LEMMA TypedStep == Typed /\ [Next]_vars => Typed'
  <1> SUFFICES ASSUME Typed, [Next]_vars PROVE Typed'
    OBVIOUS
  <1> USE DEF control, flags, window, history, bounds, Fails, Except, Crash, Stop, Regression
  <1>1. recent' \in Seq(Nat)
    BY RecentStep
  <1>2. pc' \in Labels /\ raised' \in Nat
    BY DEF Typed, Labels, Next, Loop, Boot, LoopEnds, LoopGoesOn, WindowSleepEnds, SleepEnds, HandleCap,
       HandleException, Finally, Tick, IterationBegins, IterationReturns, IterationRaises,
       IterationCapped, AfterIteration, Snapshot, Fuzz, Launcher, LauncherStops, Launch,
       LauncherRestarts, Environment, DropStopFile, Signal, Kill, TimePasses, vars
  <1>3. total' \in Nat /\ running' \in Nat
    BY DEF Typed, Next, Loop, Boot, LoopEnds, LoopGoesOn, WindowSleepEnds, SleepEnds, HandleCap,
       HandleException, Finally, Tick, IterationBegins, IterationReturns, IterationRaises,
       IterationCapped, AfterIteration, Snapshot, Fuzz, Launcher, LauncherStops, Launch,
       LauncherRestarts, Environment, DropStopFile, Signal, Kill, TimePasses, Older, vars
  <1>4. QED
    BY <1>1, <1>2, <1>3 DEF Typed

\* A handler that fails was reached by an exception.
LEMMA SurvivingStep == Typed /\ Surviving /\ [Next]_vars => Surviving'
  <1> SUFFICES ASSUME Typed, Surviving, [Next]_vars PROVE Surviving'
    OBVIOUS
  <1> USE DEF Typed, Surviving, ShouldStop, control, flags, window, history, bounds, Fails, Except,
          Crash, Stop, Regression
  <1>1. CASE Loop
    BY <1>1 DEF Loop, Boot, LoopEnds, LoopGoesOn, WindowSleepEnds, SleepEnds, HandleCap,
       HandleException, Finally
  <1>2. CASE Tick
    BY <1>2, DaemonParameters DEF Tick, IterationBegins, IterationReturns, IterationRaises, IterationCapped,
       AfterIteration, Snapshot, Fuzz
  <1>3. CASE Launcher
    BY <1>3 DEF Launcher, LauncherStops, Launch, LauncherRestarts
  <1>4. CASE Environment
    BY <1>4 DEF Environment, DropStopFile, Signal, Kill, TimePasses
  <1>5. CASE UNCHANGED vars
    BY <1>5 DEF vars
  <1>6. QED
    BY <1>1, <1>2, <1>3, <1>4, <1>5 DEF Next

\* The iteration that completes a round of SnapshotEvery is the last one.
LEMMA ContainingStep == Typed /\ Containing /\ [Next]_vars => Containing'
  <1> SUFFICES ASSUME Typed, Containing, [Next]_vars PROVE Containing'
    OBVIOUS
  <1>0. SnapshotEvery \in Nat \ {0} /\ SnapshotEvery % SnapshotEvery = 0
    BY DaemonParameters
  <1> USE DEF Typed, Containing, ShouldStop, control, flags, window, history, bounds, Fails, Except,
          Crash, Stop, Regression
  <1>1. CASE Loop
    BY <1>0, <1>1 DEF Loop, Boot, LoopEnds, LoopGoesOn, WindowSleepEnds, SleepEnds, HandleCap,
       HandleException, Finally
  <1>2. CASE Tick
    <2>1. total = SnapshotEvery => AtSnapshot
      BY <1>0 DEF AtSnapshot
    <2>2. ASSUME IterationBegins \/ IterationRaises \/ IterationCapped
          PROVE  Containing'
      BY <1>0, <2>2 DEF IterationBegins, IterationRaises, IterationCapped
    <2>0. CASE IterationReturns
      <3>1. /\ pc = "running" /\ pc' = "returned" /\ total' = total + 1 /\ total \in Nat
            /\ UNCHANGED <<hole, unchecked>>
        BY <2>0 DEF IterationReturns
      <3>2. QED
        BY ONLY <1>0, <3>1, Containing DEF Containing
    <2>3. ASSUME AfterIteration \/ Snapshot \/ Fuzz
          PROVE  Containing'
      BY <2>1, <2>3 DEF AfterIteration, Snapshot, Fuzz
    <2>4. QED
      BY <1>2, <2>0, <2>2, <2>3 DEF Tick
  <1>3. CASE Launcher
    <2>1. CASE Launch
      <3>1. total' = 0
        BY <2>1 DEF Launch
      <3>2. QED
        BY <1>0, <3>1
    <2>2. CASE LauncherStops \/ LauncherRestarts
      BY <2>2 DEF LauncherStops, LauncherRestarts
    <2>3. QED
      BY <1>3, <2>1, <2>2 DEF Launcher
  <1>4. CASE Environment
    BY <1>4 DEF Environment, DropStopFile, Signal, Kill, TimePasses
  <1>5. CASE UNCHANGED vars
    BY <1>5 DEF vars
  <1>6. QED
    BY <1>1, <1>2, <1>3, <1>4, <1>5 DEF Next

-----------------------------------------------------------------------------
(* The pace.                                                               *)

\* The iterations of the last hour are among those the window has a time of.
LEMMA RanIsFinite ==
    ASSUME Typed, Windowed
    PROVE  /\ IsFiniteSet(DOMAIN ran) /\ Cardinality(DOMAIN ran) \in Nat
           /\ \A n \in DOMAIN ran : Place(n) \in 1 .. Len(recent) /\ n \in Int
           /\ DOMAIN recent = 1 .. Len(recent) /\ Len(recent) \in Nat
  <1>1. DOMAIN recent = 1 .. Len(recent) /\ Len(recent) \in Nat
    BY LenProperties DEF Typed
  <1>2. \A n \in DOMAIN ran : Place(n) \in 1 .. Len(recent) /\ n \in Int /\ n <= total
    BY <1>1 DEF Windowed
  <1>3. \A n \in DOMAIN ran : n \in (total - Len(recent)) .. total
    <2>1. Len(recent) \in Nat /\ total \in Nat
      BY <1>1 DEF Typed
    <2>2. QED
      BY <1>2, <2>1 DEF Place
  <1>4. IsFiniteSet((total - Len(recent)) .. total)
    BY <1>1, FS_Interval DEF Typed
  <1>5. IsFiniteSet(DOMAIN ran)
    BY <1>3, <1>4, FS_Subset
  <1>6. QED
    BY <1>1, <1>2, <1>5, FS_CardinalityType

\* What _budget_allows_now counts is at least what was begun within the hour.
LEMMA WindowCounts ==
    ASSUME Typed, Windowed
    PROVE  Cardinality(DOMAIN ran) <= Cardinality(InLastHour) /\ Cardinality(InLastHour) \in Nat
  <1>1. DOMAIN recent = 1 .. Len(recent) /\ Len(recent) \in Nat /\ total \in Nat
    BY RanIsFinite DEF Typed
  <1>2. IsFiniteSet(InLastHour)
    <2>1. InLastHour \in SUBSET (1 .. Len(recent))
      BY <1>1 DEF InLastHour
    <2>2. IsFiniteSet(1 .. Len(recent))
      BY <1>1, FS_Interval
    <2>3. QED
      BY <2>1, <2>2, FS_Subset
  <1> DEFINE place == [n \in DOMAIN ran |-> Place(n)]
  <1>3. \A n \in DOMAIN ran : Place(n) \in InLastHour
    <2> SUFFICES ASSUME NEW n \in DOMAIN ran PROVE Place(n) \in InLastHour
      OBVIOUS
    <2>1. Place(n) \in DOMAIN recent /\ recent[Place(n)] <= ran[n] /\ ran[n] \in 0 .. Hour
      BY DEF Windowed
    <2>2. recent[Place(n)] \in Nat
      BY <2>1 DEF Typed
    <2>3. recent[Place(n)] <= Hour
      BY ONLY <2>1, <2>2, DaemonParameters DEF DaemonParameters
    <2>4. QED
      BY <2>1, <2>3 DEF InLastHour
  <1>4. \A m, n \in DOMAIN ran : Place(m) = Place(n) => m = n
    <2>1. \A n \in DOMAIN ran : n \in Int
      BY RanIsFinite
    <2>2. QED
      BY <1>1, <2>1 DEF Place
  <1>5. place \in Injection(DOMAIN ran, InLastHour)
    BY <1>3, <1>4 DEF Injection, IsInjective
  <1>6. QED
    BY <1>2, <1>5, FS_Injection, FS_CardinalityType

\* A step that leaves the window alone.
LEMMA WindowLeft ==
    ASSUME Typed, Paced, UNCHANGED <<total, recent, ran>>,
           pc' \in {"tick", "running"} => pc \in {"tick", "running"},
           RecentLen >= Rate => RunningLast'
    PROVE  Paced'
  BY DEF Paced, Windowed, Place

\* The steps that do not go on to the next iteration, end it or take time.
LEMMA OthersPaced ==
    ASSUME Typed, Paced, Next, ~LoopGoesOn, ~IterationReturns, ~TimePasses, ~Launch
    PROVE  Paced'
  <1>1. UNCHANGED <<total, recent, ran>>
    BY DEF Next, Loop, Boot, LoopEnds, WindowSleepEnds, SleepEnds, HandleCap,
       HandleException, Finally, Tick, IterationBegins, IterationRaises, IterationCapped,
       AfterIteration, Snapshot, Fuzz, Launcher, LauncherStops, LauncherRestarts, Environment,
       DropStopFile, Signal, Kill, window
  <1>2. /\ pc' \in {"tick", "running"} => pc \in {"tick", "running"}
        /\ pc' = "running" => pc \in {"tick", "running"}
        /\ running' = running \/ running' = 0
        /\ pc' \notin {"running", "off"} => pc \notin {"running", "off"} \/ running' = 0
    BY DEF Next, Loop, Boot, LoopEnds, WindowSleepEnds, SleepEnds, HandleCap,
       HandleException, Finally, Tick, IterationBegins, IterationRaises, IterationCapped,
       AfterIteration, Snapshot, Fuzz, Launcher, LauncherStops, LauncherRestarts, Environment,
       DropStopFile, Signal, Kill, window, Except, Crash
  <1>3. ASSUME RecentLen >= Rate
        PROVE  RunningLast'
    <2>1. RunningLast /\ \A n \in DOMAIN ran : ran[n] \in 0 .. Hour
      BY <1>3 DEF Paced, Windowed
    <2>2. \A n \in DOMAIN ran : 0 <= ran[n]
      BY <2>1
    <2>3. QED
      BY <1>1, <1>2, <2>1, <2>2 DEF RunningLast
  <1>4. QED
    BY <1>1, <1>2, <1>3, WindowLeft

\* Going on is allowed when the hour has room for one more.
LEMMA GoesOnPaced ==
    ASSUME Typed, Paced, LoopGoesOn
    PROVE  Paced'
  <1>1. /\ pc = "loop" /\ pc' = IF BudgetAllows THEN "tick" ELSE "window"
        /\ UNCHANGED <<total, recent, ran, running>>
    BY DEF LoopGoesOn, window
  <1>2. ASSUME RecentLen >= Rate, pc' \in {"tick", "running"}
        PROVE  Cardinality(DOMAIN ran) < Rate
    <2>1. Cardinality(InLastHour) < Rate
      BY <1>1, <1>2 DEF BudgetAllows
    <2>2. Windowed
      BY <1>2 DEF Paced
    <2>3. Rate \in Nat /\ Cardinality(DOMAIN ran) \in Nat
      BY <2>2, RanIsFinite, DaemonParameters
    <2>4. QED
      BY <2>1, <2>2, <2>3, WindowCounts
  <1>3. QED
    BY <1>1, <1>2 DEF Paced, Windowed, RunningLast, Place

\* A new process has an empty window.
LEMMA LaunchPaced ==
    ASSUME Launch
    PROVE  Paced'
  <1>1. total' = 0 /\ recent' = <<>> /\ running' = 0 /\ DOMAIN ran' = {} /\ pc' = "boot"
    BY NothingRan DEF Launch
  <1>2. Cardinality(DOMAIN ran') = 0 /\ Len(recent') = 0
    BY <1>1, NothingRan
  <1>3. QED
    BY <1>1, <1>2, DaemonParameters DEF Paced, Windowed, RunningLast

\* Time passes for the starts and for the ends alike.
LEMMA TimePaced ==
    ASSUME Typed, Paced, TimePasses
    PROVE  Paced'
  <1>1. /\ recent' = [i \in DOMAIN recent |-> Older(recent[i])]
        /\ ran' = [n \in {m \in DOMAIN ran : ran[m] < Hour} |-> ran[n] + 1]
        /\ running' = IF pc = "running" THEN Older(running) ELSE running
        /\ UNCHANGED <<pc, total>>
    BY DEF TimePasses
  <1>2. recent' \in Seq(Nat) /\ DOMAIN recent' = DOMAIN recent /\ Len(recent') = Len(recent)
    BY <1>1, OlderTimes DEF Typed
  <1>3. SUFFICES ASSUME RecentLen >= Rate
                 PROVE  /\ Cardinality(DOMAIN ran') <= Rate
                        /\ pc' \in {"tick", "running"} => Cardinality(DOMAIN ran') < Rate
                        /\ Windowed' /\ RunningLast'
    BY <1>2 DEF Paced
  <1>4. Windowed /\ RunningLast /\ Cardinality(DOMAIN ran) <= Rate
        /\ (pc \in {"tick", "running"} => Cardinality(DOMAIN ran) < Rate)
    BY <1>3 DEF Paced
  <1>5. /\ DOMAIN ran' \subseteq DOMAIN ran
        /\ \A n \in DOMAIN ran' : ran[n] < Hour /\ ran'[n] = ran[n] + 1
        /\ \A n \in DOMAIN ran : ran[n] < Hour => n \in DOMAIN ran'
    BY <1>1
  <1>6. Cardinality(DOMAIN ran') <= Cardinality(DOMAIN ran) /\ Cardinality(DOMAIN ran') \in Nat
        /\ Cardinality(DOMAIN ran) \in Nat
    BY <1>4, <1>5, RanIsFinite, FS_Subset, FS_CardinalityType
  <1>7. Windowed'
    <2> SUFFICES ASSUME NEW n \in DOMAIN ran'
                 PROVE  /\ n \in Int /\ n <= total' /\ Place(n)' \in DOMAIN recent'
                        /\ ran'[n] \in 0 .. Hour /\ recent'[Place(n)'] <= ran'[n]
                        /\ \A m \in n .. total' : m \in DOMAIN ran' /\ ran'[m] <= ran'[n]
      BY DEF Windowed
    <2>1. /\ n \in Int /\ n <= total /\ Place(n) \in DOMAIN recent
          /\ ran[n] \in 0 .. Hour /\ recent[Place(n)] <= ran[n]
          /\ \A m \in n .. total : m \in DOMAIN ran /\ ran[m] <= ran[n] /\ ran[m] \in 0 .. Hour
      BY <1>4, <1>5 DEF Windowed
    <2>2. Place(n)' = Place(n)
      BY <1>1, <1>2 DEF Place
    <2>3. recent'[Place(n)] = Older(recent[Place(n)]) /\ recent[Place(n)] \in Nat
      BY <1>1, <2>1 DEF Typed
    <2>4. ran[n] < Hour /\ ran'[n] = ran[n] + 1
      BY <1>5
    <2>5. Older(recent[Place(n)]) <= ran[n] + 1
      BY ONLY <2>1, <2>3, <2>4, DaemonParameters DEF Older, DaemonParameters
    <2>6. \A m \in n .. total : m \in DOMAIN ran' /\ ran'[m] <= ran'[n]
      <3> SUFFICES ASSUME NEW m \in n .. total PROVE m \in DOMAIN ran' /\ ran'[m] <= ran'[n]
        OBVIOUS
      <3>1. m \in DOMAIN ran /\ ran[m] <= ran[n] /\ ran[m] \in 0 .. Hour
        BY <2>1
      <3>2. ran[m] < Hour
        BY <2>1, <2>4, <3>1, DaemonParameters
      <3>3. m \in DOMAIN ran' /\ ran'[m] = ran[m] + 1
        BY <1>5, <3>1, <3>2
      <3>4. QED
        BY <2>1, <2>4, <3>1, <3>3
    <2>7. ran'[n] \in 0 .. Hour
      BY <2>1, <2>4, DaemonParameters
    <2>8. QED
      BY <1>1, <1>2, <2>1, <2>2, <2>3, <2>4, <2>5, <2>6, <2>7
  <1>8. RunningLast'
    <2>1. \A n \in DOMAIN ran' : pc = "running" => running <= ran[n] /\ ran[n] \in Nat
      BY <1>4, <1>5, DaemonParameters DEF RunningLast, Windowed
    <2>2. \A n \in DOMAIN ran' : pc = "running" => Older(running) <= ran[n] + 1
      BY <2>1 DEF Typed, Older
    <2>3. QED
      BY <1>1, <1>4, <1>5, <2>2 DEF RunningLast
  <1>9. QED
    BY <1>1, <1>4, <1>6, <1>7, <1>8, DaemonParameters

\* An iteration that returns enters the window, whose oldest time makes room: it is
\* more than an hour old, or there were RecentLen iterations within the hour.
LEMMA ReturnsPaced ==
    ASSUME Typed, Paced, IterationReturns
    PROVE  Paced'
  <1> DEFINE old == Len(recent)
             new == Len(recent')
             all == Append(recent, 0)
  <1>1. /\ pc = "running" /\ pc' = "returned" /\ total' = total + 1 /\ running' = 0
        /\ recent' = Kept(all)
        /\ ran' = IF running > Hour THEN ran
                  ELSE [n \in DOMAIN ran \cup {total'} |-> IF n = total' THEN running ELSE ran[n]]
    BY DEF IterationReturns
  <1>2. /\ recent \in Seq(Nat) /\ old \in Nat /\ total \in Nat /\ running \in Nat
        /\ old <= RecentLen /\ RecentLen \in Nat \ {0} /\ Rate \in Nat /\ Hour \in Nat
    BY LenProperties, DaemonParameters DEF Typed, Paced
  <1>3. /\ all \in Seq(Nat) /\ Len(all) = old + 1 /\ all[old + 1] = 0
        /\ \A i \in 1 .. old : all[i] = recent[i]
    BY <1>2, AppendProperties, LenProperties
  <1> HIDE DEF all
  <1>4. /\ recent' \in Seq(Nat)
        /\ new = IF old + 1 > RecentLen THEN old ELSE old + 1
        /\ \A i \in 1 .. new : recent'[i] = all[i + (old + 1 - new)]
    <2>1. /\ Kept(all) \in Seq(Nat)
          /\ Len(Kept(all)) = IF Len(all) > RecentLen THEN Len(all) - 1 ELSE Len(all)
          /\ \A i \in 1 .. Len(Kept(all)) : Kept(all)[i] = all[i + (Len(all) - Len(Kept(all)))]
      BY <1>3, KeptFacts
    <2>2. Len(all) = old + 1 /\ (old + 1) - 1 = old
      BY <1>2, <1>3
    <2> HIDE DEF old
    <2>3. recent' = Kept(all)
      BY <1>1
    <2>4. recent' \in Seq(Nat) /\ new = Len(Kept(all))
      BY <2>1, <2>3
    <2> HIDE DEF new
    <2>5. new = IF old + 1 > RecentLen THEN old ELSE old + 1
      BY <2>1, <2>2, <2>4
    <2>6. \A i \in 1 .. new : Kept(all)[i] = all[i + (old + 1 - new)]
      <3> SUFFICES ASSUME NEW i \in 1 .. new PROVE Kept(all)[i] = all[i + (old + 1 - new)]
        OBVIOUS
      <3>1. i \in 1 .. Len(Kept(all))
        BY <2>4
      <3>2. Kept(all)[i] = all[i + (Len(all) - Len(Kept(all)))]
        BY <2>1, <3>1
      <3>3. Len(all) - Len(Kept(all)) = old + 1 - new
        BY <2>2, <2>4
      <3>4. QED
        BY ONLY <3>2, <3>3
    <2>7. QED
      BY <2>3, <2>4, <2>5, <2>6
  <1>5. new \in Nat \ {0} /\ new <= RecentLen /\ old - new \in {0, -1}
    BY <1>2, <1>4
  <1>6. DOMAIN recent' = 1 .. new /\ DOMAIN recent = 1 .. old
    BY <1>2, <1>4, LenProperties
  <1>7. recent'[new] = 0
    <2> HIDE DEF old, new
    <2>1. new \in 1 .. new /\ new + (old + 1 - new) = old + 1
      BY <1>2, <1>5
    <2>2. recent'[new] = all[new + (old + 1 - new)]
      BY <1>4, <2>1
    <2>3. QED
      BY <1>3, <2>1, <2>2
  <1> HIDE DEF old, new
  <1>8. SUFFICES ASSUME RecentLen >= Rate
                 PROVE  Cardinality(DOMAIN ran') <= Rate /\ Windowed'
    BY <1>1, <1>5 DEF Paced, RunningLast, new
  <1>9. Windowed /\ RunningLast /\ Cardinality(DOMAIN ran) < Rate
    BY <1>1, <1>8 DEF Paced
  <1>10. /\ IsFiniteSet(DOMAIN ran) /\ Cardinality(DOMAIN ran) \in Nat
         /\ \A n \in DOMAIN ran : n \in Int /\ n <= total /\ ran[n] \in 0 .. Hour /\ running <= ran[n]
    BY <1>1, <1>9, RanIsFinite DEF Windowed, RunningLast
  <1>11. CASE running > Hour
    <2>1. ASSUME NEW n \in DOMAIN ran PROVE FALSE
      <3>1. ran[n] \in 0 .. Hour /\ running <= ran[n]
        BY <1>10
      <3>2. QED
        BY <1>2, <1>11, <3>1
    <2>2. ran' = ran
      BY <1>1, <1>11
    <2>3. Cardinality(DOMAIN ran') <= Rate
      BY <1>2, <1>9, <1>10, <2>2
    <2>4. Windowed'
      BY <2>1, <2>2 DEF Windowed
    <2>5. QED
      BY <2>3, <2>4
  <1>12. CASE running <= Hour
    <2>1. /\ DOMAIN ran' = DOMAIN ran \cup {total + 1} /\ ran'[total + 1] = running
          /\ \A n \in DOMAIN ran : ran'[n] = ran[n]
      <3>1. ran' = [n \in DOMAIN ran \cup {total + 1} |-> IF n = total + 1 THEN running ELSE ran[n]]
        BY <1>1, <1>2, <1>12
      <3>2. total + 1 \notin DOMAIN ran
        BY <1>2, <1>10
      <3>3. QED
        BY <3>1, <3>2
    <2>2. Cardinality(DOMAIN ran') <= Rate
      <3>1. Cardinality(DOMAIN ran \cup {total + 1}) \in {Cardinality(DOMAIN ran), Cardinality(DOMAIN ran) + 1}
        BY <1>10, FS_AddElement
      <3>2. Cardinality(DOMAIN ran') = Cardinality(DOMAIN ran \cup {total + 1})
        BY <2>1
      <3>3. QED
        BY <1>2, <1>9, <1>10, <3>1, <3>2
    <2>3. ASSUME NEW n \in DOMAIN ran
          PROVE  /\ n - (total + 1) + new \in 1 .. new
                 /\ recent'[n - (total + 1) + new] = recent[Place(n)]
      <3>1. Place(n) \in 1 .. old /\ Place(n) = n - total + old /\ n \in Int /\ n <= total
        BY <1>6, <1>9, <1>10, <2>3 DEF Windowed, Place, old
      <3>2. new = old => Place(n) # 1
        <4> SUFFICES ASSUME new = old, Place(n) = 1 PROVE FALSE
          OBVIOUS
        <4>1. n = total - old + 1 /\ old >= RecentLen
          <5> HIDE DEF old, new
          <5>1. Place(n) = 1 /\ Place(n) = n - total + old /\ n \in Int /\ total \in Nat /\ old \in Nat
            BY <1>2, <3>1
          <5>2. n = total - old + 1
            BY ONLY <5>1
          <5>3. old >= RecentLen
            BY <1>2, <1>4
          <5>4. QED
            BY <5>2, <5>3
        <4>2. n .. total \in SUBSET (DOMAIN ran)
          BY <1>9, <2>3 DEF Windowed
        <4>3. Cardinality(n .. total) <= Cardinality(DOMAIN ran)
          BY <1>10, <4>2, FS_Subset
        <4>4. Cardinality(n .. total) = old
          <5>1. n \in Int /\ total \in Int /\ (IF n > total THEN 0 ELSE total - n + 1) = old
            BY <1>2, <3>1, <4>1
          <5>2. QED
            BY <5>1, FS_Interval
        <4>5. QED
          BY <1>2, <1>8, <1>9, <1>10, <4>1, <4>3, <4>4
      <3>3. n - (total + 1) + new \in 1 .. new
        BY <1>2, <1>5, <3>1, <3>2
      <3>4. recent'[n - (total + 1) + new] = all[n - (total + 1) + new + (old + 1 - new)]
        BY <1>4, <3>3
      <3>5. n - (total + 1) + new + (old + 1 - new) = Place(n)
        BY <1>2, <1>5, <3>1
      <3>6. QED
        BY <1>3, <3>1, <3>3, <3>4, <3>5
    <2>4. Windowed'
      <3> SUFFICES ASSUME NEW n \in DOMAIN ran'
                   PROVE  /\ n \in Int /\ n <= total' /\ Place(n)' \in DOMAIN recent'
                          /\ ran'[n] \in 0 .. Hour /\ recent'[Place(n)'] <= ran'[n]
                          /\ \A m \in n .. total' : m \in DOMAIN ran' /\ ran'[m] <= ran'[n]
        BY DEF Windowed
      <3>1. Place(n)' = n - (total + 1) + new
        BY <1>1 DEF Place, new
      <3>2. CASE n = total + 1
        <4>1. Place(n)' = new
          BY <1>2, <1>5, <3>1, <3>2
        <4>2. \A m \in n .. total' : m = n
          BY <1>1, <1>2, <3>2
        <4>3. n \in Int /\ n <= total' /\ Place(n)' \in DOMAIN recent'
          BY <1>1, <1>2, <1>5, <1>6, <3>2, <4>1
        <4>4. ran'[n] = running /\ running \in 0 .. Hour /\ recent'[Place(n)'] = 0
          BY <1>2, <1>7, <1>12, <2>1, <3>2, <4>1
        <4>5. QED
          BY <1>2, <4>2, <4>3, <4>4
      <3>3. CASE n # total + 1
        <4>1. n \in DOMAIN ran /\ ran'[n] = ran[n]
          BY <2>1, <3>3
        <4>2. Place(n)' \in DOMAIN recent' /\ recent'[Place(n)'] = recent[Place(n)]
          BY <1>6, <2>3, <3>1, <4>1
        <4>3. /\ n \in Int /\ n <= total /\ ran[n] \in 0 .. Hour /\ recent[Place(n)] <= ran[n]
              /\ \A m \in n .. total : m \in DOMAIN ran /\ ran[m] <= ran[n]
          BY <1>9, <4>1 DEF Windowed
        <4>4. \A m \in n .. total' : m \in DOMAIN ran' /\ ran'[m] <= ran'[n]
          <5> SUFFICES ASSUME NEW m \in n .. total' PROVE m \in DOMAIN ran' /\ ran'[m] <= ran'[n]
            OBVIOUS
          <5>1. CASE m = total + 1
            BY <1>10, <2>1, <4>1, <5>1
          <5>2. CASE m # total + 1
            <6>1. m \in n .. total
              BY <1>1, <1>2, <4>3, <5>2
            <6>2. QED
              BY <2>1, <4>1, <4>3, <6>1
          <5>3. QED
            BY <5>1, <5>2
        <4>5. n <= total'
          BY <1>1, <1>2, <4>3
        <4>6. recent'[Place(n)'] <= ran'[n]
          BY <4>1, <4>2, <4>3
        <4>7. QED
          BY <4>1, <4>2, <4>3, <4>4, <4>5, <4>6
      <3>4. QED
        BY <3>2, <3>3
    <2>5. QED
      BY <2>2, <2>4
  <1>13. QED
    BY <1>2, <1>11, <1>12

\* Every step keeps the pace.
LEMMA PacedStep == Typed /\ Paced /\ [Next]_vars => Paced'
  <1> SUFFICES ASSUME Typed, Paced, [Next]_vars PROVE Paced'
    OBVIOUS
  <1>1. CASE UNCHANGED vars
    BY <1>1 DEF vars, window, Paced, Windowed, RunningLast, Place
  <1>2. QED
    BY <1>1, OthersPaced, GoesOnPaced, LaunchPaced, TimePaced, ReturnsPaced

\* The invariant holds in every reachable state.
THEOREM LoopInvariant == Spec => []LoopInv
  <1>1. LoopInv /\ [Next]_vars => LoopInv'
    BY TypedStep, SurvivingStep, ContainingStep, PacedStep DEF LoopInv
  <1>2. QED
    BY <1>1, LoopInit, PTL DEF Spec

\* max_iterations_per_hour is a limit: in no hour does one process begin more
\* iterations that return, although the window holds the times of their ends, is of
\* bounded length, and is looked at before an iteration of any duration.
THEOREM PaceIsKept == Spec => []PaceKept
  <1>1. LoopInv => PaceKept
    <2> SUFFICES ASSUME LoopInv, RecentLen >= Rate
                 PROVE  Cardinality(DOMAIN ran)
                          + (IF pc = "running" /\ running <= Hour THEN 1 ELSE 0) <= Rate
      BY DEF PaceKept
    <2>1. Cardinality(DOMAIN ran) <= Rate /\ (pc = "running" => Cardinality(DOMAIN ran) < Rate)
      BY DEF LoopInv, Paced
    <2>2. Cardinality(DOMAIN ran) \in Nat /\ Rate \in Nat
      BY RanIsFinite, DaemonParameters DEF LoopInv, Paced
    <2>3. QED
      BY <2>1, <2>2
  <1>2. QED
    BY <1>1, LoopInvariant, PTL

\* A process whose safety patterns have a hole ends within its first SnapshotEvery
\* iterations, unless a failure kept the fuzz pass from its verdict.
THEOREM HoleIsContained == Spec => []HoleContained
  <1>1. LoopInv => HoleContained
    BY DEF LoopInv, Containing, HoleContained
  <1>2. QED
    BY <1>1, LoopInvariant, PTL

\* No single exception ends a process that nobody asked to stop: run_forever leaves
\* its loop by one only out of the handler of another.
THEOREM SingleFailureIsSurvived == Spec => []SurvivesSingleFailure
  <1>1. LoopInv => SurvivesSingleFailure
    BY DEF LoopInv, Surviving, SurvivesSingleFailure
  <1>2. QED
    BY <1>1, LoopInvariant, PTL

=============================================================================
