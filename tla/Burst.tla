-------------------------------- MODULE Burst --------------------------------
(***************************************************************************)
(* scripts/burst.py: a finite run of iterations with a cost ceiling and a  *)
(* ledger.  Bursts run in parallel or one after the other on the budget    *)
(* file they share (Budget), each with a Curiosity of its own.  The loop   *)
(* looks at the ceiling, asks for an item, runs an iteration, and adds a   *)
(* row whose cost is the difference of two readings of today_cost_usd().   *)
(*                                                                         *)
(* Of run_iteration this module has the calls to the backend, in order,    *)
(* and what becomes of an exception they raise; the rest of it is in       *)
(* Coordinator.  The mock backend costs nothing: a burst that uses it      *)
(* makes no calls here.                                                    *)
(***************************************************************************)
EXTENDS Budget, Curiosity

CONSTANTS
    Plans,  \* process -> [iters, backend, seeds, live]: the bursts of a behaviour
    Agents  \* the agents that call the backend in an iteration, in order

ASSUME BurstParameters ==
    /\ \A chosen \in Plans : \A p \in Processes :
          /\ chosen[p].iters \in Nat /\ chosen[p].seeds \in Nat \ {0}
          /\ chosen[p].backend \in {"mock", "anthropic"}
          /\ chosen[p].live \in [GapNames -> Nat]
    /\ \A n \in DOMAIN Agents : Agents[n] \in {"researcher", "builder", "critic"}

VARIABLES
    plan,      \* what was started: a member of Plans
    at,        \* process -> where main() is
    curiosity, \* process -> its Curiosity
    counts,    \* process -> the live entries per tier in its memory
    item,      \* process -> text of the item at hand
    answers,   \* process -> calls of this iteration that were answered
    call,      \* process -> its call to the backend
    failure,   \* process -> what that call raised
    before,    \* process -> cost_before
    rows       \* process -> ledger_rows

burstVars == <<plan, at, curiosity, counts, item, answers, call, failure, before, rows>>
allVars == <<vars, burstVars>>

None == "none"

BurstInit ==
    /\ Init
    /\ plan \in Plans
    /\ at = [p \in Processes |-> "new"]
    /\ curiosity = [p \in Processes |-> NewCuriosity(plan[p].seeds)]
    /\ counts = [p \in Processes |-> plan[p].live]
    /\ item = [p \in Processes |-> SeedText(0)]
    /\ answers = [p \in Processes |-> 0]
    /\ call = [p \in Processes |-> Nobody]
    /\ failure = [p \in Processes |-> None]
    /\ before = [p \in Processes |-> 0]
    /\ rows = [p \in Processes |-> <<>>]

MoveTo(p, place) == at' = [at EXCEPT ![p] = place]

\* today_cost_usd(): the tracker's own state, not the file, and the log.
TodayCost(p) == state[p].cost[day] + WalCost

\* The tracker's constructor loads the file, under its lock.
Start(p) ==
    /\ at[p] = "new" /\ plan[p].iters > 0
    /\ lock = Nobody
    /\ state' = [state EXCEPT ![p] = Loaded(FreshState)]
    /\ MoveTo(p, "loop")
    /\ UNCHANGED <<disk, wal, lock, pc, callVars, day, aged, charged, billed, bounds,
                   plan, curiosity, counts, item, answers, call, failure, before, rows>>

MoreToDo(p) == Len(rows[p]) < plan[p].iters

\* The ceiling is reached, or the iterations are done: the ledger is written.
Finish(p) ==
    /\ at[p] = "loop"
    /\ ~MoreToDo(p) \/ TodayCost(p) >= Cap
    /\ MoveTo(p, "finished")
    /\ UNCHANGED <<vars, plan, curiosity, counts, item, answers, call, failure, before, rows>>

Begin(p) ==
    /\ at[p] = "loop"
    /\ MoreToDo(p)
    /\ TodayCost(p) < Cap
    /\ \E next \in NextItems(curiosity[p], counts[p]) :
          /\ item' = [item EXCEPT ![p] = next.text]
          /\ curiosity' = [curiosity EXCEPT ![p] = next.then]
    /\ before' = [before EXCEPT ![p] = TodayCost(p)]
    /\ answers' = [answers EXCEPT ![p] = IF plan[p].backend = "mock" THEN Len(Agents) ELSE 0]
    /\ MoveTo(p, "iterating")
    /\ UNCHANGED <<vars, plan, counts, call, failure, rows>>

-----------------------------------------------------------------------------
(* run_iteration                                                           *)

Between(p) == at[p] = "iterating" /\ call[p] = Nobody

\* The next agent calls the backend; the cap or the lock may be in the way.
AgentCalls(p) ==
    /\ Between(p)
    /\ answers[p] < Len(Agents)
    /\ \E c \in Calls :
          /\ owner[c] = p
          /\ call' = [call EXCEPT ![p] = c]
          /\ \E est \in Estimates :
                \/ ReserveEnter(c, est) /\ UNCHANGED failure
                \/ ReserveRefused(c, est) /\ failure' = [failure EXCEPT ![p] = "BudgetCapExceeded"]
                \/ pc[c] = "idle" /\ LockRefused(c) /\ failure' = [failure EXCEPT ![p] = "other"]
    /\ UNCHANGED <<plan, at, curiosity, counts, item, answers, before, rows>>

\* The tracker and the provider go on with the call.
CallGoesOn(c) ==
    /\ \/ /\ \/ ReserveCommit(c)
             \/ \E cost \in 0 .. amount[c] : CallReturns(c, cost)
             \/ RecordDrain(c) \/ RecordUnlink(c) \/ RecordApply(c) \/ RecordCommit(c)
             \/ RecordToWal(c)
             \/ CancelEnter(c) \/ CancelCommit(c) \/ CancelNothing(c)
             \/ pc[c] = "raised" /\ LockRefused(c)
          /\ UNCHANGED failure
       \/ /\ CallRaises(c) \/ SaveFails(c) \/ RecordRaises(c)
          /\ failure' = [failure EXCEPT ![owner[c]] = "other"]
    /\ UNCHANGED <<plan, at, curiosity, counts, item, answers, call, before, rows>>

\* complete() returns to the agent, or raises there.
AgentAnswers(p) ==
    /\ call[p] # Nobody /\ pc[call[p]] \in {"done", "walled"}
    /\ answers' = [answers EXCEPT ![p] = @ + 1]
    /\ call' = [call EXCEPT ![p] = Nobody]
    /\ UNCHANGED <<vars, plan, at, curiosity, counts, item, failure, before, rows>>

Raised(p) ==
    /\ at[p] = "iterating" /\ call[p] # Nobody
    /\ pc[call[p]] \in {"refused", "unsaved", "unrecorded", "cancelled", "uncancelled"}

\* Only the Researcher's and the Builder's exceptions are turned into a rollback,
\* and BudgetCapExceeded is let through everywhere.
Caught(p) ==
    /\ Raised(p)
    /\ failure[p] # "BudgetCapExceeded"
    /\ Agents[answers[p] + 1] # "critic"

\* Seeded fault: a row with the day's cost.
RowCostOfDay(p) == TodayCost(p)

\* cost_after - cost_before
RowCost(p) == TodayCost(p) - before[p]

Row(p, outcome) == [item |-> item[p], outcome |-> outcome, cost |-> RowCost(p)]

\* Any gate may roll the iteration back, the scan of the item first of all.
RolledBack(p) ==
    /\ Between(p) \/ Caught(p)
    /\ curiosity' = [curiosity EXCEPT ![p] = RecordRollback(@, item[p])]
    /\ rows' = [rows EXCEPT ![p] = Append(@, Row(p, "rolled-back"))]
    /\ call' = [call EXCEPT ![p] = Nobody]
    /\ failure' = [failure EXCEPT ![p] = None]
    /\ MoveTo(p, "loop")
    /\ UNCHANGED <<vars, plan, counts, item, answers, before>>

\* The promoted entry goes to the default target tier.
Promoted(p) ==
    /\ Between(p)
    /\ answers[p] = Len(Agents)
    /\ curiosity' = [curiosity EXCEPT ![p] = RecordPromoted(@, item[p])]
    /\ counts' = [counts EXCEPT ![p].episodic = @ + 1]
    /\ rows' = [rows EXCEPT ![p] = Append(@, Row(p, "promoted"))]
    /\ MoveTo(p, "loop")
    /\ UNCHANGED <<vars, plan, item, answers, call, failure, before>>

\* Nothing in main() catches an exception: no ledger is written.
Crash(p) ==
    /\ Raised(p) /\ ~Caught(p)
    /\ MoveTo(p, "crashed")
    /\ UNCHANGED <<vars, plan, curiosity, counts, item, answers, call, failure, before, rows>>

\* The process is killed or interrupted from its terminal, between two iterations or in
\* one; nothing in main(), run_iteration() or the tracker catches that.
Interrupted(p) ==
    /\ at[p] \in {"loop", "iterating"}
    /\ \/ Die(p)
       \/ (\A c \in Calls : owner[c] = p => pc[c] \in Ended) /\ UNCHANGED vars
    /\ MoveTo(p, IF at[p] = "loop" THEN "stopped" ELSE "killed")
    /\ UNCHANGED <<plan, curiosity, counts, item, answers, call, failure, before, rows>>

Midnight == NewDay /\ UNCHANGED burstVars

BurstNext ==
    \/ \E p \in Processes :
          \/ Start(p) \/ Begin(p) \/ Finish(p)
          \/ AgentCalls(p) \/ AgentAnswers(p)
          \/ RolledBack(p) \/ Promoted(p) \/ Crash(p) \/ Interrupted(p)
    \/ \E c \in Calls : CallGoesOn(c)
    \/ Midnight

BurstSpec == BurstInit /\ [][BurstNext]_allVars

-----------------------------------------------------------------------------
(* Properties.                                                             *)

\* What burst p shows, with the iteration it is in, and what its own calls cost.
Shown(p) ==
    Sum([n \in DOMAIN rows[p] |-> rows[p][n].cost])
        + IF at[p] \in {"iterating", "crashed"} THEN RowCost(p) ELSE 0

Own(p) == Sum([c \in Calls |-> IF owner[c] = p /\ pc[c] = "done" THEN actual[c] ELSE 0])

\* A row may show money that a parallel burst spent, but all rows of a burst
\* together show no less than its own calls were billed and no more than all
\* calls of the day were, however the bursts are interleaved, and whichever of the
\* others are killed: until midnight, and as long as no cost went to the write-ahead
\* log.
RowsBracketSpend ==
    (day = 1 /\ \A c \in Calls : pc[c] # "walled") =>
        \A p \in Processes :
            at[p] \notin {"stopped", "killed"} => Own(p) <= Shown(p) /\ Shown(p) <= charged[1]

\* The calls that can leave a reservation behind, until it is pruned: the lock was not
\* had when it was to be given back, a write was refused, or the process ended while
\* the call ran.
Strands == {"walled", "uncancelled", "unrecorded", "unsaved", "dead"}

\* When no burst is inside an iteration, every reservation left in the file is of such
\* a call, and each refused lock or write and each process that ended left one at most.
\* Answers, errors of the provider, refusals by the cap, gates and exceptions that end
\* a burst leave none, on any interleaving of the bursts: they do not keep later bursts
\* from calling.
NothingStranded ==
    (\A p \in Processes : at[p] # "iterating") /\ disk # NoFile =>
        LET left == {c \in Calls : disk.pending[c] # 0} IN
        /\ \A c \in left : pc[c] \in Strands
        /\ Cardinality(left) <= deaths + refusals

\* The item after one that rolled back is its follow-up, and after one that
\* promoted it is neither that item again, as long as there are more seeds than
\* recent holds, nor a follow-up.
FailureIsTakenUp ==
    [][\A p \in Processes :
          at[p] = "loop" /\ at'[p] = "iterating" /\ rows[p] # <<>> =>
              LET last == rows[p][Len(rows[p])] IN
              IF last.outcome = "rolled-back"
              THEN item'[p] = FollowUp(last.item)
              ELSE /\ item'[p].tries = 0
                   /\ curiosity[p].seeds > RecentMax /\ item'[p].about = "seed" =>
                          item'[p] # last.item]_allVars

\* No seed starves.  With more seeds than recent holds they take strict turns; with
\* fewer, when the choice may become random, each comes up once in as many turns as
\* there are seeds and recent holds, whatever is promoted.
SeedsTakeTurns ==
    \A p \in Processes :
        LET seeds == curiosity[p].seeds
            window == IF seeds > RecentMax THEN seeds ELSE seeds + RecentMax
        IN \A from, to \in DOMAIN rows[p] :
              LET turns == {n \in from .. to : rows[p][n].item.about = "seed" /\ rows[p][n].item.tries = 0}
              IN Cardinality(turns) >= window =>
                     \A seed \in 0 .. seeds - 1 : \E n \in turns : rows[p][n].item.n = seed

=============================================================================
