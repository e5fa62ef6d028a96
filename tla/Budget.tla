------------------------------- MODULE Budget -------------------------------
(***************************************************************************)
(* csis.budget: BudgetTracker and the backend wrapper that meters every    *)
(* LLM call with it.  Several processes share one budget file; each call   *)
(* reserves its estimated cost, runs, and then records its actual cost or  *)
(* cancels the reservation.  Each of the three operations is a             *)
(* read-modify-write of the file under an inter-process lock:              *)
(*     Enter   take the lock, load the file, decide, change the loaded     *)
(*             state in memory                                             *)
(*     Commit  replace the file by the changed state, drop the lock.       *)
(* record() that cannot get the lock appends to a write-ahead log (WAL)    *)
(* instead; the next record() drains it.                                   *)
(*                                                                         *)
(* Time is abstracted to two events: a new UTC day begins, and a           *)
(* reservation becomes older than prune_stale_pending_s.                   *)
(***************************************************************************)
EXTENDS Integers, FiniteSets, FiniteSetsExt

CONSTANTS
    Processes,    \* processes with a tracker on the same path
    Calls,        \* LLM calls; a call is also its reservation token
    Nobody,       \* the file lock is free
    NoFile,       \* the budget file does not exist yet
    Cap,          \* max_cost_per_day_usd
    CallCeiling,  \* max_cost_per_call_usd
    Estimates,    \* pre-call estimates
    Days,         \* bound: 1 .. Days are the days of the behaviour
    MaxDeaths,    \* bound: process deaths
    MaxRefusals,  \* bound: locks and writes that the system refuses
    MaxAged       \* bound: reservations that outlive prune_stale_pending_s

ASSUME BudgetParameters ==
    /\ Nobody \notin Calls
    /\ IsFiniteSet(Calls)
    /\ Cap \in Nat
    /\ CallCeiling \in Nat
    /\ Estimates \subseteq Nat
    /\ Days \in Nat \ {0}
    /\ MaxDeaths \in Nat
    /\ MaxRefusals \in Nat
    /\ MaxAged \in Nat

VARIABLES
    disk,     \* the budget file: [cost : day -> total, pending : token -> amount]
    wal,      \* the write-ahead log: a set of [call, cost] records
    state,    \* process -> its _state
    lock,     \* the call inside the file lock
    pc,       \* call -> where it is
    owner,    \* call -> the process that makes it
    amount,   \* call -> its estimate
    actual,   \* call -> its actual cost, once the provider answered
    day,      \* today
    aged,     \* tokens of reservations older than the prune age
    charged,  \* history: what the provider charged, per day
    billed,   \* history: what record() accepted, per day
    deaths, refusals

bounds == <<deaths, refusals>>
callVars == <<owner, amount, actual>>
vars == <<disk, wal, state, lock, pc, callVars, day, aged, charged, billed, bounds>>

AllDays == 1 .. Days

\* BudgetState().  A token with amount 0 has no reservation.
NoCost == [d \in AllDays |-> 0]
FreshState == [cost |-> NoCost, pending |-> [c \in Calls |-> 0]]

States == [cost : [AllDays -> Nat], pending : [Calls -> Nat]]

ASSUME NoFileIsNoState == NoFile \notin States

Sum(f) == MapThenSumSet(LAMBDA x : f[x], DOMAIN f)

Reserved(s) == Sum(s.pending)

\* Seeded faults, for the mutants: a tracker that loads the file only once and
\* trusts its own state from then on, a cap check that ignores the other calls'
\* reservations, and clearing by process instead of by token.
LoadedOnce(s) == IF disk = NoFile \/ s # FreshState THEN s ELSE disk
FitsAlone(s, est) == s.cost[day] + est <= Cap
ClearedByProcess(s, c) ==
    [s EXCEPT !.pending = [d \in Calls |-> IF owner[d] = owner[c] THEN 0 ELSE @[d]]]

\* prune_stale_pending
Pruned(s) == [s EXCEPT !.pending = [c \in Calls |-> IF c \in aged THEN 0 ELSE @[c]]]

\* Removing the reservation with a given token.
Cleared(s, c) == [s EXCEPT !.pending[c] = 0]

Billed(s, cost) == [s EXCEPT !.cost[day] = @ + cost]

\* _load(): a missing file leaves the tracker's state as it is.
Loaded(s) == IF disk = NoFile THEN s ELSE disk

\* _drain_wal_into_state, applied to a state.
WalCost == Sum([r \in wal |-> r.cost])

Drained(s) ==
    [s EXCEPT !.cost[day] = @ + WalCost,
              !.pending = [c \in Calls |-> IF \E r \in wal : r.call = c THEN 0 ELSE @[c]]]

Init ==
    /\ disk = NoFile
    /\ wal = {}
    /\ state = [p \in Processes |-> FreshState]
    /\ lock = Nobody
    /\ pc = [c \in Calls |-> "idle"]
    /\ owner \in [Calls -> Processes]
    /\ amount = [c \in Calls |-> 0]
    /\ actual = [c \in Calls |-> 0]
    /\ day = 1
    /\ aged = {}
    /\ charged = NoCost
    /\ billed = NoCost
    /\ deaths = 0 /\ refusals = 0

Goto(c, label) == pc' = [pc EXCEPT ![c] = label]

SetState(c, s) == state' = [state EXCEPT ![owner[c]] = s]

-----------------------------------------------------------------------------
(* reserve_or_raise                                                        *)

\* What the cap check compares: today's recorded cost, everybody's
\* reservations and the new estimate.
Fits(s, est) == s.cost[day] + Reserved(s) + est <= Cap

ReserveEnter(c, est) ==
    LET loaded == Pruned(Loaded(state[owner[c]])) IN
    /\ pc[c] = "idle"
    /\ lock = Nobody
    /\ est <= CallCeiling
    /\ Fits(loaded, est)
    /\ SetState(c, [loaded EXCEPT !.pending[c] = est])
    /\ amount' = [amount EXCEPT ![c] = est]
    /\ lock' = c
    /\ Goto(c, "reserving")
    /\ UNCHANGED <<disk, wal, owner, actual, day, aged, charged, billed, bounds>>

\* BudgetCapExceeded: the per-call ceiling is checked before the lock is
\* taken, the daily cap inside it.  No call is made.
ReserveRefused(c, est) ==
    LET loaded == Pruned(Loaded(state[owner[c]])) IN
    /\ pc[c] = "idle"
    /\ \/ /\ est > CallCeiling
          /\ UNCHANGED state
       \/ /\ est <= CallCeiling
          /\ lock = Nobody
          /\ ~Fits(loaded, est)
          /\ SetState(c, loaded)
    /\ Goto(c, "refused")
    /\ UNCHANGED <<disk, wal, lock, callVars, day, aged, charged, billed, bounds>>

\* _save and the release of the lock.
Commit(c, from, to) ==
    /\ pc[c] = from
    /\ disk' = state[owner[c]]
    /\ lock' = Nobody
    /\ Goto(c, to)
    /\ UNCHANGED <<wal, state, callVars, day, aged, charged, bounds>>

ReserveCommit(c) == Commit(c, "reserving", "inflight") /\ UNCHANGED billed

-----------------------------------------------------------------------------
(* The wrapped backend (external).                                         *)

\* The answer arrives and its cost is charged.  The estimate is an upper bound
\* of it: same price table, same prompt, tokens_out capped at max_tokens.
CallReturns(c, cost) ==
    /\ pc[c] = "inflight"
    /\ cost <= amount[c]
    /\ actual' = [actual EXCEPT ![c] = cost]
    /\ charged' = [charged EXCEPT ![day] = @ + cost]
    /\ Goto(c, "returned")
    /\ UNCHANGED <<disk, wal, state, lock, owner, amount, day, aged, billed, bounds>>

CallRaises(c) ==
    /\ pc[c] = "inflight"
    /\ Goto(c, "raised")
    /\ UNCHANGED <<disk, wal, state, lock, callVars, day, aged, charged, billed, bounds>>

-----------------------------------------------------------------------------
(* record                                                                  *)

\* Seeded fault: record() without the file lock.
RecordDrainUnlocked(c) ==
    /\ pc[c] = "returned"
    /\ lock' = c
    /\ SetState(c, Drained(state[owner[c]]))
    /\ Goto(c, IF wal = {} THEN "drained" ELSE "draining")
    /\ UNCHANGED <<disk, wal, callVars, day, aged, charged, billed, bounds>>

\* The WAL is read into _state ...
RecordDrain(c) ==
    /\ pc[c] = "returned"
    /\ lock = Nobody
    /\ lock' = c
    /\ SetState(c, Drained(state[owner[c]]))
    /\ Goto(c, IF wal = {} THEN "drained" ELSE "draining")
    /\ UNCHANGED <<disk, wal, callVars, day, aged, charged, billed, bounds>>

\* ... and removed, if it held anything, ...
RecordUnlink(c) ==
    /\ pc[c] = "draining"
    /\ wal' = {}
    /\ Goto(c, "drained")
    /\ UNCHANGED <<disk, state, lock, callVars, day, aged, charged, billed, bounds>>

\* ... and then the file is loaded over _state, and this call is added to it.
RecordApply(c) ==
    /\ pc[c] = "drained"
    /\ SetState(c, Cleared(Billed(Pruned(Loaded(state[owner[c]])), actual[c]), c))
    /\ Goto(c, "recording")
    /\ UNCHANGED <<disk, wal, lock, callVars, day, aged, charged, billed, bounds>>

RecordCommit(c) ==
    /\ Commit(c, "recording", "done")
    /\ billed' = [billed EXCEPT ![day] = @ + actual[c]]

\* LockUnavailable: the cost goes to the WAL, without any lock.
RecordToWal(c) ==
    /\ pc[c] = "returned"
    /\ refusals < MaxRefusals
    /\ refusals' = refusals + 1
    /\ wal' = wal \cup {[call |-> c, cost |-> actual[c]]}
    /\ billed' = [billed EXCEPT ![day] = @ + actual[c]]
    /\ Goto(c, "walled")
    /\ UNCHANGED <<disk, state, lock, callVars, day, aged, charged, deaths>>

-----------------------------------------------------------------------------
(* cancel_reservation                                                      *)

CancelEnter(c) ==
    LET loaded == Pruned(Loaded(state[owner[c]])) IN
    /\ pc[c] = "raised"
    /\ lock = Nobody
    /\ loaded.pending[c] # 0
    /\ SetState(c, Cleared(loaded, c))
    /\ lock' = c
    /\ Goto(c, "cancelling")
    /\ UNCHANGED <<disk, wal, callVars, day, aged, charged, billed, bounds>>

CancelCommit(c) == Commit(c, "cancelling", "cancelled") /\ UNCHANGED billed

\* No reservation has the token: nothing is saved.
CancelNothing(c) ==
    LET loaded == Pruned(Loaded(state[owner[c]])) IN
    /\ pc[c] = "raised"
    /\ lock = Nobody
    /\ loaded.pending[c] = 0
    /\ SetState(c, loaded)
    /\ Goto(c, "cancelled")
    /\ UNCHANGED <<disk, wal, lock, callVars, day, aged, charged, billed, bounds>>

\* The lock is not had, or its file cannot be opened, in reserve_or_raise (no call
\* is made) or in cancel_reservation (the reservation stays until it is pruned).
LockRefused(c) ==
    /\ pc[c] \in {"idle", "raised"}
    /\ refusals < MaxRefusals
    /\ refusals' = refusals + 1
    /\ Goto(c, IF pc[c] = "idle" THEN "refused" ELSE "uncancelled")
    /\ UNCHANGED <<disk, wal, state, lock, callVars, day, aged, charged, billed, deaths>>

-----------------------------------------------------------------------------
(* What the disk refuses.  Whoever called complete() gets the exception.   *)

\* _save raises: the file stays as it was, the lock is given back, and the change
\* stays in _state.  The next _load drops it, unless there is no file yet: then the
\* process's next save writes a reservation for which no call was made.
SaveFails(c) ==
    /\ refusals < MaxRefusals
    /\ refusals' = refusals + 1
    /\ \/ pc[c] = "reserving" /\ Goto(c, "unsaved")
       \/ pc[c] = "recording" /\ Goto(c, "unrecorded")
       \/ pc[c] = "cancelling" /\ Goto(c, "uncancelled")
    /\ lock' = Nobody
    /\ UNCHANGED <<disk, wal, state, callVars, day, aged, charged, billed, deaths>>

\* record() gets no lock and the write-ahead log cannot be written either, or the
\* lock's file cannot be opened, which is no LockUnavailable: the cost is nowhere.
RecordRaises(c) ==
    /\ pc[c] = "returned"
    /\ refusals < MaxRefusals
    /\ refusals' = refusals + 1
    /\ Goto(c, "unrecorded")
    /\ UNCHANGED <<disk, wal, state, lock, callVars, day, aged, charged, billed, deaths>>

-----------------------------------------------------------------------------
(* The environment.                                                        *)

Ended ==
    {"idle", "refused", "unsaved", "done", "walled", "unrecorded", "cancelled", "uncancelled",
     "dead"}

\* A process dies with all its calls; the lock is released by the operating
\* system and the next process with the same name starts from the file.  A Ctrl-C
\* ends a call like this too: no "except Exception" catches a KeyboardInterrupt.
Die(p) ==
    LET calls == {c \in Calls : owner[c] = p /\ pc[c] \notin Ended} IN
    /\ deaths < MaxDeaths
    /\ calls # {}
    /\ deaths' = deaths + 1
    /\ pc' = [c \in Calls |-> IF c \in calls THEN "dead" ELSE pc[c]]
    /\ lock' = IF lock \in calls THEN Nobody ELSE lock
    /\ state' = [state EXCEPT ![p] = Loaded(FreshState)]
    /\ UNCHANGED <<disk, wal, callVars, day, aged, charged, billed, refusals>>

\* The reservation of a call, in flight or ended without clearing it, outlives
\* the prune age (an hour).
Age(c) ==
    /\ pc[c] \in {"inflight", "returned", "raised", "dead", "walled", "uncancelled",
              "unsaved", "unrecorded"}
    /\ c \notin aged
    /\ Cardinality(aged) < MaxAged
    /\ aged' = aged \cup {c}
    /\ UNCHANGED <<disk, wal, state, lock, pc, callVars, day, charged, billed, bounds>>

\* Midnight UTC, between two critical sections.
NewDay ==
    /\ day < Days
    /\ lock = Nobody
    /\ day' = day + 1
    /\ UNCHANGED <<disk, wal, state, lock, pc, callVars, aged, charged, billed, bounds>>

Metered(c) ==
    \/ \E est \in Estimates : ReserveEnter(c, est) \/ ReserveRefused(c, est)
    \/ ReserveCommit(c)
    \/ \E cost \in 0 .. amount[c] : CallReturns(c, cost)
    \/ CallRaises(c)
    \/ RecordDrain(c) \/ RecordUnlink(c) \/ RecordApply(c) \/ RecordCommit(c)
    \/ RecordToWal(c)
    \/ CancelEnter(c) \/ CancelCommit(c) \/ CancelNothing(c)
    \/ LockRefused(c) \/ SaveFails(c) \/ RecordRaises(c)

Next ==
    \/ \E c \in Calls : Metered(c) \/ Age(c)
    \/ \E p \in Processes : Die(p)
    \/ NewDay

Spec == Init /\ [][Next]_vars

-----------------------------------------------------------------------------
(* Properties.                                                             *)

\* On no day does the provider charge more than the cap, over all processes,
\* whatever calls are in flight at once, whichever processes die, whichever locks
\* and writes are refused, until a reservation is pruned whose call was charged.
ChargedWithinCap == aged = {} => \A d \in AllDays : charged[d] <= Cap

\* Every call in flight, or answered and not yet recorded, has its full
\* estimate reserved in the shared file, where the other processes count it,
\* unless it is older than the prune age; a call that was recorded or cancelled
\* holds none, and no other process's stale state brings it back.  (A
\* reservation that was pruned before it was cancelled stays in the file until
\* the next save; every later operation prunes it again.)
ReservedWhileInFlight ==
    \A c \in Calls \ aged :
        /\ pc[c] \in {"inflight", "returned", "raised"} =>
               disk # NoFile /\ disk.pending[c] = amount[c]
        /\ pc[c] \in {"done", "cancelled"} => disk.pending[c] = 0

\* The file's totals are exactly what record() accepted: no update of one
\* process is lost under another's, as long as none went to the WAL.
LedgerExact ==
    (\A c \in Calls : pc[c] # "walled") /\ disk # NoFile => disk.cost = billed

\* The same with the write-ahead log: what record() accepted is in the file or
\* in the WAL, so no spend is lost to a lock that could not be had.
NoSpendLost ==
    lock = Nobody =>
        Sum(billed) = WalCost + IF disk = NoFile THEN 0 ELSE Sum(disk.cost)

=============================================================================
