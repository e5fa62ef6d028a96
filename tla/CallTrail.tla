------------------------------ MODULE CallTrail ------------------------------
(***************************************************************************)
(* What one metered call goes through and leaves behind:                   *)
(*   AnthropicBackend.complete   the attempts of one call, retried on 429  *)
(*                               and 5xx answers                           *)
(*   _BackendTracker             one line per call in the sidecar next to  *)
(*                               the budget file, after record() or        *)
(*                               cancel_reservation().                     *)
(* The tracker is Budget, every step of which is a step here.  Back-off    *)
(* times are left out; how an exception is worded is too, so CallRaises    *)
(* stands for the last 429 and 5xx and for every error that is not retried.*)
(***************************************************************************)
EXTENDS Budget

CONSTANTS
    MaxRetries   \* _MAX_RETRIES

ASSUME RetryParameters == MaxRetries \in Nat

VARIABLES
    attempt,  \* call -> len(retries)
    line      \* call -> its line in the sidecar: "none", "ok", "exception", or
              \* "missed": the append failed, or the process died before it

trail == <<attempt, line>>
trailVars == <<vars, trail>>

TrailInit ==
    /\ Init
    /\ attempt = [c \in Calls |-> 0]
    /\ line = [c \in Calls |-> "none"]

\* Seeded fault: the count starts again when the answer is of the other kind.
RetryPerKind(c) ==
    /\ pc[c] = "inflight"
    /\ attempt[c] < MaxRetries
    /\ \E count \in {attempt[c] + 1, 0} : attempt' = [attempt EXCEPT ![c] = count]
    /\ UNCHANGED <<vars, line>>

\* 429 or 5xx, and there are retries left.
Retry(c) ==
    /\ pc[c] = "inflight"
    /\ attempt[c] < MaxRetries
    /\ attempt' = [attempt EXCEPT ![c] = @ + 1]
    /\ UNCHANGED <<vars, line>>

\* _append_call_log swallows every exception.
AppendCallLog(c, outcome) ==
    /\ line[c] = "none"
    /\ \E l \in {outcome, "missed"} : line' = [line EXCEPT ![c] = l]
    /\ UNCHANGED <<vars, attempt>>

\* Seeded fault: the line is written before the cost is recorded.
LogOkEarly(c) == pc[c] \in {"returned", "walled"} /\ AppendCallLog(c, "ok")

\* After record(), which has put the cost into the file or the write-ahead log.
LogOk(c) == pc[c] \in {"done", "walled"} /\ AppendCallLog(c, "ok")

\* After cancel_reservation(); when that raises ("uncancelled"), or record() does
\* ("unrecorded"), no line is written.
LogException(c) == pc[c] = "cancelled" /\ AppendCallLog(c, "exception")

TrailNext ==
    \/ Next /\ UNCHANGED trail
    \/ \E c \in Calls : Retry(c) \/ LogOk(c) \/ LogException(c)

\* A call that was begun goes on: the provider answers or its client times out,
\* and nothing else in a call waits but for the lock, which every holder gives
\* back.
Works(c) ==
    \/ pc[c] # "idle" /\ Metered(c) /\ UNCHANGED trail
    \/ Retry(c) \/ LogOk(c) \/ LogException(c)

TrailSpec == TrailInit /\ [][TrailNext]_trailVars /\ \A c \in Calls : WF_trailVars(Works(c))

-----------------------------------------------------------------------------
(* Properties.                                                             *)

LineCosts == MapThenSumSet(LAMBDA c : actual[c], {c \in Calls : line[c] = "ok"})

\* The sidecar never shows a cost that the ledger and its write-ahead log were not
\* given, also when processes die between the two and locks are refused; and once
\* every recorded call has its line, the two are the same.
TrailWithinLedger ==
    /\ LineCosts <= Sum(billed)
    /\ (\A c \in Calls : pc[c] \in {"done", "walled"} => line[c] = "ok")
           => LineCosts = Sum(billed)

\* No call is retried for ever or stuck behind the lock: once it has its
\* reservation it ends in an answer or an exception, whatever the provider says,
\* whichever processes die and whichever locks and writes are refused.
CallEnds ==
    \A c \in Calls : pc[c] = "inflight" ~> pc[c] \in Ended \ {"idle", "refused", "unsaved"}

=============================================================================
