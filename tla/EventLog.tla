------------------------------ MODULE EventLog ------------------------------
(***************************************************************************)
(* csis.substrate.event_log.EventLog: an append-only, hash-chained file    *)
(* shared by several processes, each with a cached seq number and previous *)
(* hash.  emit() holds the process's threading.Lock and the inter-process  *)
(* file lock while it re-reads the file, appends one line and advances its *)
(* cache; a line longer than the I/O buffer reaches the file in several    *)
(* writes.  Readers (iter_events, verify_chain) take no lock.  A process   *)
(* may die at any point, or have a write fail half way (a full disk).      *)
(*                                                                         *)
(* compute_hash is taken to be injective on (event, previous hash), so a   *)
(* hash is represented by the sequence of (seq, event) pairs it commits    *)
(* to; GENESIS_PREV_HASH is the empty sequence.                            *)
(***************************************************************************)
EXTENDS Integers, Sequences, FiniteSets

CONSTANTS
    Processes,   \* OS processes with an EventLog on the same path
    Events,      \* the events emitted, each by one call of emit()
    Nobody,      \* the file lock is free
    Garbage,     \* a line that is not one JSON object
    MaxDeaths,   \* bound: process deaths
    MaxTears,    \* bound: writes cut short, by a death or an I/O error
    TearPoints,  \* where a cut line may end: "half", or "bare" (before its newline)
    MaxRefusals  \* bound: emits refused with LockUnavailable

ASSUME LogParameters ==
    /\ Nobody \notin Processes
    /\ MaxDeaths \in Nat
    /\ MaxTears \in Nat
    /\ TearPoints \subseteq {"half", "bare"}
    /\ MaxRefusals \in Nat

VARIABLES
    file,     \* the lines of session.jsonl
    tail,     \* the end of the file: "clean" (newline), "half" (a partial
              \* JSON object), "bare" (a complete object without newline)
    glued,    \* the last line continues one that had no newline
    lock,     \* holder of the file lock
    cache,    \* process -> [seq, prev], its _seq and _prev_hash
    pc,       \* process -> where its emit() is, or "down"
    current,  \* process -> the event it is emitting
    queue,    \* events not yet emitted
    acked,    \* events whose emit() returned
    deaths, tears, refusals,  \* counters for the bounds
    reader    \* the state of one verify_chain() call

diskVars == <<file, tail, glued>>
bounds == <<deaths, tears, refusals>>
vars == <<file, tail, glued, lock, cache, pc, current, queue, acked, bounds, reader>>

Genesis == <<>>

\* SignedEvent.compute_hash.
ComputeHash(seq, event, prev) == Append(prev, <<seq, event>>)

SignedEvent(seq, event, prev) ==
    [seq |-> seq, event |-> event, prev |-> prev, hash |-> ComputeHash(seq, event, prev)]

\* What an intact line can be.
Hashes == Seq(Nat \X Events)
Lines == [seq : Nat, event : Events, prev : Hashes, hash : Hashes]

ASSUME GarbageIsNoLine == Garbage \notin Lines \cup Events

IsLine(line) == line # Garbage

\* Every line parses: restore and iter_events raise otherwise.
Readable == \A i \in DOMAIN file : IsLine(file[i])

\* _restore_from_disk_unlocked: the cache is taken from the last line.
Restored ==
    IF file = <<>> THEN [seq |-> 0, prev |-> Genesis]
    ELSE LET last == file[Len(file)] IN [seq |-> last.seq + 1, prev |-> last.hash]

Idle == [at |-> "idle", pos |-> 0, prev |-> Genesis]

Init ==
    /\ file = <<>>
    /\ tail = "clean"
    /\ glued = FALSE
    /\ lock = Nobody
    /\ cache = [p \in Processes |-> [seq |-> 0, prev |-> Genesis]]
    /\ pc = [p \in Processes |-> "idle"]
    /\ current = [p \in Processes |-> Nobody]
    /\ queue = Events
    /\ acked = {}
    /\ deaths = 0 /\ tears = 0 /\ refusals = 0
    /\ reader = Idle

-----------------------------------------------------------------------------
(* emit()                                                                  *)

\* Seeded fault: emit() under the thread lock alone.
AcquireThreadLockOnly(p, e) ==
    /\ pc[p] = "idle"
    /\ e \in queue
    /\ lock' = p
    /\ current' = [current EXCEPT ![p] = e]
    /\ queue' = queue \ {e}
    /\ pc' = [pc EXCEPT ![p] = "locked"]
    /\ UNCHANGED <<diskVars, cache, acked, bounds, reader>>

\* The call takes the thread lock, then the file lock.
Acquire(p, e) ==
    /\ pc[p] = "idle"
    /\ e \in queue
    /\ lock = Nobody
    /\ lock' = p
    /\ current' = [current EXCEPT ![p] = e]
    /\ queue' = queue \ {e}
    /\ pc' = [pc EXCEPT ![p] = "locked"]
    /\ UNCHANGED <<diskVars, cache, acked, bounds, reader>>

\* file_lock gives up: LockUnavailable leaves emit() before anything is read.
Refused(p, e) ==
    /\ pc[p] = "idle"
    /\ e \in queue
    /\ refusals < MaxRefusals
    /\ refusals' = refusals + 1
    /\ queue' = queue \ {e}
    /\ UNCHANGED <<diskVars, lock, cache, pc, current, acked, deaths, tears, reader>>

Release(p) ==
    /\ lock' = Nobody
    /\ current' = [current EXCEPT ![p] = Nobody]
    /\ pc' = [pc EXCEPT ![p] = "idle"]

\* Seeded fault: the cache of the last emit is trusted, the file is not re-read.
RestoreFromCache(p) ==
    /\ pc[p] = "locked"
    /\ Readable
    /\ pc' = [pc EXCEPT ![p] = "restored"]
    /\ UNCHANGED <<diskVars, cache, lock, current, queue, acked, bounds, reader>>

Restore(p) ==
    /\ pc[p] = "locked"
    /\ Readable
    /\ cache' = [cache EXCEPT ![p] = Restored]
    /\ pc' = [pc EXCEPT ![p] = "restored"]
    /\ UNCHANGED <<diskVars, lock, current, queue, acked, bounds, reader>>

\* Seeded fault: the error path keeps the locks.
RestoreRaisesHoldingLock(p) ==
    /\ pc[p] = "locked"
    /\ ~Readable
    /\ UNCHANGED vars

\* A line that does not parse raises out of emit(), which drops both locks.
RestoreRaises(p) ==
    /\ pc[p] = "locked"
    /\ ~Readable
    /\ Release(p)
    /\ UNCHANGED <<diskVars, cache, queue, acked, bounds, reader>>

\* Seeded fault: the file is opened with mode "w".
WriteHalfTruncating(p) ==
    /\ pc[p] = "restored"
    /\ file' = <<Garbage>>
    /\ glued' = FALSE
    /\ tail' = "half"
    /\ pc' = [pc EXCEPT ![p] = "half"]
    /\ UNCHANGED <<lock, cache, current, queue, acked, bounds, reader>>

\* The first bytes of the new line reach the file.  After a line that lost its
\* newline they continue that line, and the two objects together are no line.
WriteHalf(p) ==
    /\ pc[p] = "restored"
    /\ file' = IF tail = "bare" THEN [file EXCEPT ![Len(file)] = Garbage]
                                ELSE Append(file, Garbage)
    /\ glued' = (tail = "bare")
    /\ tail' = "half"
    /\ pc' = [pc EXCEPT ![p] = "half"]
    /\ UNCHANGED <<lock, cache, current, queue, acked, bounds, reader>>

NewLine(p) == SignedEvent(cache[p].seq, current[p], cache[p].prev)

\* The rest of the object.
WriteRest(p) ==
    /\ pc[p] = "half"
    /\ file' = IF glued THEN file ELSE [file EXCEPT ![Len(file)] = NewLine(p)]
    /\ tail' = "bare"
    /\ pc' = [pc EXCEPT ![p] = "bare"]
    /\ UNCHANGED <<glued, lock, cache, current, queue, acked, bounds, reader>>

\* The newline; then the cache advances.
WriteNewline(p) ==
    /\ pc[p] = "bare"
    /\ tail' = "clean"
    /\ cache' = [cache EXCEPT ![p] = [seq |-> cache[p].seq + 1, prev |-> NewLine(p).hash]]
    /\ pc' = [pc EXCEPT ![p] = "written"]
    /\ UNCHANGED <<file, glued, lock, current, queue, acked, bounds, reader>>

\* Both locks are released and the signed event is returned.
Return(p) ==
    /\ pc[p] = "written"
    /\ acked' = acked \cup {current[p]}
    /\ Release(p)
    /\ UNCHANGED <<diskVars, cache, queue, bounds, reader>>

\* A write fails part of the way: the exception leaves emit() with what was
\* written still in the file and the cache not advanced.
WriteFails(p) ==
    /\ pc[p] \in TearPoints
    /\ tears < MaxTears
    /\ tears' = tears + 1
    /\ Release(p)
    /\ UNCHANGED <<diskVars, cache, queue, acked, deaths, refusals, reader>>

-----------------------------------------------------------------------------
(* Deaths and restarts.                                                    *)

\* The operating system releases the file lock of a dead process.
Die(p) ==
    /\ pc[p] # "down"
    /\ deaths < MaxDeaths
    /\ pc[p] \in {"half", "bare"} => pc[p] \in TearPoints /\ tears < MaxTears
    /\ tears' = IF pc[p] \in {"half", "bare"} THEN tears + 1 ELSE tears
    /\ deaths' = deaths + 1
    /\ lock' = IF lock = p THEN Nobody ELSE lock
    /\ current' = [current EXCEPT ![p] = Nobody]
    /\ pc' = [pc EXCEPT ![p] = "down"]
    /\ UNCHANGED <<diskVars, cache, queue, acked, refusals, reader>>

\* A new process constructs its EventLog, restoring the cache under the file
\* lock.  On an unreadable file the constructor raises and there is none.
Start(p) ==
    /\ pc[p] = "down"
    /\ lock = Nobody
    /\ Readable
    /\ cache' = [cache EXCEPT ![p] = Restored]
    /\ pc' = [pc EXCEPT ![p] = "idle"]
    /\ UNCHANGED <<diskVars, lock, current, queue, acked, bounds, reader>>

-----------------------------------------------------------------------------
(* verify_chain(), over the lock-free iter_events().                       *)

VerifyStart ==
    /\ reader.at = "idle"
    /\ reader' = [reader EXCEPT !.at = "reading"]
    /\ UNCHANGED <<diskVars, lock, cache, pc, current, queue, acked, bounds>>

\* The verdict on the line at pos, against the hash of the one before it.
Chained(line, pos, prev) ==
    /\ line.seq = pos
    /\ line.prev = prev
    /\ line.hash = ComputeHash(line.seq, line.event, line.prev)

VerifyLine ==
    /\ reader.at = "reading"
    /\ reader.pos < Len(file)
    /\ LET line == file[reader.pos + 1]
       IN reader' = IF ~IsLine(line) THEN [reader EXCEPT !.at = "raised"]
                    ELSE IF ~Chained(line, reader.pos, reader.prev)
                    THEN [reader EXCEPT !.at = "broken"]
                    ELSE [at |-> "reading", pos |-> reader.pos + 1, prev |-> line.hash]
    /\ UNCHANGED <<diskVars, lock, cache, pc, current, queue, acked, bounds>>

VerifyEnd ==
    /\ reader.at = "reading"
    /\ reader.pos >= Len(file)
    /\ reader' = [reader EXCEPT !.at = "intact"]
    /\ UNCHANGED <<diskVars, lock, cache, pc, current, queue, acked, bounds>>

Emit(p) ==
    \/ \E e \in queue : Acquire(p, e)
    \/ \E e \in queue : Refused(p, e)
    \/ Restore(p)
    \/ RestoreRaises(p)
    \/ WriteHalf(p)
    \/ WriteRest(p)
    \/ WriteNewline(p)
    \/ Return(p)

Faults(p) == WriteFails(p) \/ Die(p) \/ Start(p)

Verify == VerifyStart \/ VerifyLine \/ VerifyEnd

Next == (\E p \in Processes : Emit(p) \/ Faults(p)) \/ Verify

Spec == Init /\ [][Next]_vars

\* A process inside emit() keeps running (or dies): no step of the critical
\* section waits for anything.
InEmit(p) ==
    Restore(p) \/ RestoreRaises(p) \/ WriteHalf(p) \/ WriteRest(p) \/ WriteNewline(p) \/ Return(p)

FairSpec == Spec /\ \A p \in Processes : WF_vars(InEmit(p))

-----------------------------------------------------------------------------
(* Properties.                                                             *)

\* The lines that can be read form one hash chain from genesis with seq numbers
\* 0, 1, 2, ...: no fork and no gap whatever processes wrote them, died or
\* failed in the middle, and only the last line can be unreadable; nor does a
\* verify_chain() that reads while others append report a break in it.
ReadableChain ==
    /\ \A i \in DOMAIN file :
          IF IsLine(file[i])
          THEN Chained(file[i], i - 1, IF i = 1 THEN Genesis ELSE file[i - 1].hash)
          ELSE i = Len(file)
    /\ reader.at # "broken"

\* A line that was completed by its newline is never changed again.
Complete == IF tail = "clean" THEN Len(file) ELSE Len(file) - 1

AppendOnly ==
    [][/\ Complete' >= Complete
       /\ \A i \in 1 .. Complete : file'[i] = file[i]]_vars

\* The file lock is always given back, so no emitter waits for ever behind one
\* that stopped half way.
LockReleased == \A p \in Processes : lock = p ~> lock # p

-----------------------------------------------------------------------------
(* EventLog implements LinearLog, in which events enter one by one and stay: *)
(* an event enters the log when the last byte of its line is in the file.    *)
(* This ends when a line is continued that had lost only its newline: that   *)
(* destroys the acknowledged event of the new line.                          *)

Linear == INSTANCE LinearLog WITH
    log <- [i \in 1 .. Complete |-> IF IsLine(file[i]) THEN file[i].event ELSE Garbage],
    acked <- acked

LinearSpec ==
    /\ Linear!Init
    /\ [][~glued' => [Linear!Next]_(Linear!vars)]_vars

=============================================================================
