--------------------------- MODULE StorePersistence ---------------------------
(***************************************************************************)
(* The files of one csis.memory.store.MemoryStore.  A call changes the     *)
(* dictionaries in memory and then flushes both files, the candidate file  *)
(* first; each is rewritten in place by write_text, which truncates the    *)
(* file before it writes.  Promotion and discarding first write an archive *)
(* file per entry.  The process may crash between any two of these writes  *)
(* or inside one, and a write may fail; a restart loads what it finds.     *)
(*                                                                         *)
(* A dictionary maps an entry id to its trust level or to Absent.  Entry   *)
(* ids are uuids: an id is written as a candidate once.                    *)
(***************************************************************************)
EXTENDS Trust, FiniteSets

CONSTANTS
    Ids,         \* entry ids
    Absent,      \* no entry under this id
    Empty,       \* a file that was truncated and not yet written
    Torn,        \* a file that holds the first part of its text
    MaxCrashes,  \* bound: crashes of the process
    MaxFailures  \* bound: writes that fail with an OSError

ASSUME PersistenceParameters ==
    /\ Absent \notin TrustLevels
    /\ MaxCrashes \in Nat
    /\ MaxFailures \in Nat

Dicts == [Ids -> TrustLevels \cup {Absent}]

ASSUME FileStates == Empty \notin Dicts /\ Torn \notin Dicts /\ Empty # Torn

Nothing == [id \in Ids |-> Absent]

VARIABLES
    cand, live,          \* _candidate and _live
    candFile, liveFile,  \* the two files: a dictionary, Empty or Torn
    archived,            \* ids with a complete archive file
    toArchive,           \* ids the running call still has to archive
    then,                \* what the running call makes of [cand, live]
    pc,                  \* where the running call is, "idle" or "down"
    written,             \* history: ids ever written as candidates
    went,                \* history: ids that were live in memory
    kept,                \* history: ids that a flush brought to a file
    keptLive,            \* history: those it brought to the live file
    lost,                \* history: which data a fault took (see below)
    crashes, failures

files == <<candFile, liveFile>>
history == <<written, went, kept, keptLive, lost>>
bounds == <<crashes, failures>>
vars == <<cand, live, files, archived, toArchive, then, pc, history, bounds>>

Both == [cand |-> cand, live |-> live]

Present(dict) == {id \in Ids : dict[id] # Absent}

Init ==
    /\ cand = Nothing /\ live = Nothing
    /\ candFile = Nothing /\ liveFile = Nothing
    /\ archived = {}
    /\ toArchive = {}
    /\ then = Both
    /\ pc = "idle"
    /\ written = {} /\ went = {} /\ kept = {} /\ keptLive = {}
    /\ lost = {}
    /\ crashes = 0 /\ failures = 0

-----------------------------------------------------------------------------
(* The calls.  Each archives some entries, then changes the dictionaries   *)
(* in memory, then flushes.                                                *)

Call(ids, newCand, newLive) ==
    /\ pc = "idle"
    /\ toArchive' = ids
    /\ then' = [cand |-> newCand, live |-> newLive]
    /\ pc' = "archiving"
    /\ UNCHANGED <<live, files, archived, went, kept, keptLive, lost, bounds>>

WriteCandidate(id) ==
    /\ id \notin written
    /\ written' = written \cup {id}
    /\ Call({}, [cand EXCEPT ![id] = CANDIDATE], live)
    /\ UNCHANGED cand

MarkVerified(id) ==
    /\ cand[id] # Absent
    /\ Call({}, [cand EXCEPT ![id] = VERIFIED], live)
    /\ UNCHANGED <<cand, written>>

WithLive(ids) == [id \in Ids |-> IF id \in ids THEN PROMOTED ELSE live[id]]

\* Seeded fault: the candidates stay where they are.
PromoteCopying(ids) ==
    /\ ids # {}
    /\ \A id \in ids : cand[id] # Absent
    /\ Call(ids, cand, WithLive(ids))
    /\ UNCHANGED <<cand, written>>

Promote(ids) ==
    /\ ids # {}
    /\ \A id \in ids : cand[id] # Absent
    /\ Call(ids, [id \in Ids |-> IF id \in ids THEN Absent ELSE cand[id]], WithLive(ids))
    /\ UNCHANGED <<cand, written>>

\* Seeded fault: the entry is dropped without an archive file.
DiscardUnarchived(id) ==
    /\ cand[id] # Absent
    /\ cand' = [cand EXCEPT ![id] = Absent]
    /\ Call({}, cand', live)
    /\ UNCHANGED written

\* The entry is popped before it is archived.
DiscardCandidate(id) ==
    /\ cand[id] # Absent
    /\ cand' = [cand EXCEPT ![id] = Absent]
    /\ Call({id}, cand', live)
    /\ UNCHANGED written

\* Seeded fault: deprecating deletes.
DeprecateByDeletion(id) ==
    /\ live[id] # Absent
    /\ Call({}, cand, [live EXCEPT ![id] = Absent])
    /\ UNCHANGED <<cand, written>>

DeprecateLive(id) ==
    /\ live[id] # Absent
    /\ Call({}, cand, [live EXCEPT ![id] = DEPRECATED])
    /\ UNCHANGED <<cand, written>>

\* One archive file, under a name of its own.
ArchiveCandidate(id) ==
    /\ pc = "archiving"
    /\ id \in toArchive
    /\ archived' = archived \cup {id}
    /\ toArchive' = toArchive \ {id}
    /\ UNCHANGED <<cand, live, files, then, pc, history, bounds>>

\* Seeded fault: the dictionaries change while archive files are outstanding.
MoveEarly ==
    /\ pc = "archiving"
    /\ cand' = then.cand /\ live' = then.live
    /\ went' = went \cup Present(then.live)
    /\ pc' = "moved"
    /\ UNCHANGED <<files, archived, toArchive, then, written, kept, keptLive, lost, bounds>>

Move ==
    /\ pc = "archiving"
    /\ toArchive = {}
    /\ cand' = then.cand /\ live' = then.live
    /\ went' = went \cup Present(then.live)
    /\ pc' = "moved"
    /\ UNCHANGED <<files, archived, toArchive, then, written, kept, keptLive, lost, bounds>>

-----------------------------------------------------------------------------
(* _flush                                                                  *)

\* write_text on the candidate file: it is truncated, then filled.
FlushCandidates ==
    /\ \/ pc = "moved"     /\ candFile' = Empty /\ pc' = "candEmpty"
       \/ pc = "candEmpty" /\ candFile' = Torn  /\ pc' = "candTorn"
       \/ pc = "candTorn"  /\ candFile' = cand  /\ pc' = "candWritten"
    /\ UNCHANGED <<cand, live, liveFile, archived, toArchive, then, history, bounds>>

\* The same on the live file.
FlushLive ==
    /\ \/ pc = "candWritten" /\ liveFile' = Empty /\ pc' = "liveEmpty"
       \/ pc = "liveEmpty"   /\ liveFile' = Torn  /\ pc' = "liveTorn"
    /\ UNCHANGED <<cand, live, candFile, archived, toArchive, then, history, bounds>>

\* Its last byte; the call returns.
FlushEnd ==
    /\ pc = "liveTorn"
    /\ liveFile' = live
    /\ kept' = kept \cup Present(cand) \cup Present(live)
    /\ keptLive' = keptLive \cup Present(live)
    /\ pc' = "idle"
    /\ UNCHANGED <<cand, live, candFile, archived, toArchive, then, written, went, lost, bounds>>

-----------------------------------------------------------------------------
(* Faults.                                                                 *)

Whole(file) == file \notin {Empty, Torn}

\* A write raises: the exception leaves the call, the files stay as they are.
\* A candidate that was popped and not archived is gone.
WriteFails ==
    /\ pc \notin {"idle", "down"}
    /\ pc = "archiving" => toArchive # {}
    /\ failures < MaxFailures
    /\ failures' = failures + 1
    /\ lost' = IF pc = "archiving" /\ \E id \in toArchive : cand[id] = Absent
               THEN lost \cup {"cand"} ELSE lost
    /\ toArchive' = {}
    /\ pc' = "idle"
    /\ UNCHANGED <<cand, live, files, archived, then, written, went, kept, keptLive, crashes>>

\* The process crashes.  What a file held is lost when it is not whole.
Crash ==
    /\ pc # "down"
    /\ crashes < MaxCrashes
    /\ crashes' = crashes + 1
    /\ lost' = lost \cup {f \in {"cand", "live"} :
                            ~Whole(IF f = "cand" THEN candFile ELSE liveFile)}
    /\ pc' = "down"
    /\ toArchive' = {}
    /\ UNCHANGED <<cand, live, files, archived, then, written, went, kept, keptLive, failures>>

\* _load: an empty file counts as an empty dictionary; a torn one raises, and
\* there is no store any more.
Loaded(file) == IF file = Empty THEN Nothing ELSE file

Restart ==
    /\ pc = "down"
    /\ candFile # Torn /\ liveFile # Torn
    /\ cand' = Loaded(candFile)
    /\ live' = Loaded(liveFile)
    /\ went' = went \cup Present(live')
    /\ pc' = "idle"
    /\ UNCHANGED <<files, archived, toArchive, then, written, kept, keptLive, lost, bounds>>

Calls ==
    \/ \E id \in Ids :
          WriteCandidate(id) \/ MarkVerified(id) \/ DiscardCandidate(id) \/ DeprecateLive(id)
    \/ \E ids \in SUBSET Ids : Promote(ids)

Next ==
    \/ Calls
    \/ \E id \in Ids : ArchiveCandidate(id)
    \/ Move \/ FlushCandidates \/ FlushLive \/ FlushEnd
    \/ WriteFails \/ Crash \/ Restart

Spec == Init /\ [][Next]_vars

-----------------------------------------------------------------------------
(* Properties.                                                             *)

\* Whatever was live at any time, in memory or after a restart, has a complete
\* archive file, whichever write fails and wherever the process crashes.
WentIsArchived == went \subseteq archived

\* No restart finds an entry on both sides: with the candidate file written
\* first, a crash half way through a promotion does not bring the candidate
\* back beside its live copy.
OneSide == pc # "down" => Present(cand) \cap Present(live) = {}

\* An entry that a flush brought to the live file stays live through every
\* later call, failed write and restart, unless a crash finds the live file
\* half written.
LiveSurvives ==
    "live" \notin lost /\ pc # "down" => keptLive \subseteq Present(live)

\* An entry that a flush brought to either file is found afterwards as a
\* candidate, live or in the archive, unless a crash finds a file half written
\* or a discard fails after it popped the entry.
NothingVanishes ==
    lost = {} /\ pc # "down" =>
        kept \subseteq Present(cand) \cup Present(live) \cup archived \cup toArchive

=============================================================================
