----------------------- MODULE StorePersistenceProofs -----------------------
(***************************************************************************)
(* What the files of a memory tier keep, for every set of entries and any  *)
(* number of calls, failed writes, crashes and restarts.  The argument: an *)
(* entry is archived before any dictionary or file has it live             *)
(* (ArchivedFirst), the candidate file is written before the live file, so *)
(* that an entry moves between the files as it does between the            *)
(* dictionaries (Sides), and a file that is whole holds every entry that   *)
(* had reached it (LiveKept, AllKept).                                     *)
(***************************************************************************)
EXTENDS StorePersistence, TLAPS

Labels ==
    {"idle", "archiving", "moved", "candEmpty", "candTorn", "candWritten", "liveEmpty",
     "liveTorn", "down"}

Typed ==
    /\ cand \in Dicts /\ live \in Dicts
    /\ candFile \in Dicts \cup {Empty, Torn}
    /\ liveFile \in Dicts \cup {Empty, Torn}
    /\ archived \subseteq Ids
    /\ toArchive \subseteq Ids
    /\ then \in [cand : Dicts, live : Dicts]
    /\ pc \in Labels

\* The entries a file holds.
Held(file) == IF Whole(file) THEN Present(file) ELSE {}

Archiving == pc = "archiving"

\* Every id in use was written once.
Known ==
    /\ Present(cand) \cup Present(live) \cup Held(candFile) \cup Held(liveFile) \subseteq written
    /\ Archiving => Present(then.cand) \cup Present(then.live) \subseteq written

\* An entry is archived before it goes live anywhere.
ArchivedFirst ==
    /\ went \cup Present(live) \cup Held(liveFile) \subseteq archived
    /\ IF Archiving THEN Present(then.live) \subseteq archived \cup toArchive
                    ELSE toArchive = {}

\* An entry in the live file is on the candidate side of no dictionary, now or
\* after the call, and of no file.
Sides ==
    /\ Present(cand) \cap (Present(live) \cup Held(liveFile)) = {}
    /\ Held(candFile) \cap Held(liveFile) = {}
    /\ Archiving => Present(then.cand) \cap (Present(then.live) \cup Held(liveFile)) = {}
    /\ pc \in {"candWritten", "liveEmpty", "liveTorn"} => candFile = cand

\* An entry that reached the live file is live in memory, after the call, and in
\* the live file whenever that is whole.
LiveKept ==
    "live" \notin lost =>
        /\ keptLive \subseteq Present(live)
        /\ Whole(liveFile) => keptLive \subseteq Present(liveFile)
        /\ Archiving => keptLive \subseteq Present(then.live)
        /\ pc = "down" => Whole(liveFile)

\* An entry that reached a file is a candidate or archived.
AllKept ==
    lost = {} =>
        /\ pc # "down" => kept \subseteq Present(cand) \cup archived \cup toArchive
        /\ Whole(candFile) => kept \subseteq Present(candFile) \cup archived
        /\ Archiving => kept \subseteq Present(then.cand) \cup archived \cup toArchive
        /\ pc = "down" => Whole(candFile)

FilesInv == Typed /\ Known /\ ArchivedFirst /\ Sides /\ LiveKept /\ AllKept

\* The empty dictionary.
LEMMA NothingIsEmpty == Nothing \in Dicts /\ Present(Nothing) = {}
  BY DEF Nothing, Dicts, Present

\* A file that holds a dictionary is whole.
LEMMA DictIsWhole == \A dict \in Dicts : Whole(dict) /\ Held(dict) = Present(dict)
  BY FileStates DEF Whole, Held

\* An empty or a torn file is not.
LEMMA NotWhole == Held(Empty) = {} /\ Held(Torn) = {} /\ ~Whole(Empty) /\ ~Whole(Torn)
  BY DEF Whole, Held

\* The invariant holds at the start.
LEMMA FilesInit == Init => FilesInv
  <1> SUFFICES ASSUME Init PROVE FilesInv
    OBVIOUS
  <1>1. Typed
    BY NothingIsEmpty DEF Init, Typed, Both, Labels
  <1>2. Known /\ ArchivedFirst /\ Sides /\ LiveKept /\ AllKept
    BY NothingIsEmpty, DictIsWhole DEF Init, Known, ArchivedFirst, Sides, LiveKept, AllKept, Archiving
  <1>3. QED
    BY <1>1, <1>2 DEF FilesInv

\* A call that archives ids and then makes newCand and newLive of the
\* dictionaries; a discard has already popped its entry.
LEMMA CallKeeps ==
    ASSUME FilesInv, NEW ids \in SUBSET Ids, NEW newCand \in Dicts, NEW newLive \in Dicts,
           Call(ids, newCand, newLive), cand' \in Dicts, written \subseteq written',
           Present(cand) \subseteq Present(cand') \cup ids, Present(cand') \subseteq Present(cand),
           Present(newCand) \subseteq written',
           Present(cand) \subseteq Present(newCand) \cup ids,
           Present(newLive) \subseteq Present(live) \cup (ids \cap Present(cand)),
           Present(live) \subseteq Present(newLive),
           Present(newCand) \cap (Present(newLive) \cup Held(liveFile)) = {}
    PROVE  FilesInv'
  <1>1. /\ pc = "idle" /\ pc' = "archiving" /\ toArchive' = ids
        /\ then' = [cand |-> newCand, live |-> newLive]
        /\ UNCHANGED <<live, candFile, liveFile, archived, went, kept, keptLive, lost>>
    BY DEF Call, files
  <1>2. Typed'
    BY <1>1 DEF FilesInv, Typed, Labels
  <1>3. then'.cand = newCand /\ then'.live = newLive
    BY <1>1
  <1>4. Known'
    BY <1>1, <1>3 DEF FilesInv, Known, Archiving, Held, Whole
  <1>5. ArchivedFirst'
    BY <1>1, <1>3 DEF FilesInv, ArchivedFirst, Archiving, Held, Whole
  <1>6. Sides'
    BY <1>1, <1>3 DEF FilesInv, Sides, Archiving, Held, Whole
  <1>7. LiveKept' /\ AllKept'
    BY <1>1, <1>3 DEF FilesInv, LiveKept, AllKept, ArchivedFirst, Archiving, Held, Whole
  <1>8. QED
    BY <1>2, <1>4, <1>5, <1>6, <1>7 DEF FilesInv

\* An entry with a trust level is present.
LEMMA LevelsArePresent ==
    \A l \in {CANDIDATE, VERIFIED, PROMOTED, DEPRECATED} : l \in TrustLevels /\ l # Absent
  BY PersistenceParameters DEF TrustLevels, CANDIDATE, VERIFIED, PROMOTED, DEPRECATED

\* The five mutations keep the invariant.
LEMMA CallsKeep == FilesInv /\ Calls => FilesInv'
  <1> SUFFICES ASSUME FilesInv, Calls PROVE FilesInv'
    OBVIOUS
  <1> USE LevelsArePresent
  <1>1. ASSUME NEW id \in Ids, WriteCandidate(id)
        PROVE  FilesInv'
    <2> DEFINE newCand == [cand EXCEPT ![id] = CANDIDATE]
    <2>1. /\ id \notin written /\ written' = written \cup {id}
          /\ Call({}, newCand, live) /\ cand' = cand
      BY <1>1 DEF WriteCandidate
    <2>2. newCand \in Dicts /\ Present(newCand) = Present(cand) \cup {id}
      BY DEF FilesInv, Typed, Dicts, Present
    <2>3. Present(newCand) \cap (Present(live) \cup Held(liveFile)) = {} /\ Present(newCand) \subseteq written'
      BY <2>1, <2>2 DEF FilesInv, Known, Sides
    <2> HIDE DEF newCand
    <2>4. QED
      BY <2>1, <2>2, <2>3, CallKeeps DEF FilesInv, Typed
  <1>2. ASSUME NEW id \in Ids, MarkVerified(id)
        PROVE  FilesInv'
    <2> DEFINE newCand == [cand EXCEPT ![id] = VERIFIED]
    <2>1. /\ cand[id] # Absent /\ written' = written
          /\ Call({}, newCand, live) /\ cand' = cand
      BY <1>2 DEF MarkVerified
    <2>2. newCand \in Dicts /\ Present(newCand) = Present(cand)
      BY <2>1 DEF FilesInv, Typed, Dicts, Present
    <2>3. Present(newCand) \cap (Present(live) \cup Held(liveFile)) = {} /\ Present(newCand) \subseteq written'
      BY <2>1, <2>2 DEF FilesInv, Known, Sides
    <2> HIDE DEF newCand
    <2>4. QED
      BY <2>1, <2>2, <2>3, CallKeeps DEF FilesInv, Typed
  <1>3. ASSUME NEW id \in Ids, DiscardCandidate(id)
        PROVE  FilesInv'
    <2>1. /\ cand' = [cand EXCEPT ![id] = Absent] /\ written' = written
          /\ Call({id}, cand', live)
      BY <1>3 DEF DiscardCandidate
    <2>2. cand' \in Dicts /\ Present(cand') = Present(cand) \ {id}
      BY <2>1 DEF FilesInv, Typed, Dicts, Present
    <2>3. Present(cand') \cap (Present(live) \cup Held(liveFile)) = {} /\ Present(cand') \subseteq written'
      BY <2>1, <2>2 DEF FilesInv, Known, Sides
    <2>4. QED
      BY <2>1, <2>2, <2>3, CallKeeps DEF FilesInv, Typed
  <1>4. ASSUME NEW id \in Ids, DeprecateLive(id)
        PROVE  FilesInv'
    <2> DEFINE newLive == [live EXCEPT ![id] = DEPRECATED]
    <2>1. /\ live[id] # Absent /\ written' = written
          /\ Call({}, cand, newLive) /\ cand' = cand
      BY <1>4 DEF DeprecateLive
    <2>2. newLive \in Dicts /\ Present(newLive) = Present(live)
      BY <2>1 DEF FilesInv, Typed, Dicts, Present
    <2>3. Present(cand) \cap (Present(newLive) \cup Held(liveFile)) = {} /\ Present(cand) \subseteq written'
      BY <2>1, <2>2 DEF FilesInv, Known, Sides
    <2> HIDE DEF newLive
    <2>4. QED
      BY <2>1, <2>2, <2>3, CallKeeps DEF FilesInv, Typed
  <1>5. ASSUME NEW ids \in SUBSET Ids, Promote(ids)
        PROVE  FilesInv'
    <2> DEFINE newCand == [id \in Ids |-> IF id \in ids THEN Absent ELSE cand[id]]
               newLive == WithLive(ids)
    <2>1. /\ \A id \in ids : cand[id] # Absent
          /\ written' = written
          /\ Call(ids, newCand, newLive) /\ cand' = cand
      BY <1>5 DEF Promote
    <2>2. /\ newCand \in Dicts /\ Present(newCand) = Present(cand) \ ids
          /\ newLive \in Dicts /\ Present(newLive) = Present(live) \cup ids
      BY DEF FilesInv, Typed, Dicts, Present, WithLive
    <2>3. ids \subseteq Present(cand)
      BY <2>1 DEF Present
    <2>4. Present(newCand) \cap (Present(newLive) \cup Held(liveFile)) = {} /\ Present(newCand) \subseteq written'
      BY <2>1, <2>2 DEF FilesInv, Known, Sides
    <2> HIDE DEF newCand, newLive
    <2>5. QED
      BY <2>1, <2>2, <2>3, <2>4, CallKeeps DEF FilesInv, Typed
  <1>6. QED
    BY <1>1, <1>2, <1>3, <1>4, <1>5 DEF Calls

\* Writing an archive file keeps the invariant.
LEMMA ArchiveKeeps ==
    ASSUME FilesInv, NEW id \in Ids, ArchiveCandidate(id)
    PROVE  FilesInv'
  <1>1. /\ pc = "archiving" /\ archived' = archived \cup {id} /\ toArchive' = toArchive \ {id}
        /\ UNCHANGED <<cand, live, candFile, liveFile, then, pc, written, went, kept, keptLive, lost>>
    BY DEF ArchiveCandidate, files, history
  <1>2. Typed'
    BY <1>1 DEF FilesInv, Typed
  <1>3. Known' /\ Sides' /\ LiveKept'
    BY <1>1 DEF FilesInv, Known, Sides, LiveKept, Archiving
  <1>4. ArchivedFirst' /\ AllKept'
    BY <1>1 DEF FilesInv, ArchivedFirst, AllKept, Archiving
  <1>5. QED
    BY <1>2, <1>3, <1>4 DEF FilesInv

\* Changing the dictionaries, after the archive is complete, keeps it.
LEMMA MoveKeeps ==
    ASSUME FilesInv, Move
    PROVE  FilesInv'
  <1>1. /\ pc = "archiving" /\ toArchive = {} /\ pc' = "moved"
        /\ cand' = then.cand /\ live' = then.live /\ went' = went \cup Present(then.live)
        /\ UNCHANGED <<candFile, liveFile, archived, toArchive, then, written, kept, keptLive, lost>>
    BY DEF Move, files
  <1>2. Typed'
    BY <1>1 DEF FilesInv, Typed, Labels
  <1>3. Known' /\ Sides' /\ LiveKept'
    BY <1>1 DEF FilesInv, Known, Sides, LiveKept, Archiving
  <1>4. ArchivedFirst' /\ AllKept'
    BY <1>1 DEF FilesInv, ArchivedFirst, AllKept, Archiving
  <1>5. QED
    BY <1>2, <1>3, <1>4 DEF FilesInv

\* The steps of _flush keep it.
LEMMA FlushKeeps ==
    ASSUME FilesInv, FlushCandidates \/ FlushLive \/ FlushEnd
    PROVE  FilesInv'
  <1>1. UNCHANGED <<cand, live, archived, toArchive, then, written, went, lost>>
    BY DEF FlushCandidates, FlushLive, FlushEnd, history
  <1>2. /\ candFile' \in {candFile, Empty, Torn, cand} /\ liveFile' \in {liveFile, Empty, Torn, live}
        /\ pc \notin {"archiving", "down"} /\ pc' \notin {"archiving", "down"} /\ pc' \in Labels
    BY DEF FlushCandidates, FlushLive, FlushEnd, Labels
  <1>3. Typed'
    BY <1>1, <1>2 DEF FilesInv, Typed
  <1>4. toArchive = {} /\ Held(candFile') \subseteq Held(candFile) \cup Present(cand)
        /\ Held(liveFile') \subseteq Held(liveFile) \cup Present(live)
    BY <1>2, NotWhole, DictIsWhole DEF FilesInv, Typed, ArchivedFirst, Archiving
  <1>5. Known' /\ ArchivedFirst'
    BY <1>1, <1>2, <1>4 DEF FilesInv, Known, ArchivedFirst, Archiving
  <1>6. CASE FlushCandidates
    <2>1. /\ candFile' \in {Empty, Torn, cand} /\ UNCHANGED <<liveFile, kept, keptLive>>
          /\ pc' \in {"candWritten", "liveEmpty", "liveTorn"} => candFile' = cand
      BY <1>6 DEF FlushCandidates, history
    <2>2. Sides'
      BY <1>1, <1>2, <1>4, <2>1, NotWhole, DictIsWhole DEF FilesInv, Typed, Sides, Archiving
    <2>3. LiveKept' /\ AllKept'
      BY <1>1, <1>2, <1>4, <2>1, NotWhole, DictIsWhole DEF FilesInv, Typed, LiveKept, AllKept, Archiving
    <2>4. QED
      BY <1>3, <1>5, <2>2, <2>3 DEF FilesInv
  <1>7. CASE FlushLive
    <2>1. /\ liveFile' \in {Empty, Torn} /\ UNCHANGED <<candFile, kept, keptLive>>
          /\ pc \in {"candWritten", "liveEmpty"}
      BY <1>7 DEF FlushLive, history
    <2>2. Sides'
      BY <1>1, <1>2, <2>1, NotWhole DEF FilesInv, Sides, Archiving
    <2>3. LiveKept' /\ AllKept'
      BY <1>1, <1>2, <2>1, NotWhole DEF FilesInv, LiveKept, AllKept, Archiving
    <2>4. QED
      BY <1>3, <1>5, <2>2, <2>3 DEF FilesInv
  <1>8. CASE FlushEnd
    <2>1. /\ liveFile' = live /\ UNCHANGED candFile
          /\ pc = "liveTorn" /\ pc' = "idle"
          /\ kept' = kept \cup Present(cand) \cup Present(live)
          /\ keptLive' = keptLive \cup Present(live)
      BY <1>8 DEF FlushEnd
    <2>2. candFile = cand /\ Held(candFile) = Present(cand) /\ Held(liveFile') = Present(live)
      BY <2>1, DictIsWhole DEF FilesInv, Typed, Sides
    <2>3. Sides'
      BY <1>1, <1>2, <2>1, <2>2 DEF FilesInv, Sides, Archiving
    <2>4. LiveKept' /\ AllKept'
      BY <1>1, <1>4, <2>1, <2>2 DEF FilesInv, ArchivedFirst, LiveKept, AllKept, Archiving
    <2>5. QED
      BY <1>3, <1>5, <2>3, <2>4 DEF FilesInv
  <1>9. QED
    BY <1>6, <1>7, <1>8

\* A write that fails and raises keeps it.
LEMMA WriteFailsKeeps ==
    ASSUME FilesInv, WriteFails
    PROVE  FilesInv'
  <1>1. /\ pc \notin {"idle", "down"} /\ pc' = "idle" /\ toArchive' = {}
        /\ UNCHANGED <<cand, live, candFile, liveFile, archived, then, written, went, kept, keptLive>>
        /\ lost \subseteq lost' /\ lost' \subseteq lost \cup {"cand"}
        /\ pc = "archiving" /\ lost' = {} => \A id \in toArchive : cand[id] # Absent
    BY DEF WriteFails, files
  <1>2. Typed'
    BY <1>1 DEF FilesInv, Typed, Labels
  <1>3. Known' /\ ArchivedFirst' /\ Sides' /\ LiveKept'
    BY <1>1 DEF FilesInv, Known, ArchivedFirst, Sides, LiveKept, Archiving
  <1>4. AllKept'
    <2> SUFFICES ASSUME lost' = {} PROVE AllKept'
      BY DEF AllKept
    <2>1. lost = {} /\ toArchive \subseteq Present(cand)
      BY <1>1 DEF FilesInv, Typed, ArchivedFirst, Archiving, Present
    <2>2. QED
      BY <1>1, <2>1 DEF FilesInv, AllKept, Archiving
  <1>5. QED
    BY <1>2, <1>3, <1>4 DEF FilesInv

\* A crash keeps it.
LEMMA CrashKeeps ==
    ASSUME FilesInv, Crash
    PROVE  FilesInv'
  <1>1. /\ pc' = "down" /\ toArchive' = {}
        /\ UNCHANGED <<cand, live, candFile, liveFile, archived, then, written, went, kept, keptLive>>
        /\ lost \subseteq lost'
        /\ ~Whole(candFile) => "cand" \in lost'
        /\ ~Whole(liveFile) => "live" \in lost'
    BY DEF Crash, files
  <1>2. Typed'
    BY <1>1 DEF FilesInv, Typed, Labels
  <1>3. Known' /\ ArchivedFirst' /\ Sides' /\ LiveKept' /\ AllKept'
    BY <1>1 DEF FilesInv, Known, ArchivedFirst, Sides, LiveKept, AllKept, Archiving
  <1>4. QED
    BY <1>2, <1>3 DEF FilesInv

\* A new process that loads the files keeps it.
LEMMA RestartKeeps ==
    ASSUME FilesInv, Restart
    PROVE  FilesInv'
  <1>1. /\ pc = "down" /\ pc' = "idle" /\ candFile # Torn /\ liveFile # Torn
        /\ cand' = Loaded(candFile) /\ live' = Loaded(liveFile) /\ went' = went \cup Present(live')
        /\ UNCHANGED <<candFile, liveFile, archived, toArchive, then, written, kept, keptLive, lost>>
    BY DEF Restart, files
  <1>2. /\ cand' \in Dicts /\ Present(cand') = Held(candFile)
        /\ live' \in Dicts /\ Present(live') = Held(liveFile)
    BY <1>1, NothingIsEmpty, NotWhole, DictIsWhole DEF FilesInv, Typed, Loaded
  <1>3. Typed'
    BY <1>1, <1>2 DEF FilesInv, Typed, Labels
  <1>4. Known' /\ ArchivedFirst' /\ Sides'
    BY <1>1, <1>2 DEF FilesInv, Known, ArchivedFirst, Sides, Archiving
  <1>5. LiveKept' /\ AllKept'
    BY <1>1, <1>2 DEF FilesInv, LiveKept, AllKept, Archiving, Held
  <1>6. QED
    BY <1>3, <1>4, <1>5 DEF FilesInv

\* Every step keeps the invariant.
LEMMA FilesStep == FilesInv /\ [Next]_vars => FilesInv'
  <1>1. FilesInv /\ UNCHANGED vars => FilesInv'
    BY DEF vars, files, history, FilesInv, Typed, Known, ArchivedFirst, Sides, LiveKept, AllKept,
           Archiving, Held, Whole
  <1>2. QED
    BY <1>1, CallsKeep, ArchiveKeeps, MoveKeeps, FlushKeeps, WriteFailsKeeps, CrashKeeps, RestartKeeps
       DEF Next

\* The invariant holds in every reachable state.
THEOREM FilesInvariant == Spec => []FilesInv
  BY FilesInit, FilesStep, PTL DEF Spec

\* Every entry that ever went live has an archive file, across crashes: the
\* archive is written before the entry moves.
THEOREM WentLiveIsArchived == Spec => []WentIsArchived
  <1>1. FilesInv => WentIsArchived
    BY DEF FilesInv, ArchivedFirst, WentIsArchived
  <1>2. QED
    BY <1>1, FilesInvariant, PTL

\* No entry is both a candidate and live, in memory or after any restart: the
\* candidate file is written first.
THEOREM EntryOnOneSide == Spec => []OneSide
  <1>1. FilesInv => OneSide
    BY DEF FilesInv, Sides, OneSide
  <1>2. QED
    BY <1>1, FilesInvariant, PTL

\* An entry that was flushed live stays live through later calls, failed writes and
\* restarts, unless a crash found the live file half written.
THEOREM LiveEntrySurvives == Spec => []LiveSurvives
  <1>1. FilesInv => LiveSurvives
    BY DEF FilesInv, LiveKept, LiveSurvives
  <1>2. QED
    BY <1>1, FilesInvariant, PTL

\* An entry that was flushed is a candidate, live or archived ever after, unless a
\* crash found a file half written or a discard failed after it popped the entry.
THEOREM EntryNeverVanishes == Spec => []NothingVanishes
  <1>1. FilesInv => NothingVanishes
    BY DEF FilesInv, AllKept, NothingVanishes
  <1>2. QED
    BY <1>1, FilesInvariant, PTL
=============================================================================
