----------------------------- MODULE MemoryStore -----------------------------
(***************************************************************************)
(* One tier of csis.memory.store.MemoryStore, called by several clients    *)
(* (iterations of the Coordinator, the daemon's skill path, tests).  A     *)
(* client that wants to promote first takes a snapshot of the live store   *)
(* (live_snapshot), signs it into a why-doc, and later calls promote with  *)
(* that snapshot's hash as precondition; any number of calls of the other  *)
(* clients fall between the two.                                           *)
(*                                                                         *)
(* Every store method holds the RLock throughout, so it is one action.     *)
(* Files are the subject of StorePersistence.tla; the archive is kept here *)
(* because it is what explains a live entry afterwards.                    *)
(***************************************************************************)
EXTENDS StoreOps

CONSTANTS
    Clients,       \* concurrent callers of the store
    Tier,          \* the tier's name
    ProducerRoles, \* values of producer_role, None among them
    WrittenTrust,  \* trust levels at which callers write candidates
    Batches        \* lists of ids passed to mark_verified and promote

ASSUME StoreParameters ==
    /\ Tier \in TierNames
    /\ ProducerRoles \subseteq Roles \cup {None}
    /\ WrittenTrust \subseteq TrustLevels
    /\ Batches \subseteq Seq(EntryIds)

VARIABLES
    candidate,  \* _candidate
    live,       \* _live
    archive,    \* the archived candidates: [id, content] records
    why,        \* client -> the live snapshot its why-doc is signed against
    promotions  \* history: the successful non-empty promotions, in order

vars == <<candidate, live, archive, why, promotions>>

NoWhy == None

\* A promotion: the snapshot it was fenced by and the ids it made live.
Promotion == [pre : Dict, ids : SUBSET EntryIds]

TypeOK ==
    /\ candidate \in Dict
    /\ live \in Dict
    /\ archive \subseteq [id : EntryIds, content : Contents]
    /\ why \in [Clients -> Dict \cup {NoWhy}]
    /\ promotions \in Seq(Promotion)

Init ==
    /\ candidate = EmptyDict
    /\ live = EmptyDict
    /\ archive = {}
    /\ why = [c \in Clients |-> NoWhy]
    /\ promotions = <<>>

\* Seeded fault: the archiving call slips out of the loop over the batch.
ArchiveOfLast(ids) ==
    IF ids = {} THEN {}
    ELSE LET last == CHOOSE id \in ids : TRUE
         IN {[id |-> last, content |-> candidate[last].content]}

ArchiveOf(ids) == {[id |-> id, content |-> candidate[id].content] : id \in ids}

-----------------------------------------------------------------------------
(* The calls.                                                              *)

\* write_candidate and write_candidates.  No restriction: an id already on the
\* candidate side, or already live, is accepted.
WriteCandidates(new) ==
    /\ candidate' = Overwrite(candidate, new)
    /\ UNCHANGED <<live, archive, why, promotions>>

NewEntries(ids) ==
    [ids -> [content : Contents, trust : WrittenTrust,
             writer : Writers \cup {None}, reason : {None}]]

\* live_snapshot: hash and contents in one critical section.
Sign(c) ==
    /\ why' = [why EXCEPT ![c] = live]
    /\ UNCHANGED <<candidate, live, archive, promotions>>

MarkVerified(batch) ==
    /\ VerifyAccepts(candidate, batch)
    /\ candidate' = MarkedVerified(candidate, batch)
    /\ UNCHANGED <<live, archive, why, promotions>>

\* promote, accepted.  Archiving, the move to the live side and the removal of
\* the candidates are one critical section.  The caller keeps its why-doc and
\* may present it again.
Promote(c, batch, role) ==
    /\ why[c] # NoWhy
    /\ PromoteAccepts(candidate, live, batch, why[c], role, Tier)
    /\ archive' = archive \cup ArchiveOf(Named(batch))
    /\ live' = Promoted(candidate, live, batch)
    /\ candidate' = Remove(candidate, Named(batch))
    /\ promotions' = IF batch = <<>> THEN promotions
                     ELSE Append(promotions, [pre |-> why[c], ids |-> Named(batch)])
    /\ UNCHANGED why

\* promote, rejected by any of its checks: the exception leaves the store
\* untouched and the caller rolls its iteration back, dropping the why-doc.
PromoteRejected(c, batch, role) ==
    /\ why[c] # NoWhy
    /\ ~PromoteAccepts(candidate, live, batch, why[c], role, Tier)
    /\ why' = [why EXCEPT ![c] = NoWhy]
    /\ UNCHANGED <<candidate, live, archive, promotions>>

DiscardCandidate(id) ==
    /\ candidate[id] # Absent
    /\ archive' = archive \cup ArchiveOf({id})
    /\ candidate' = Remove(candidate, {id})
    /\ UNCHANGED <<live, why, promotions>>

DeprecateLive(id, reason) ==
    /\ live[id] # Absent
    /\ live' = Deprecated(live, id, reason)
    /\ UNCHANGED <<candidate, archive, why, promotions>>

Next ==
    \/ \E ids \in SUBSET EntryIds : \E new \in NewEntries(ids) : WriteCandidates(new)
    \/ \E batch \in Batches : MarkVerified(batch)
    \/ \E c \in Clients : Sign(c)
    \/ \E c \in Clients, batch \in Batches, role \in ProducerRoles :
          \/ Promote(c, batch, role)
          \/ PromoteRejected(c, batch, role)
    \/ \E id \in EntryIds : DiscardCandidate(id)
    \/ \E id \in EntryIds, reason \in Reasons : DeprecateLive(id, reason)

Spec == Init /\ [][Next]_vars

-----------------------------------------------------------------------------
(* What the store promises.                                                *)

\* A live entry is never removed, rewritten or brought back: what was promoted
\* keeps its content and its writer for good, and once deprecated it stays
\* deprecated, whatever is later written and promoted under the same id.
LiveIsFinal ==
    [][\A id \in EntryIds : live[id] # Absent =>
          /\ live'[id] # Absent
          /\ live'[id].content = live[id].content
          /\ live'[id].writer = live[id].writer
          /\ live[id].trust = DEPRECATED => live'[id].trust = DEPRECATED]_vars

\* Of all why-docs signed against one state of the live store at most one is
\* promoted, also when deprecations bring the store back to a state it was in
\* before: the hash precondition is a fence and not only a check of the moment.
OneWinnerPerPrecondition ==
    \A i, j \in DOMAIN promotions :
        promotions[i].pre = promotions[j].pre => i = j

\* Every live entry is explained by exactly one promotion, and every promotion
\* by entries that are still live: no entry reaches the live side otherwise,
\* and none is promoted twice.
LiveHasOneWhy ==
    \A id \in EntryIds :
        live[id] # Absent <=>
            \E i \in DOMAIN promotions :
                /\ id \in promotions[i].ids
                /\ \A j \in DOMAIN promotions : id \in promotions[j].ids => j = i

\* A signed delta of kind "mod" (the id was live when the why-doc was signed)
\* is never promoted: each promotion only adds to the state it was signed for.
PromotionsOnlyAdd ==
    \A i \in DOMAIN promotions : \A id \in promotions[i].ids :
        promotions[i].pre[id] = Absent

\* Each live entry has its candidate, with the content that went live, in the
\* archive.
LiveIsArchived ==
    \A id \in EntryIds :
        live[id] # Absent => [id |-> id, content |-> live[id].content] \in archive

=============================================================================
