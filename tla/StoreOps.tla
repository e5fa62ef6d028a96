------------------------------ MODULE StoreOps ------------------------------
(***************************************************************************)
(* What one call of csis.memory.store.MemoryStore does to the two          *)
(* dictionaries of a tier.  A store method runs under the store's RLock    *)
(* from its first line to its last, so a call is a function of the         *)
(* dictionaries; MemoryStore.tla and Coordinator.tla turn these functions  *)
(* into actions.                                                           *)
(*                                                                         *)
(* A dictionary is a function on EntryIds whose value is Absent where the  *)
(* dictionary has no key.  The canonical hash of the live dictionary is    *)
(* taken to be injective, so the live dictionary stands for its own hash.  *)
(***************************************************************************)
EXTENDS Trust, Sequences

CONSTANTS
    EntryIds,  \* entry_id values
    Contents,  \* what an entry says
    Writers,   \* iteration ids, as stamped in writer_iteration_id
    Reasons,   \* values of deprecated_reason
    Absent,    \* "no entry under this id"
    None       \* Python's None, for an unset stamp or reason

ASSUME ConstantsDisjoint ==
    /\ None \notin Writers
    /\ None \notin Reasons
    /\ None \notin Roles

\* MemoryEntry, restricted to the fields the store's guards read or change.
Entry == [content : Contents,
          trust   : TrustLevels,
          writer  : Writers \cup {None},
          reason  : Reasons \cup {None}]

ASSUME AbsentIsNoEntry == Absent \notin Entry

Dict == [EntryIds -> Entry \cup {Absent}]

ASSUME NoneIsNoDict == None \notin Dict

EmptyDict == [id \in EntryIds |-> Absent]

Keys(dict) == {id \in EntryIds : dict[id] # Absent}

\* The ids a batch (a list of ids) names.
Named(batch) == {batch[i] : i \in DOMAIN batch}

\* write_candidates: the new entries replace whatever the ids held before.
Overwrite(dict, new) ==
    [id \in EntryIds |-> IF id \in DOMAIN new THEN new[id] ELSE dict[id]]

Remove(dict, ids) ==
    [id \in EntryIds |-> IF id \in ids THEN Absent ELSE dict[id]]

\* mark_verified is all or nothing: one missing or deprecated entry rejects
\* the batch before any entry is upgraded.
VerifyAccepts(cand, batch) ==
    \A id \in Named(batch) :
        /\ cand[id] # Absent
        /\ \/ cand[id].trust >= VERIFIED
           \/ ValidPromotion(cand[id].trust, VERIFIED)

\* Seeded fault: one level up, also from VERIFIED and above.
MarkedVerifiedByOne(cand, batch) ==
    [id \in EntryIds |->
        IF id \in Named(batch) THEN [cand[id] EXCEPT !.trust = @ + 1] ELSE cand[id]]

MarkedVerified(cand, batch) ==
    [id \in EntryIds |->
        IF id \in Named(batch) /\ cand[id].trust < VERIFIED
        THEN [cand[id] EXCEPT !.trust = VERIFIED]
        ELSE cand[id]]

\* Seeded fault: the live entry of the same id is not looked at.
EntryPromotableBlind(cand, live, id) ==
    /\ cand[id] # Absent
    /\ ValidPromotion(cand[id].trust, PROMOTED)

\* The per-entry checks of promote(): the candidate exists and can still
\* rise, and so can the live entry it would replace.
EntryPromotable(cand, live, id) ==
    /\ cand[id] # Absent
    /\ ValidPromotion(cand[id].trust, PROMOTED)
    /\ live[id] # Absent => ValidPromotion(live[id].trust, PROMOTED)

\* Seeded fault: no hash precondition.
PromoteAcceptsUnfenced(cand, live, batch, pre, role, tier) ==
    /\ role # None => MayWriteTier(role, tier)
    /\ \A i, j \in DOMAIN batch : batch[i] = batch[j] => i = j
    /\ \A id \in Named(batch) : EntryPromotable(cand, live, id)

\* Seeded fault: the role is not compared with the tier's consumers.
PromoteAcceptsAnyRole(cand, live, batch, pre, role, tier) ==
    /\ pre = live
    /\ \A i, j \in DOMAIN batch : batch[i] = batch[j] => i = j
    /\ \A id \in Named(batch) : EntryPromotable(cand, live, id)

\* promote() in the order of the code: authority, hash precondition,
\* duplicates, then every entry of the batch.  The role None is a caller that
\* passes no producer_role, for which the tier check is skipped.
PromoteAccepts(cand, live, batch, pre, role, tier) ==
    /\ role # None => MayWriteTier(role, tier)
    /\ pre = live
    /\ \A i, j \in DOMAIN batch : batch[i] = batch[j] => i = j
    /\ \A id \in Named(batch) : EntryPromotable(cand, live, id)

\* Seeded fault: whatever is on the candidate side goes live.
PromotedEverything(cand, live, batch) ==
    [id \in EntryIds |->
        IF cand[id] # Absent THEN [cand[id] EXCEPT !.trust = PROMOTED] ELSE live[id]]

\* The live dictionary after a batch is promoted.
Promoted(cand, live, batch) ==
    [id \in EntryIds |->
        IF id \in Named(batch)
        THEN [cand[id] EXCEPT !.trust = PROMOTED]
        ELSE live[id]]

\* deprecate_live also overwrites the reason of an entry deprecated before.
Deprecated(live, id, reason) ==
    [live EXCEPT ![id] = [content |-> @.content, trust |-> DEPRECATED,
                          writer |-> @.writer, reason |-> reason]]

=============================================================================
