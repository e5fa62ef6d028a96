----------------------------- MODULE Coordinator -----------------------------
(***************************************************************************)
(* csis.agents.coordinator: iterations of the eight-step loop over one     *)
(* shared MemoryHierarchy.  An iteration passes the gates of the research, *)
(* build and verify steps, has the Librarian consolidate one candidate,    *)
(* has the Auditor sign a why-doc against the live store, marks the        *)
(* candidate verified and promotes it; or it rolls back.  Every call into  *)
(* a store is one atomic step; what an iteration read before it may be     *)
(* stale.  A wrong tier is cleaned up tier by tier and entry by entry.     *)
(*                                                                         *)
(* What the agents answer is nondeterministic.  The content of an entry is *)
(* the iteration whose certificate it describes.  The files that hold the  *)
(* graders may be edited at any time.  What daemon._tick does with a skill *)
(* that was promoted, consolidate_skill included, is modelled here too,    *)
(* because it uses the stores.                                             *)
(***************************************************************************)
EXTENDS StoreOps, Verification

CONSTANTS
    Iterations,   \* calls of run_iteration
    TierOrder,    \* the tiers, in the order tier_names() lists them
    Librarians,   \* "honest" (the one in src) and "buggy" (the ones the
                  \* cleanup is written for)
    Configurations, \* the pairs of checkpoints a configuration may name
    SkillMakers,  \* iterations that may produce a skill
    MaxEdits,     \* bound: edits of the grader files
    MaxInFlight,  \* bound: iterations running at once; the contract is 1
    Nobody        \* the promotion lock is free

Tiers == {TierOrder[n] : n \in DOMAIN TierOrder}

SkillTier == "procedural"

ASSUME CoordinatorParameters ==
    /\ Contents = Iterations
    /\ Writers = Iterations
    /\ TierOrder \in Seq(TierNames)
    /\ Librarians \subseteq {"honest", "buggy"} /\ None \notin {"honest", "buggy"}
    /\ None \notin EntryIds
    /\ Configurations \subseteq [builder : Checkpoints, auditor : Checkpoints]
    /\ SkillMakers \subseteq Iterations
    /\ SkillMakers # {} => SkillTier \in Tiers
    /\ MaxEdits \in Nat
    /\ MaxInFlight \in Nat \ {0}
    /\ Nobody \notin Iterations

VARIABLES
    candidate,  \* tier -> its _candidate
    live,       \* tier -> its _live
    archive,    \* tier -> the archived candidates
    promotions, \* tier -> history of its promotions, as in MemoryStore
    pc,         \* iteration -> where run_iteration is
    target,     \* iteration -> target_tier
    cert,       \* iteration -> its certificate, if that passed
    entry,      \* iteration -> the entry returned, and the Librarian that did
    why,        \* iteration -> the live snapshot of the signed why-doc
    pre,        \* iteration -> pre_consolidate_ids
    scan,       \* iteration -> tiers visited by the loop it is in
    doomed,     \* iteration -> ids still to discard in the tier it cleans
    log,        \* iteration -> kinds of the events with its id, in order
    promoted,   \* iteration -> whether its promotion succeeded
    skill,      \* iteration -> its skill entry's id and precondition
    alone,      \* history: iteration -> whether no other ran at the same time
    intact,     \* history: iteration -> whether the grader files were as pinned
                \* at some moment since it started
    checkpoints,\* builder_checkpoint and auditor_checkpoint of the configuration
    drifted,    \* the file of a pinned grader is not what was pinned
    edits,
    promotionLock,
    tripped,    \* a tripwire fired since the Coordinator was built
    halted      \* the shutdown token

stores == <<candidate, live, archive, promotions>>
cleaning == <<pre, scan, doomed>>
facts == <<target, cert, entry, why, promoted, skill>>
switches == <<tripped, halted>>
files == <<checkpoints, drifted, edits>>
history == <<alone, intact>>
vars == <<stores, pc, facts, cleaning, log, promotionLock, switches, files, history>>

NoEntry == [id |-> None, tier |-> None, by |-> None]

NoSkill == [id |-> None, pre |-> None]

NoPre == [t \in Tiers |-> {}]

Ended == {"rolled-back", "mismatched", "promoted", "raised", "skilled", "unskilled"}

\* Skills are made by the daemon after run_iteration has returned.
InSkillPath(i) == pc[i] \in {"skill", "skill-written", "skill-marked", "skill-hashed"}

InFlight == {i \in Iterations : pc[i] \notin Ended \cup {"waiting"}}

Init ==
    /\ candidate = [t \in Tiers |-> EmptyDict]
    /\ live = [t \in Tiers |-> EmptyDict]
    /\ archive = [t \in Tiers |-> {}]
    /\ promotions = [t \in Tiers |-> <<>>]
    /\ pc = [i \in Iterations |-> "waiting"]
    /\ target \in [Iterations -> Tiers]
    /\ cert = [i \in Iterations |-> None]
    /\ entry = [i \in Iterations |-> NoEntry]
    /\ why = [i \in Iterations |-> None]
    /\ pre = [i \in Iterations |-> NoPre]
    /\ scan = [i \in Iterations |-> 0]
    /\ doomed = [i \in Iterations |-> {}]
    /\ log = [i \in Iterations |-> <<>>]
    /\ promoted = [i \in Iterations |-> FALSE]
    /\ skill = [i \in Iterations |-> NoSkill]
    /\ alone = [i \in Iterations |-> TRUE]
    /\ intact = [i \in Iterations |-> FALSE]
    /\ checkpoints \in Configurations
    /\ drifted = FALSE /\ edits = 0
    /\ promotionLock = Nobody
    /\ tripped = FALSE
    /\ halted = FALSE

Goto(i, label) == pc' = [pc EXCEPT ![i] = label]

Emit(i, kinds) == log' = [log EXCEPT ![i] = @ \o kinds]

\* _rollback.  It leaves the stores alone: candidates stay where they are.
Rollback(i, kinds) ==
    /\ Goto(i, "rolled-back")
    /\ Emit(i, kinds \o <<"iter.rolled_back">>)

-----------------------------------------------------------------------------
(* Start, and the gates before the Librarian.                              *)

Start(i) ==
    /\ pc[i] = "waiting"
    /\ ~halted
    /\ Cardinality(InFlight) < MaxInFlight
    /\ Emit(i, <<"iter.start">>)
    /\ Goto(i, "frontier")
    /\ alone' = [j \in Iterations |->
          alone[j] /\ (j \in InFlight \cup {i} => InFlight = {})]
    /\ intact' = [intact EXCEPT ![i] = ~drifted]
    /\ UNCHANGED <<stores, facts, cleaning, promotionLock, switches, files>>

\* A tripwire fires on the text a step produced, before the next step sees it.
Tripped(i, from, kinds) ==
    /\ pc[i] = from
    /\ tripped' = TRUE
    /\ Rollback(i, kinds \o <<"tripwire.fired">>)
    /\ UNCHANGED <<stores, facts, cleaning, promotionLock, halted, files, history>>

\* Another refusal of the step.
Refused(i, from, kinds) ==
    /\ pc[i] = from
    /\ Rollback(i, kinds)
    /\ UNCHANGED <<stores, facts, cleaning, promotionLock, switches, files, history>>

Passed(i, from, kinds, to) ==
    /\ pc[i] = from
    /\ Emit(i, kinds)
    /\ Goto(i, to)
    /\ UNCHANGED <<stores, facts, cleaning, promotionLock, switches, files, history>>

Frontier(i) ==
    \/ Tripped(i, "frontier", <<>>)
    \/ Passed(i, "frontier", <<>>, "research")

\* The Researcher's plan: scanned, then judged by the constitution and by the
\* Builder's capability ceiling.
Research(i) ==
    \/ Refused(i, "research", <<>>)
    \/ Tripped(i, "research", <<"plan.proposed">>)
    \/ \E kind \in {"constitution.reject", "tier.violation"} :
          Refused(i, "research", <<"plan.proposed", kind>>)
    \/ Passed(i, "research", <<"plan.proposed">>, "build")

Build(i) ==
    \/ Refused(i, "build", <<>>)
    \/ Tripped(i, "build", <<"artifact.produced">>)
    \/ Passed(i, "build", <<"artifact.produced">>, "verify")

\* Seeded fault: the graders are pinned again instead of compared with their pins.
RePin(i) == Passed(i, "verify", <<>>, "certify")

\* verify_pinned_hashes: the grader files of this moment.  The graders and the
\* Critic are asked all the same.
CheckPins(i) == Passed(i, "verify", <<>>, IF drifted THEN "certify-drifted" ELSE "certify")

Crosses == CrossCheckpoint(checkpoints.builder, checkpoints.auditor)

\* build_certificate raises: for the checkpoints, whatever the pins say, or for
\* a drift.
VerifyRaises(i) ==
    \/ /\ ~Crosses
       /\ \E label \in {"certify", "certify-drifted"} :
             Refused(i, label, <<"cross_checkpoint.violation">>)
    \/ Crosses /\ Refused(i, "certify-drifted", <<"grader.drift">>)

\* build_certificate on what the graders and the Critic answered.
Verify(i) ==
    /\ pc[i] = "certify"
    /\ Crosses
    /\ \E results \in [Graders -> BOOLEAN], answer \in CriticAnswers :
          LET built == Certificate(results, Findings(answer)) IN
          IF built.passed
          THEN /\ cert' = [cert EXCEPT ![i] = built]
               /\ Emit(i, <<"verifier.cert">>)
               /\ Goto(i, "snapshot")
          ELSE Rollback(i, <<"verifier.cert">>) /\ UNCHANGED cert
    /\ UNCHANGED <<stores, target, entry, why, promoted, skill, cleaning, promotionLock, switches,
                   files, history>>

-----------------------------------------------------------------------------
(* The Librarian.                                                          *)

\* pre_consolidate_ids, one tier at a time.
SnapshotIds(i) ==
    /\ pc[i] = "snapshot"
    /\ LET tier == TierOrder[scan[i] + 1] IN pre' = [pre EXCEPT ![i][tier] = Keys(candidate[tier])]
    /\ IF scan[i] + 1 = Len(TierOrder)
       THEN Goto(i, "consolidate") /\ scan' = [scan EXCEPT ![i] = 0]
       ELSE scan' = [scan EXCEPT ![i] = @ + 1] /\ UNCHANGED pc
    /\ UNCHANGED <<stores, facts, doomed, log, promotionLock, switches, files, history>>

\* Seeded fault: entry ids that repeat between iterations.
FreshAnyId(id) == TRUE

\* entry_id is a new uuid.
Fresh(id) == \A j \in Iterations : entry[j].id # id /\ skill[j].id # id

\* One candidate is written to a tier, stamped or not, and returned with the
\* tier it claims to be in.
Write(i, id, tier, claimed, stamp, librarian) ==
    /\ candidate' = [candidate EXCEPT ![tier] =
          Overwrite(@, [k \in {id} |-> [content |-> i, trust |-> CANDIDATE,
                                        writer |-> stamp, reason |-> None]])]
    /\ entry' = [entry EXCEPT ![i] = [id |-> id, tier |-> claimed, by |-> librarian]]
    /\ Goto(i, "consolidated")
    /\ UNCHANGED <<live, archive, promotions, target, cert, why, promoted, skill, cleaning, log,
                   promotionLock, switches, files, history>>

\* consolidate_to_candidates.
Consolidate(i) ==
    /\ pc[i] = "consolidate"
    /\ "honest" \in Librarians
    /\ MayWriteTier("librarian", target[i])
    /\ \E id \in EntryIds : Fresh(id) /\ Write(i, id, target[i], target[i], i, "honest")

ConsolidateBlocked(i) ==
    /\ "honest" \in Librarians
    /\ ~MayWriteTier("librarian", target[i])
    /\ Refused(i, "consolidate", <<"tier.write.blocked">>)

\* A Librarian that goes to a store directly: any id, any tier, a claim that
\* need not be true, with or without the stamp.
ConsolidateBuggy(i) ==
    /\ pc[i] = "consolidate"
    /\ "buggy" \in Librarians
    /\ \E id \in EntryIds, tier \in Tiers, claimed \in Tiers, stamp \in {i, None} :
          Write(i, id, tier, claimed, stamp, "buggy")

\* has_candidate in the claimed tier.
ClaimHolds(i) == candidate[entry[i].tier][entry[i].id] # Absent

CheckClaim(i) ==
    /\ pc[i] = "consolidated"
    /\ Emit(i, <<"librarian.consolidate">>)
    /\ Goto(i, IF ClaimHolds(i) THEN "sign" ELSE "cleanup")
    /\ UNCHANGED <<stores, facts, cleaning, promotionLock, switches, files, history>>

-----------------------------------------------------------------------------
(* The Auditor and the promotion.                                          *)

\* write_why_doc: hash and snapshot of the target tier in one call.
Sign(i) ==
    /\ pc[i] = "sign"
    /\ entry[i].tier = target[i]
    /\ why' = [why EXCEPT ![i] = live[target[i]]]
    /\ Goto(i, "signed")
    /\ UNCHANGED <<stores, target, cert, entry, promoted, skill, cleaning, log, promotionLock, switches,
                   files, history>>

\* TierMismatch out of _build_diff.
SignMismatch(i) ==
    /\ pc[i] = "sign"
    /\ entry[i].tier # target[i]
    /\ Goto(i, "cleanup")
    /\ UNCHANGED <<stores, facts, cleaning, log, promotionLock, switches, files, history>>

\* Any other exception of the Auditor (its reading of the event log raises on
\* an unreadable line).
SignFails(i) == Refused(i, "sign", <<"auditor.failed">>)

\* Seeded fault: the signature is not logged before the promotion.
SignedUnlogged(i) ==
    \/ Tripped(i, "signed", <<"auditor.signed">>)
    \/ Passed(i, "signed", <<>>, "mark")

\* The event of the signature, and the scan of the why-doc's summary.  The
\* escalation of a why-doc on a failed certificate cannot be reached.
Signed(i) ==
    \/ Tripped(i, "signed", <<"auditor.signed">>)
    \/ Passed(i, "signed", <<"auditor.signed">>, "mark")

Batch(i) == <<entry[i].id>>

MarkVerified(i) ==
    /\ pc[i] = "mark"
    /\ VerifyAccepts(candidate[target[i]], Batch(i))
    /\ candidate' = [candidate EXCEPT ![target[i]] = MarkedVerified(@, Batch(i))]
    /\ Goto(i, "marked")
    /\ UNCHANGED <<live, archive, promotions, facts, cleaning, log, promotionLock, switches, files, history>>

MarkFails(i) ==
    /\ pc[i] = "mark"
    /\ ~VerifyAccepts(candidate[target[i]], Batch(i))
    /\ Refused(i, "mark", <<"promote.failed">>)

TakePromotionLock(i) ==
    /\ pc[i] = "marked"
    /\ promotionLock = Nobody
    /\ promotionLock' = i
    /\ Goto(i, "promoting")
    /\ UNCHANGED <<stores, facts, cleaning, log, switches, files, history>>

\* Seeded fault: the precondition is taken when promoting, not when signing.
PreconditionNow(i) == live[target[i]]

Precondition(i) == why[i]

Promotable(i) ==
    PromoteAccepts(candidate[target[i]], live[target[i]], Batch(i), Precondition(i),
                   "librarian", target[i])

Promote(i) ==
    LET t == target[i]
        moved == candidate[t][entry[i].id]
    IN
    /\ pc[i] = "promoting"
    /\ Promotable(i)
    /\ archive' = [archive EXCEPT ![t] = @ \cup {[id |-> entry[i].id, content |-> moved.content]}]
    /\ live' = [live EXCEPT ![t] = Promoted(candidate[t], @, Batch(i))]
    /\ candidate' = [candidate EXCEPT ![t] = Remove(@, {entry[i].id})]
    /\ promotions' = [promotions EXCEPT ![t] =
                          Append(@, [pre |-> Precondition(i), ids |-> {entry[i].id}])]
    /\ promoted' = [promoted EXCEPT ![i] = TRUE]
    /\ promotionLock' = Nobody
    /\ Goto(i, "moved")
    /\ UNCHANGED <<target, cert, entry, why, skill, cleaning, log, switches, files, history>>

PromoteFails(i) ==
    /\ pc[i] = "promoting"
    /\ ~Promotable(i)
    /\ why' = [why EXCEPT ![i] = None]
    /\ promotionLock' = Nobody
    /\ Rollback(i, <<"promote.failed">>)
    /\ UNCHANGED <<stores, target, cert, entry, promoted, skill, cleaning, switches, files, history>>

\* The result is logged, and a halt that came in the meantime with it.  The
\* daemon goes on with a promoted artifact that is a skill.
Announce(i) ==
    /\ pc[i] = "moved"
    /\ Emit(i, IF tripped \/ halted THEN <<"iter.promoted", "post.halt">> ELSE <<"iter.promoted">>)
    /\ \/ Goto(i, "promoted")
       \/ i \in SkillMakers /\ Goto(i, "skill")
    /\ UNCHANGED <<stores, facts, cleaning, promotionLock, switches, files, history>>

-----------------------------------------------------------------------------
(* _tier_mismatch_cleanup                                                  *)

\* Seeded faults: entries are told apart by id only, or by stamp only.
IsOursById(i, tier, id) == candidate[tier][id] # Absent /\ id = entry[i].id
IsOursByStamp(i, tier, id) == candidate[tier][id] # Absent /\ candidate[tier][id].writer = i

\* The stamp is this iteration's, or there is none and the id is the returned
\* one and new in the tier.
IsOurs(i, tier, id) ==
    LET stored == candidate[tier][id] IN
    /\ stored # Absent
    /\ \/ stored.writer = i
       \/ stored.writer = None /\ id = entry[i].id /\ id \notin pre[i][tier]

\* candidates_snapshot of the next tier: what is ours is decided here ...
CleanupLook(i) ==
    LET tier == TierOrder[scan[i] + 1] IN
    /\ pc[i] = "cleanup"
    /\ scan[i] < Len(TierOrder)
    /\ doomed' = [doomed EXCEPT ![i] = {id \in EntryIds : IsOurs(i, tier, id)}]
    /\ Goto(i, "discarding")
    /\ UNCHANGED <<stores, facts, pre, scan, log, promotionLock, switches, files, history>>

\* ... and discarded here, by id.
CleanupDiscard(i) ==
    LET tier == TierOrder[scan[i] + 1] IN
    /\ pc[i] = "discarding"
    /\ \E id \in doomed[i] :
          /\ doomed' = [doomed EXCEPT ![i] = @ \ {id}]
          /\ IF candidate[tier][id] = Absent THEN UNCHANGED <<candidate, archive>>
             ELSE /\ archive' = [archive EXCEPT ![tier] =
                                    @ \cup {[id |-> id, content |-> candidate[tier][id].content]}]
                  /\ candidate' = [candidate EXCEPT ![tier] = Remove(@, {id})]
    /\ UNCHANGED <<live, promotions, pc, facts, pre, scan, log, promotionLock, switches, files, history>>

CleanupNextTier(i) ==
    /\ pc[i] = "discarding"
    /\ doomed[i] = {}
    /\ scan' = [scan EXCEPT ![i] = @ + 1]
    /\ Goto(i, "cleanup")
    /\ UNCHANGED <<stores, facts, pre, doomed, log, promotionLock, switches, files, history>>

CleanupEnd(i) ==
    /\ pc[i] = "cleanup"
    /\ scan[i] = Len(TierOrder)
    /\ Emit(i, <<"tier.mismatch", "iter.rolled_back">>)
    /\ Goto(i, "mismatched")
    /\ UNCHANGED <<stores, facts, cleaning, promotionLock, switches, files, history>>

-----------------------------------------------------------------------------
(* The skill path of daemon._tick.                                         *)

SkillBatch(i) == <<skill[i].id>>

\* consolidate_skill: a new id, no stamp.
WriteSkill(i) ==
    /\ pc[i] = "skill"
    /\ MayWriteTier("builder", SkillTier)
    /\ \E id \in EntryIds :
          /\ Fresh(id)
          /\ skill' = [skill EXCEPT ![i].id = id]
          /\ candidate' = [candidate EXCEPT ![SkillTier] =
                Overwrite(@, [k \in {id} |-> [content |-> i, trust |-> CANDIDATE,
                                              writer |-> None, reason |-> None]])]
    /\ Goto(i, "skill-written")
    /\ UNCHANGED <<live, archive, promotions, target, cert, entry, why, promoted, cleaning,
                   log, promotionLock, switches, files, history>>

MarkSkill(i) ==
    /\ pc[i] = "skill-written"
    /\ VerifyAccepts(candidate[SkillTier], SkillBatch(i))
    /\ candidate' = [candidate EXCEPT ![SkillTier] = MarkedVerified(@, SkillBatch(i))]
    /\ Goto(i, "skill-marked")
    /\ UNCHANGED <<live, archive, promotions, facts, cleaning, log, promotionLock, switches, files,
                   history>>

\* store.live_hash(), a call of its own before promote().
HashSkill(i) ==
    /\ pc[i] = "skill-marked"
    /\ skill' = [skill EXCEPT ![i].pre = live[SkillTier]]
    /\ Goto(i, "skill-hashed")
    /\ UNCHANGED <<stores, target, cert, entry, why, promoted, cleaning, log, promotionLock,
                   switches, files, history>>

SkillPromotable(i) ==
    PromoteAccepts(candidate[SkillTier], live[SkillTier], SkillBatch(i), skill[i].pre,
                   "builder", SkillTier)

\* promote(), without the promotion lock and with the why-doc of the iteration.
PromoteSkill(i) ==
    LET id == skill[i].id IN
    /\ pc[i] = "skill-hashed"
    /\ SkillPromotable(i)
    /\ archive' = [archive EXCEPT ![SkillTier] =
          @ \cup {[id |-> id, content |-> candidate[SkillTier][id].content]}]
    /\ live' = [live EXCEPT ![SkillTier] = Promoted(candidate[SkillTier], @, SkillBatch(i))]
    /\ candidate' = [candidate EXCEPT ![SkillTier] = Remove(@, {id})]
    /\ promotions' = [promotions EXCEPT ![SkillTier] =
                          Append(@, [pre |-> skill[i].pre, ids |-> {id}])]
    /\ Goto(i, "skilled")
    /\ UNCHANGED <<facts, cleaning, log, promotionLock, switches, files, history>>

\* skill.failed: a store refuses or a write fails.  What was written stays.
SkillFails(i) ==
    /\ InSkillPath(i)
    /\ skill' = [skill EXCEPT ![i].pre = None]
    /\ Goto(i, "unskilled")
    /\ UNCHANGED <<stores, target, cert, entry, why, promoted, cleaning, log, promotionLock,
                   switches, files, history>>

-----------------------------------------------------------------------------

\* Seeded fault: the promotion lock is not released on the way out.
RaiseHoldingLock(i) ==
    /\ i \in InFlight /\ ~InSkillPath(i)
    /\ Goto(i, "raised")
    /\ UNCHANGED <<stores, facts, cleaning, log, promotionLock, switches, files, history>>

\* An exception leaves run_iteration: the budget cap, a failed write of a store, or
\* an emit() that cannot have the log's lock.  A lock that is held is released on
\* the way out.  The cap is logged when the Verifier or the Librarian meets it.
Raise(i) ==
    /\ i \in InFlight /\ ~InSkillPath(i)
    /\ promotionLock' = IF promotionLock = i THEN Nobody ELSE promotionLock
    /\ \/ UNCHANGED log
       \/ pc[i] \in {"certify", "certify-drifted", "consolidate"} /\ Emit(i, <<"iter.partial">>)
    /\ Goto(i, "raised")
    /\ UNCHANGED <<stores, facts, cleaning, switches, files, history>>

Halt ==
    /\ ~halted
    /\ halted' = TRUE
    /\ UNCHANGED <<stores, pc, facts, cleaning, log, promotionLock, tripped, files, history>>

\* Somebody, possibly an iteration's own patch, changes the file of a grader, or
\* puts the pinned text back.
EditGraders ==
    /\ edits < MaxEdits
    /\ edits' = edits + 1
    /\ drifted' = ~drifted
    /\ intact' = [i \in Iterations |-> intact[i] \/ (drifted /\ i \in InFlight)]
    /\ UNCHANGED <<stores, pc, facts, cleaning, log, promotionLock, switches, checkpoints, alone>>

Iterate(i) ==
    \/ Start(i) \/ Frontier(i) \/ Research(i) \/ Build(i)
    \/ CheckPins(i) \/ VerifyRaises(i) \/ Verify(i)
    \/ SnapshotIds(i)
    \/ Consolidate(i) \/ ConsolidateBlocked(i) \/ ConsolidateBuggy(i)
    \/ CheckClaim(i)
    \/ Sign(i) \/ SignMismatch(i) \/ SignFails(i) \/ Signed(i)
    \/ MarkVerified(i) \/ MarkFails(i)
    \/ TakePromotionLock(i) \/ Promote(i) \/ PromoteFails(i) \/ Announce(i)
    \/ CleanupLook(i) \/ CleanupDiscard(i) \/ CleanupNextTier(i) \/ CleanupEnd(i)
    \/ WriteSkill(i) \/ MarkSkill(i) \/ HashSkill(i) \/ PromoteSkill(i) \/ SkillFails(i)
    \/ Raise(i)

Next == Halt \/ EditGraders \/ \E i \in Iterations : Iterate(i)

Spec == Init /\ [][Next]_vars

-----------------------------------------------------------------------------
(* Properties.                                                             *)

Certificates ==
    [passed : BOOLEAN, results : [Graders -> BOOLEAN],
     findings : UNION {[1 .. n -> BOOLEAN] : n \in 0 .. MinAttempts}]

Archived == [id : EntryIds, content : Iterations]

\* The state has its type, and the promotion lock is held exactly by the
\* iteration that is inside promote().
TypeOK ==
    /\ candidate \in [Tiers -> Dict]
    /\ live \in [Tiers -> Dict]
    /\ archive \in [Tiers -> SUBSET Archived]
    /\ target \in [Iterations -> Tiers]
    /\ cert \in [Iterations -> {None} \cup Certificates]
    /\ pre \in [Iterations -> [Tiers -> SUBSET EntryIds]]
    /\ scan \in [Iterations -> 0 .. Len(TierOrder)]
    /\ doomed \in [Iterations -> SUBSET EntryIds]
    /\ promoted \in [Iterations -> BOOLEAN]
    /\ skill \in [Iterations -> [id : EntryIds \cup {None}, pre : Dict \cup {None}]]
    /\ alone \in [Iterations -> BOOLEAN] /\ intact \in [Iterations -> BOOLEAN]
    /\ drifted \in BOOLEAN /\ edits \in 0 .. MaxEdits
    /\ promotionLock \in Iterations \cup {Nobody}
    /\ tripped \in BOOLEAN /\ halted \in BOOLEAN
    /\ \A i \in Iterations : promotionLock = i <=> pc[i] = "promoting"

Evidence == <<"iter.start", "plan.proposed", "artifact.produced", "verifier.cert",
              "librarian.consolidate", "auditor.signed">>

\* A promotion is explained by the log before it happens: at the moment an entry
\* goes live, and however its iteration ends afterwards, the log already holds
\* the iteration's plan, artifact, certificate, consolidation and signature in
\* this order, and no refusal.
LiveHasTrail ==
    \A i \in Iterations : promoted[i] =>
        /\ Len(log[i]) >= Len(Evidence)
        /\ SubSeq(log[i], 1, Len(Evidence)) = Evidence
        /\ \A n \in DOMAIN log[i] :
              n > Len(Evidence) => log[i][n] \in {"iter.promoted", "post.halt"}

\* What goes live is what was verified and signed: the entry an iteration
\* promotes has the content of its own certificate, although promote() takes it
\* from the candidate store by id and checks only the live store's hash.  It
\* needs the Librarian of the source: one that reuses an id replaces the entry
\* between signature and promotion, and one that lies promotes an older one.
PromotedAsSigned ==
    \A i \in Iterations :
        promoted[i] /\ (\A j \in Iterations : entry[j].by # "buggy") =>
            live[target[i]][entry[i].id].content = i

\* A promotion rests on a verification that took place: the grader files were as
\* pinned at some moment of the iteration, all graders passed, the Critic made its
\* attempts and none of them found a problem, and builder and auditor are
\* different checkpoints that differ in more than their names.
PromotedOnEvidence ==
    \A i \in Iterations : promoted[i] =>
        /\ intact[i]
        /\ \A g \in Graders : cert[i].results[g]
        /\ Len(cert[i].findings) >= MinAttempts
        /\ \A n \in DOMAIN cert[i].findings : ~cert[i].findings[n]
        /\ checkpoints.builder # checkpoints.auditor
        /\ \E k \in IdentityKeys \ {"checkpoint_id"} :
              IdentityOf(checkpoints.builder)[k] # IdentityOf(checkpoints.auditor)[k]

\* In a tier whose readers act above the Librarian's ceiling only skills go live,
\* each after the promotion of the iteration that made it, whatever a Librarian
\* writes there and claims.
ProceduralOnlySkills ==
    \A t \in Tiers, id \in EntryIds :
        ~MayWriteTier("librarian", t) /\ live[t][id] # Absent =>
            \E i \in Iterations : promoted[i] /\ skill[i].id = id /\ pc[i] = "skilled"

\* An iteration whose Librarian was caught leaves none of its candidates in any
\* tier, except an unstamped one that replaced an entry with the same id.
CleanupRemoves ==
    \A i \in Iterations : pc[i] = "mismatched" =>
        \A t \in Tiers, id \in EntryIds :
            candidate[t][id] # Absent /\ candidate[t][id].content = i =>
                candidate[t][id].writer = None /\ id \in pre[i][t]

\* A step that takes a candidate from a tier without promoting it.
Discarded(t, id) ==
    candidate[t][id] # Absent /\ candidate'[t][id] = Absent /\ live'[t] = live[t]

\* The cleanup of an iteration that ran alone discards only what that iteration
\* wrote: what its predecessors left in the tiers survives it, whatever ids and
\* stamps its Librarian used.
CleanupSpares ==
    [][\A t \in Tiers, id \in EntryIds :
          Discarded(t, id) =>
              \E i \in Iterations :
                  /\ pc[i] = "discarding" /\ doomed'[i] # doomed[i]
                  /\ alone[i] => candidate[t][id].content = i]_vars

\* A stamped candidate is discarded by its own iteration's cleanup only, also
\* when siblings run at the same time and write the same id.
SiblingStampSpared ==
    [][\A t \in Tiers, id \in EntryIds :
          Discarded(t, id) /\ candidate[t][id].writer # None =>
              pc[candidate[t][id].writer] = "discarding"]_vars

\* An iteration that ended without an exception has no candidate left in a tier
\* other than its target: a Librarian that lies about the tier strands nothing.
LiarStrandsNothing ==
    \A i \in Iterations : pc[i] \in {"promoted", "mismatched"} =>
        \A t \in Tiers \ {target[i]}, id \in EntryIds :
            candidate[t][id] # Absent =>
                candidate[t][id].content # i \/ candidate[t][id].writer = None

-----------------------------------------------------------------------------
(* Every tier is used as MemoryStore describes: the iterations are clients *)
(* that present the why-doc they signed, so what holds of a store holds of *)
(* each tier of the hierarchy.                                             *)

Store(t) == INSTANCE MemoryStore WITH
    candidate <- candidate[t],
    live <- live[t],
    archive <- archive[t],
    promotions <- promotions[t],
    why <- [i \in Iterations |->
               IF skill[i].id # None /\ t = SkillTier THEN skill[i].pre
               ELSE IF target[i] = t THEN why[i] ELSE None],
    Clients <- Iterations,
    Tier <- t,
    ProducerRoles <- {"librarian", "builder"},
    WrittenTrust <- {CANDIDATE},
    Batches <- {<<id>> : id \in EntryIds}

\* \A t \in Tiers : Store(t)!Spec, with the quantifier inside, where TLC can
\* evaluate it.
StoreSpec ==
    /\ \A t \in Tiers : Store(t)!Init
    /\ [][\A t \in Tiers : [Store(t)!Next]_(Store(t)!vars)]_vars

=============================================================================
