-------------------------- MODULE CoordinatorProofs --------------------------
(***************************************************************************)
(* What a promotion rests on and what the iterations do to the memory      *)
(* hierarchy, for any number of iterations, tiers, graders, checkpoints    *)
(* and edits of the grader files, and any Librarian.                       *)
(*                                                                         *)
(* Part 1, the evidence.  An iteration is past the verification only after *)
(* a certificate passed that was built on pins compared during it          *)
(* (Certified), and nothing takes a certificate back or changes the        *)
(* configuration.  Most steps of an iteration only move it on: QuietStep   *)
(* says under which conditions such a step keeps the invariant.            *)
(*                                                                         *)
(* Part 2, the stores: what iterations that run at the same time, with     *)
(* Librarians that lie, do to the tiers.                                   *)
(***************************************************************************)
EXTENDS Coordinator, FiniteSetTheorems, SequenceTheorems, TLAPS

-----------------------------------------------------------------------------
(* Part 1.  The evidence for a promotion.                                  *)

\* The places an iteration is at after its certificate passed.
AfterVerify ==
    {"snapshot", "consolidate", "consolidated", "sign", "signed", "mark", "marked",
     "promoting", "moved", "cleanup", "discarding",
     "skill", "skill-written", "skill-marked", "skill-hashed"}

GoodCertificate(c) ==
    /\ \A g \in Graders : c.results[g]
    /\ Len(c.findings) >= MinAttempts
    /\ \A n \in DOMAIN c.findings : ~c.findings[n]

Domains ==
    /\ DOMAIN pc = Iterations /\ DOMAIN cert = Iterations
    /\ DOMAIN promoted = Iterations /\ DOMAIN intact = Iterations

\* As long as the files are as pinned, every iteration has seen them so.
Watched == \A i \in Iterations : i \in InFlight /\ ~drifted => intact[i]

PinsCompared == \A i \in Iterations : pc[i] = "certify" => intact[i]

Certified ==
    \A i \in Iterations : pc[i] \in AfterVerify \/ promoted[i] =>
        intact[i] /\ Crosses /\ GoodCertificate(cert[i])

NoneWaits == \A i \in Iterations : promoted[i] => pc[i] # "waiting"

Evidenced == Domains /\ Watched /\ PinsCompared /\ Certified /\ NoneWaits

\* assert_cross_checkpoint asks for two differences, and one of them is not the name.
LEMMA CrossesInSubstance ==
    ASSUME NEW b, NEW v, CrossCheckpoint(b, v)
    PROVE  /\ b # v
           /\ \E k \in IdentityKeys \ {"checkpoint_id"} : IdentityOf(b)[k] # IdentityOf(v)[k]
  <1> DEFINE differ == {k \in IdentityKeys : IdentityOf(b)[k] # IdentityOf(v)[k]}
  <1>1. Cardinality(differ) >= 2
    BY DEF CrossCheckpoint, MinDistinct
  <1>2. ~(differ \subseteq {"checkpoint_id"})
    <2>1. Cardinality({"checkpoint_id"}) = 1 /\ IsFiniteSet({"checkpoint_id"})
      BY FS_Singleton
    <2>2. ASSUME differ \subseteq {"checkpoint_id"}
          PROVE  FALSE
      <3>1. Cardinality(differ) <= 1 /\ Cardinality(differ) \in Nat
        BY <2>1, <2>2, FS_Subset, FS_CardinalityType
      <3>2. QED
        BY <1>1, <3>1
    <2>3. QED
      BY <2>2
  <1>3. PICK k \in differ : k # "checkpoint_id"
    BY <1>2
  <1>4. QED
    BY <1>3

\* No promotion has happened at the start.
LEMMA EvidencedInit == Init => Evidenced
  BY DEF Init, Evidenced, Domains, Watched, PinsCompared, Certified, InFlight, AfterVerify, Ended, NoneWaits

\* A step that moves iteration i on, and leaves what the invariant is about alone: it
\* neither starts i nor takes it past the comparison of the pins or the verification.
Moves(i, label) ==
    /\ pc' = [pc EXCEPT ![i] = label]
    /\ pc[i] \notin Ended \cup {"waiting"}
    /\ label \in AfterVerify => pc[i] \in AfterVerify
    /\ label # "certify" /\ label # "waiting"
    /\ UNCHANGED <<cert, promoted, intact, checkpoints, drifted>>

\* A step that only moves an iteration on keeps the evidence.
LEMMA QuietStep ==
    ASSUME Evidenced, NEW i \in Iterations, NEW label, Moves(i, label)
    PROVE  Evidenced'
  <1>1. Domains'
    BY DEF Evidenced, Domains, Moves
  <1>2. Watched'
    BY DEF Evidenced, Domains, Watched, InFlight, Moves
  <1>3. PinsCompared'
    BY DEF Evidenced, Domains, PinsCompared, Moves
  <1>4. Certified'
    BY DEF Evidenced, Domains, Certified, Crosses, Moves
  <1>5. NoneWaits'
    BY DEF Evidenced, Domains, NoneWaits, Moves
  <1>6. QED
    BY <1>1, <1>2, <1>3, <1>4, <1>5 DEF Evidenced

\* A step that changes nothing the evidence is about keeps it.
LEMMA StillStep ==
    ASSUME Evidenced, UNCHANGED <<pc, cert, promoted, intact, checkpoints, drifted>>
    PROVE  Evidenced'
  BY DEF Evidenced, Domains, Watched, InFlight, PinsCompared, Certified, Crosses, NoneWaits

\* The gates that leave the stores alone.
LEMMA GatesMove ==
    ASSUME NEW i \in Iterations,
           \/ Frontier(i) \/ Research(i) \/ Build(i) \/ VerifyRaises(i)
           \/ ConsolidateBlocked(i) \/ CheckClaim(i)
           \/ SignMismatch(i) \/ SignFails(i) \/ Signed(i) \/ MarkFails(i)
           \/ Announce(i) \/ Raise(i) \/ CleanupNextTier(i) \/ CleanupEnd(i) \/ SkillFails(i)
    PROVE  \E label : Moves(i, label)
  <1> USE DEF Moves, Tripped, Refused, Passed, Rollback, Goto, Ended, AfterVerify,
              facts, files, history, switches
  <1>1. CASE Frontier(i) \/ Research(i) \/ Build(i)
    BY <1>1 DEF Frontier, Research, Build
  <1>2. CASE VerifyRaises(i) \/ ConsolidateBlocked(i) \/ SignFails(i) \/ MarkFails(i)
    BY <1>2 DEF VerifyRaises, ConsolidateBlocked, SignFails, MarkFails
  <1>3. CASE CheckClaim(i)
    BY <1>3 DEF CheckClaim
  <1>4. CASE SignMismatch(i) \/ Signed(i)
    BY <1>4 DEF SignMismatch, Signed
  <1>5. CASE Announce(i) \/ CleanupNextTier(i) \/ CleanupEnd(i)
    BY <1>5 DEF Announce, CleanupNextTier, CleanupEnd
  <1>6. CASE Raise(i)
    BY <1>6 DEF Raise, InFlight
  <1>7. CASE SkillFails(i)
    BY <1>7 DEF SkillFails, InSkillPath
  <1>8. QED
    BY <1>1, <1>2, <1>3, <1>4, <1>5, <1>6, <1>7

\* The calls into the stores, promotion excepted.
LEMMA CallsMove ==
    ASSUME NEW i \in Iterations,
           \/ Consolidate(i) \/ ConsolidateBuggy(i) \/ Sign(i) \/ MarkVerified(i)
           \/ TakePromotionLock(i) \/ PromoteFails(i) \/ CleanupLook(i)
           \/ WriteSkill(i) \/ MarkSkill(i) \/ HashSkill(i) \/ PromoteSkill(i)
    PROVE  \E label : Moves(i, label)
  <1> USE DEF Moves, Goto, Ended, AfterVerify, facts, files, history, switches
  <1>1. CASE Consolidate(i) \/ ConsolidateBuggy(i)
    BY <1>1 DEF Consolidate, ConsolidateBuggy, Write
  <1>2. CASE Sign(i) \/ MarkVerified(i) \/ TakePromotionLock(i)
    BY <1>2 DEF Sign, MarkVerified, TakePromotionLock
  <1>3. CASE PromoteFails(i)
    BY <1>3 DEF PromoteFails, Rollback
  <1>4. CASE CleanupLook(i)
    BY <1>4 DEF CleanupLook
  <1>5. CASE WriteSkill(i) \/ MarkSkill(i)
    BY <1>5 DEF WriteSkill, MarkSkill
  <1>6. CASE HashSkill(i) \/ PromoteSkill(i)
    BY <1>6 DEF HashSkill, PromoteSkill
  <1>7. QED
    BY <1>1, <1>2, <1>3, <1>4, <1>5, <1>6

\* Taking the snapshot after the certificate keeps it.
LEMMA SnapshotStep ==
    ASSUME Evidenced, NEW i \in Iterations, SnapshotIds(i)
    PROVE  Evidenced'
  <1>1. CASE scan[i] + 1 = Len(TierOrder)
    <2>1. Moves(i, "consolidate")
      BY <1>1 DEF SnapshotIds, Moves, Goto, Ended, AfterVerify, facts, files, history
    <2>2. QED
      BY <2>1, QuietStep
  <1>2. CASE scan[i] + 1 # Len(TierOrder)
    <2>1. UNCHANGED <<pc, cert, promoted, intact, checkpoints, drifted>>
      BY <1>2 DEF SnapshotIds, facts, files, history
    <2>2. QED
      BY <2>1, StillStep
  <1>3. QED
    BY <1>1, <1>2

\* An iteration starts with the files as they are.
LEMMA StartStep ==
    ASSUME Evidenced, NEW i \in Iterations, Start(i)
    PROVE  Evidenced'
  <1> USE DEF Start, Goto, facts, files
  <1>1. Domains'
    BY DEF Evidenced, Domains
  <1>2. Watched'
    BY DEF Evidenced, Domains, Watched, InFlight
  <1>3. PinsCompared'
    BY DEF Evidenced, Domains, PinsCompared
  <1>4. Certified'
    <2> SUFFICES ASSUME NEW j \in Iterations, pc'[j] \in AfterVerify \/ promoted'[j]
                 PROVE  intact'[j] /\ Crosses' /\ GoodCertificate(cert[j])
      BY DEF Certified, GoodCertificate
    <2>1. CASE j # i
      BY <2>1 DEF Evidenced, Domains, Certified, Crosses
    <2>2. CASE j = i
      BY <2>2 DEF Evidenced, Domains, NoneWaits, AfterVerify
    <2>3. QED
      BY <2>1, <2>2
  <1>5. NoneWaits'
    BY DEF Evidenced, Domains, NoneWaits
  <1>6. QED
    BY <1>1, <1>2, <1>3, <1>4, <1>5 DEF Evidenced

\* Pins that hold now were as pinned at a moment of this iteration: now.
LEMMA PinsStep ==
    ASSUME Evidenced, NEW i \in Iterations, CheckPins(i)
    PROVE  Evidenced'
  <1>1. ~drifted => intact[i]
    BY DEF Evidenced, Watched, InFlight, CheckPins, Passed, Ended
  <1> USE DEF CheckPins, Passed, Goto, facts, files, history
  <1>2. Domains'
    BY DEF Evidenced, Domains
  <1>3. Watched'
    BY DEF Evidenced, Domains, Watched, InFlight, Ended
  <1>4. PinsCompared'
    BY <1>1 DEF Evidenced, Domains, PinsCompared
  <1>5. Certified'
    BY DEF Evidenced, Domains, Certified, Crosses, AfterVerify
  <1>6. NoneWaits'
    BY DEF Evidenced, Domains, NoneWaits
  <1>7. QED
    BY <1>2, <1>3, <1>4, <1>5, <1>6 DEF Evidenced

\* Only a certificate that passed lets an iteration on.
LEMMA VerifyStep ==
    ASSUME Evidenced, NEW i \in Iterations, Verify(i)
    PROVE  Evidenced'
  <1>1. PICK results \in [Graders -> BOOLEAN], answer \in CriticAnswers :
            LET built == Certificate(results, Findings(answer)) IN
            IF built.passed
            THEN /\ cert' = [cert EXCEPT ![i] = built]
                 /\ Emit(i, <<"verifier.cert">>)
                 /\ Goto(i, "snapshot")
            ELSE Rollback(i, <<"verifier.cert">>) /\ UNCHANGED cert
    BY DEF Verify
  <1>2. UNCHANGED <<promoted, intact, checkpoints, drifted>> /\ pc[i] = "certify" /\ Crosses
    BY DEF Verify, files, history
  <1> DEFINE built == Certificate(results, Findings(answer))
  <1>3. CASE ~built.passed
    <2>1. Moves(i, "rolled-back")
      BY <1>1, <1>2, <1>3 DEF Rollback, Goto, Moves, Ended, AfterVerify
    <2>2. QED
      BY <2>1, QuietStep
  <1>4. CASE built.passed
    <2>1. cert' = [cert EXCEPT ![i] = built] /\ pc' = [pc EXCEPT ![i] = "snapshot"]
      BY <1>1, <1>4 DEF Goto
    <2>2. GoodCertificate(built)
      BY <1>4 DEF Certificate, Passes, GoodCertificate
    <2>3. intact[i]
      BY <1>2 DEF Evidenced, PinsCompared
    <2> HIDE DEF built
    <2>4. Domains'
      BY <1>2, <2>1 DEF Evidenced, Domains
    <2>5. Watched'
      BY <1>2, <2>1, <2>3 DEF Evidenced, Domains, Watched, InFlight
    <2>6. PinsCompared'
      BY <1>2, <2>1 DEF Evidenced, Domains, PinsCompared
    <2>7. Certified'
      BY <1>2, <2>1, <2>2, <2>3 DEF Evidenced, Domains, Certified, Crosses
    <2>8. NoneWaits'
      BY <1>2, <2>1, <2>2, <2>3 DEF Evidenced, Domains, NoneWaits
    <2>9. QED
      BY <2>4, <2>5, <2>6, <2>7, <2>8 DEF Evidenced
  <1>5. QED
    BY <1>3, <1>4

\* A promotion rests on the certificate of its iteration.
LEMMA PromoteStep ==
    ASSUME Evidenced, NEW i \in Iterations, Promote(i)
    PROVE  Evidenced'
  <1>1. /\ pc[i] = "promoting" /\ pc' = [pc EXCEPT ![i] = "moved"]
        /\ promoted' = [promoted EXCEPT ![i] = TRUE]
        /\ UNCHANGED <<cert, intact, checkpoints, drifted>>
    BY DEF Promote, Goto, files, history
  <1>2. Domains'
    BY <1>1 DEF Evidenced, Domains
  <1>3. Watched'
    BY <1>1 DEF Evidenced, Domains, Watched, InFlight, Ended
  <1>4. PinsCompared'
    BY <1>1 DEF Evidenced, Domains, PinsCompared
  <1>5. Certified'
    BY <1>1 DEF Evidenced, Domains, Certified, Crosses, AfterVerify
  <1>6. NoneWaits'
    BY <1>1 DEF Evidenced, Domains, NoneWaits
  <1>7. QED
    BY <1>2, <1>3, <1>4, <1>5, <1>6 DEF Evidenced

\* An edit that puts the pinned text back is seen by every iteration that runs.
LEMMA EditStep ==
    ASSUME Evidenced, EditGraders
    PROVE  Evidenced'
  <1>1. /\ intact' = [j \in Iterations |-> intact[j] \/ (drifted /\ j \in InFlight)]
        /\ drifted' = ~drifted
        /\ UNCHANGED <<pc, cert, promoted, checkpoints>>
    BY DEF EditGraders, facts
  <1>2. Domains'
    BY <1>1 DEF Evidenced, Domains
  <1>3. Watched'
    BY <1>1 DEF Evidenced, Watched, InFlight
  <1>4. PinsCompared'
    BY <1>1 DEF Evidenced, PinsCompared
  <1>5. Certified'
    BY <1>1 DEF Evidenced, Certified, Crosses
  <1>6. NoneWaits'
    BY <1>1 DEF Evidenced, Domains, NoneWaits
  <1>7. QED
    BY <1>2, <1>3, <1>4, <1>5, <1>6 DEF Evidenced

\* Every step keeps the evidence.
LEMMA EvidencedStep == Evidenced /\ [Next]_vars => Evidenced'
  <1> SUFFICES ASSUME Evidenced, [Next]_vars
               PROVE  Evidenced'
    OBVIOUS
  <1>1. CASE UNCHANGED vars
    BY <1>1, StillStep DEF vars, facts, files, history
  <1>2. CASE Halt
    BY <1>2, StillStep DEF Halt, facts, files, history
  <1>3. CASE EditGraders
    BY <1>3, EditStep
  <1>4. ASSUME NEW i \in Iterations, Iterate(i)
        PROVE  Evidenced'
    <2>1. CASE CleanupDiscard(i)
      BY <2>1, StillStep DEF CleanupDiscard, facts, files, history
    <2>2. CASE Start(i)
      BY <2>2, StartStep
    <2>3. CASE CheckPins(i)
      BY <2>3, PinsStep
    <2>4. CASE Verify(i)
      BY <2>4, VerifyStep
    <2>5. CASE SnapshotIds(i)
      BY <2>5, SnapshotStep
    <2>6. CASE Promote(i)
      BY <2>6, PromoteStep
    <2>7. CASE \/ Frontier(i) \/ Research(i) \/ Build(i) \/ VerifyRaises(i)
               \/ ConsolidateBlocked(i) \/ CheckClaim(i)
               \/ SignMismatch(i) \/ SignFails(i) \/ Signed(i) \/ MarkFails(i)
               \/ Announce(i) \/ Raise(i) \/ CleanupNextTier(i) \/ CleanupEnd(i) \/ SkillFails(i)
      BY <2>7, GatesMove, QuietStep
    <2>8. CASE \/ Consolidate(i) \/ ConsolidateBuggy(i) \/ Sign(i) \/ MarkVerified(i)
               \/ TakePromotionLock(i) \/ PromoteFails(i) \/ CleanupLook(i)
               \/ WriteSkill(i) \/ MarkSkill(i) \/ HashSkill(i) \/ PromoteSkill(i)
      BY <2>8, CallsMove, QuietStep
    <2>9. QED
      BY <1>4, <2>1, <2>2, <2>3, <2>4, <2>5, <2>6, <2>7, <2>8 DEF Iterate
  <1>5. QED
    BY <1>1, <1>2, <1>3, <1>4 DEF Next

\* A promotion rests on a verification that took place (run_iteration, verify,
\* build_certificate): pins that held, graders that passed, attempts of the Critic
\* that failed, and two checkpoints that differ in substance.
THEOREM PromotionsHaveEvidence == Spec => []PromotedOnEvidence
  <1>1. Evidenced => PromotedOnEvidence
    BY CrossesInSubstance DEF Evidenced, Certified, GoodCertificate, Crosses, PromotedOnEvidence
  <1>2. QED
    BY EvidencedInit, EvidencedStep, <1>1, PTL DEF Spec

-----------------------------------------------------------------------------
(* The trail.  At every place of an iteration the log holds as much of the *)
(* evidence as was collected on the way there (Traced); a promotion is     *)
(* possible only where all of it is there, and what is logged after it is  *)
(* neither a refusal nor a rollback.                                       *)

\* The places on the way to a promotion, and the events logged before each.
Collecting ==
    {"waiting", "frontier", "research", "build", "verify", "certify", "certify-drifted",
     "snapshot", "consolidate", "consolidated", "sign", "signed",
     "mark", "marked", "promoting", "moved"}

EventsAt(place) ==
    CASE place = "waiting" -> 0
      [] place \in {"frontier", "research"} -> 1
      [] place = "build" -> 2
      [] place \in {"verify", "certify", "certify-drifted"} -> 3
      [] place \in {"snapshot", "consolidate", "consolidated"} -> 4
      [] place \in {"sign", "signed"} -> 5
      [] OTHER -> 6

\* Where an iteration may be after its promotion.
AfterPromote ==
    {"moved", "promoted", "raised", "skilled", "unskilled",
     "skill", "skill-written", "skill-marked", "skill-hashed"}

Announcements == {"iter.promoted", "post.halt"}

Kinds == {Evidence[n] : n \in 1 .. 6} \cup Announcements

Recorded(trail, k) ==
    /\ trail \in Seq(Kinds) /\ Len(trail) = k
    /\ \A n \in 1 .. k : trail[n] = Evidence[n]

Explained(trail) ==
    /\ trail \in Seq(Kinds) /\ Len(trail) >= 6
    /\ \A n \in 1 .. 6 : trail[n] = Evidence[n]
    /\ \A n \in DOMAIN trail : n > 6 => trail[n] \in Announcements

TracedAt(place, trail, done) ==
    /\ place \in Collecting => Recorded(trail, EventsAt(place))
    /\ done => place \in AfterPromote /\ Explained(trail)

Traced ==
    /\ DOMAIN pc = Iterations /\ DOMAIN log = Iterations /\ DOMAIN promoted = Iterations
    /\ \A i \in Iterations : TracedAt(pc[i], log[i], promoted[i])

\* The evidence of a promotion, in the order it is collected.
LEMMA EvidenceIs ==
    /\ Evidence[1] = "iter.start" /\ Evidence[2] = "plan.proposed"
    /\ Evidence[3] = "artifact.produced" /\ Evidence[4] = "verifier.cert"
    /\ Evidence[5] = "librarian.consolidate" /\ Evidence[6] = "auditor.signed"
  BY DEF Evidence

\* How many events come before each place.
LEMMA EventsAtIs ==
    /\ EventsAt("waiting") = 0 /\ EventsAt("frontier") = 1 /\ EventsAt("research") = 1
    /\ EventsAt("build") = 2 /\ EventsAt("verify") = 3 /\ EventsAt("certify") = 3
    /\ EventsAt("snapshot") = 4 /\ EventsAt("consolidated") = 4
    /\ EventsAt("sign") = 5 /\ EventsAt("signed") = 5 /\ EventsAt("mark") = 6
  BY DEF EventsAt

\* Sequences of one and of two.
LEMMA Pairs ==
    ASSUME NEW S, NEW a \in S, NEW b \in S
    PROVE  /\ <<a>> \in Seq(S) /\ Len(<<a>>) = 1 /\ <<a>>[1] = a
           /\ <<a, b>> \in Seq(S) /\ Len(<<a, b>>) = 2 /\ <<a, b>>[1] = a /\ <<a, b>>[2] = b
  OBVIOUS

\* A trail with the next piece of evidence.
LEMMA RecordedNext ==
    ASSUME NEW trail, NEW k \in 0 .. 5, Recorded(trail, k)
    PROVE  Recorded(trail \o <<Evidence[k + 1]>>, k + 1)
  <1>1. Evidence[k + 1] \in Kinds
    BY DEF Kinds
  <1> DEFINE more == <<Evidence[k + 1]>>
  <1>2. more \in Seq(Kinds) /\ Len(more) = 1 /\ more[1] = Evidence[k + 1]
    BY <1>1, Pairs
  <1> HIDE DEF more
  <1>3. /\ trail \o more \in Seq(Kinds) /\ Len(trail \o more) = k + 1
        /\ \A n \in 1 .. k + 1 : (trail \o more)[n] = IF n <= k THEN trail[n] ELSE more[n - k]
    <2>1. trail \in Seq(Kinds) /\ Len(trail) = k
      BY DEF Recorded
    <2>2. /\ trail \o more \in Seq(Kinds)
          /\ Len(trail \o more) = Len(trail) + Len(more)
          /\ \A n \in 1 .. Len(trail) + Len(more) :
                (trail \o more)[n] = IF n <= Len(trail) THEN trail[n] ELSE more[n - Len(trail)]
      BY <1>2, <2>1, ConcatProperties
    <2>3. QED
      BY <1>2, <2>1, <2>2
  <1>4. \A n \in 1 .. k + 1 : (trail \o more)[n] = Evidence[n]
    <2> TAKE n \in 1 .. k + 1
    <2>1. CASE n <= k
      BY <1>3, <2>1 DEF Recorded
    <2>2. CASE n = k + 1
      BY <1>2, <1>3, <2>2
    <2>3. n <= k \/ n = k + 1
      OBVIOUS
    <2>4. QED
      BY <2>1, <2>2, <2>3
  <1>5. QED
    BY <1>3, <1>4 DEF Recorded, more

\* A trail with all the evidence explains a promotion,
LEMMA RecordedAll ==
    ASSUME NEW trail, Recorded(trail, 6)
    PROVE  Explained(trail)
  <1>1. DOMAIN trail = 1 .. 6
    BY LenProperties DEF Recorded
  <1>2. QED
    BY <1>1 DEF Recorded, Explained

\* and still does when an announcement follows.
LEMMA ExplainedMore ==
    ASSUME NEW trail, Explained(trail),
           NEW more \in {<<"iter.promoted">>, <<"iter.promoted", "post.halt">>}
    PROVE  Explained(trail \o more)
  <1>1. more \in Seq(Kinds) /\ \A n \in 1 .. Len(more) : more[n] \in Announcements
    <2>1. /\ "iter.promoted" \in Kinds /\ "iter.promoted" \in Announcements
          /\ "post.halt" \in Kinds /\ "post.halt" \in Announcements
      BY DEF Kinds, Announcements
    <2>2. CASE more = <<"iter.promoted">>
      BY <2>1, <2>2, Pairs
    <2>3. CASE more = <<"iter.promoted", "post.halt">>
      <3>1. /\ more \in Seq(Kinds) /\ Len(more) = 2
            /\ more[1] = "iter.promoted" /\ more[2] = "post.halt"
        BY <2>1, <2>3, Pairs
      <3>2. QED
        BY <2>1, <3>1
    <2>4. QED
      BY <2>2, <2>3
  <1>2. trail \in Seq(Kinds) /\ Len(more) \in Nat /\ Len(trail) \in Nat /\ Len(trail) >= 6
    BY <1>1, LenProperties DEF Explained
  <1>3. /\ trail \o more \in Seq(Kinds) /\ Len(trail \o more) = Len(trail) + Len(more)
        /\ \A n \in 1 .. Len(trail) + Len(more) :
              (trail \o more)[n] = IF n <= Len(trail) THEN trail[n] ELSE more[n - Len(trail)]
    BY <1>1, <1>2, ConcatProperties
  <1>4. /\ DOMAIN (trail \o more) = 1 .. Len(trail) + Len(more)
        /\ DOMAIN trail = 1 .. Len(trail)
    BY <1>2, <1>3, LenProperties
  <1>5. ASSUME NEW n \in 1 .. Len(trail) + Len(more), n > 6
        PROVE  (trail \o more)[n] \in Announcements
    <2>1. CASE n <= Len(trail)
      BY <1>2, <1>3, <1>4, <1>5, <2>1 DEF Explained
    <2>2. CASE n > Len(trail)
      <3>1. n - Len(trail) \in 1 .. Len(more)
        BY <1>2, <2>2
      <3>2. QED
        BY <1>1, <1>2, <1>3, <2>2, <3>1
    <2>3. QED
      BY <1>2, <2>1, <2>2
  <1>6. \A n \in 1 .. 6 : (trail \o more)[n] = Evidence[n]
    BY <1>2, <1>3 DEF Explained
  <1>7. QED
    BY <1>2, <1>3, <1>4, <1>5, <1>6 DEF Explained

\* Nothing needs an explanation at the start.
LEMMA TracedInit == Init => Traced
  <1> SUFFICES ASSUME Init
               PROVE  Traced
    OBVIOUS
  <1>1. Recorded(<<>>, 0)
    BY EmptySeq DEF Recorded
  <1>2. QED
    BY <1>1 DEF Init, Traced, TracedAt, EventsAt

\* Only iteration i changes, and its trail goes on fitting its place.
LEMMA TracedOne ==
    ASSUME Traced, NEW i \in Iterations, NEW label,
           pc' = [pc EXCEPT ![i] = label],
           DOMAIN log' = Iterations, DOMAIN promoted' = Iterations,
           \A j \in Iterations \ {i} : log'[j] = log[j] /\ promoted'[j] = promoted[j],
           TracedAt(label, log'[i], promoted'[i])
    PROVE  Traced'
  <1>1. pc'[i] = label /\ \A j \in Iterations \ {i} : pc'[j] = pc[j]
    BY DEF Traced
  <1>2. \A j \in Iterations : TracedAt(pc'[j], log'[j], promoted'[j])
    BY <1>1 DEF Traced
  <1>3. DOMAIN pc' = Iterations
    BY DEF Traced
  <1>4. QED
    BY <1>2, <1>3 DEF Traced, TracedAt, Recorded, Explained

\* How a step may move iteration i and its trail: it leaves the way to a promotion,
Leaves(i, label) ==
    /\ pc' = [pc EXCEPT ![i] = label]
    /\ pc[i] \notin AfterPromote /\ label \notin Collecting
    /\ DOMAIN log' = Iterations /\ \A j \in Iterations \ {i} : log'[j] = log[j]
    /\ promoted' = promoted

\* goes on with nothing to log,
Rests(i, label) ==
    /\ pc' = [pc EXCEPT ![i] = label]
    /\ pc[i] \in Collecting \ {"moved"} /\ label \in Collecting
    /\ EventsAt(label) = EventsAt(pc[i])
    /\ \/ log' = log
       \/ log' = [log EXCEPT ![i] = @ \o <<>>]
    /\ promoted' = promoted

\* collects the next piece of evidence,
Collects(i, label, event) ==
    /\ pc' = [pc EXCEPT ![i] = label]
    /\ pc[i] \in Collecting \ {"moved"} /\ label \in Collecting
    /\ EventsAt(pc[i]) \in 0 .. 5 /\ EventsAt(label) = EventsAt(pc[i]) + 1
    /\ event = Evidence[EventsAt(label)]
    /\ log' = [log EXCEPT ![i] = @ \o <<event>>]
    /\ promoted' = promoted

\* or goes on after the promotion.
Settles(i, label) ==
    /\ pc' = [pc EXCEPT ![i] = label]
    /\ pc[i] \in AfterPromote /\ label \in AfterPromote \ {"moved"}
    /\ \/ log' = log
       \/ \E more \in {<<"iter.promoted">>, <<"iter.promoted", "post.halt">>} :
             log' = [log EXCEPT ![i] = @ \o more]
    /\ promoted' = promoted

\* An iteration that ends without a promotion needs no trail.
LEMMA LeavesTraced ==
    ASSUME Traced, NEW i \in Iterations, NEW label, Leaves(i, label)
    PROVE  Traced'
  <1>1. ~promoted[i]
    BY DEF Traced, TracedAt, Leaves
  <1>2. TracedAt(label, log'[i], promoted'[i])
    BY <1>1 DEF TracedAt, Leaves
  <1>3. DOMAIN promoted' = Iterations
    BY DEF Traced, Leaves
  <1>4. QED
    BY <1>2, <1>3, TracedOne DEF Leaves

\* One that goes on with nothing to log keeps its trail.
LEMMA RestsTraced ==
    ASSUME Traced, NEW i \in Iterations, NEW label, Rests(i, label)
    PROVE  Traced'
  <1>1. ~promoted[i] /\ Recorded(log[i], EventsAt(label))
    BY DEF Traced, TracedAt, Rests, AfterPromote, Collecting
  <1>2. log'[i] = log[i]
    <2>1. log[i] \o <<>> = log[i]
      BY <1>1, ConcatEmptySeq DEF Recorded
    <2>2. QED
      BY <2>1 DEF Rests, Traced
  <1>3. TracedAt(label, log'[i], promoted'[i])
    BY <1>1, <1>2 DEF TracedAt, Rests
  <1>4. /\ DOMAIN promoted' = Iterations /\ DOMAIN log' = Iterations
        /\ \A j \in Iterations \ {i} : log'[j] = log[j] /\ promoted'[j] = promoted[j]
    BY DEF Traced, Rests
  <1>5. QED
    BY <1>3, <1>4, TracedOne DEF Rests

\* One that collects the next piece of evidence extends it in order.
LEMMA CollectsTraced ==
    ASSUME Traced, NEW i \in Iterations, NEW label, NEW event, Collects(i, label, event)
    PROVE  Traced'
  <1>1. ~promoted[i] /\ Recorded(log[i], EventsAt(pc[i]))
    BY DEF Traced, TracedAt, Collects, AfterPromote, Collecting
  <1>2. Recorded(log[i] \o <<Evidence[EventsAt(label)]>>, EventsAt(label))
    BY <1>1, RecordedNext DEF Collects
  <1>3. log'[i] = log[i] \o <<Evidence[EventsAt(label)]>>
    BY DEF Traced, Collects
  <1>4. TracedAt(label, log'[i], promoted'[i])
    BY <1>1, <1>2, <1>3 DEF TracedAt, Collects
  <1>5. /\ DOMAIN promoted' = Iterations /\ DOMAIN log' = Iterations
        /\ \A j \in Iterations \ {i} : log'[j] = log[j] /\ promoted'[j] = promoted[j]
    BY DEF Traced, Collects
  <1>6. QED
    BY <1>4, <1>5, TracedOne DEF Collects

\* After the promotion only announcements follow.
LEMMA SettlesTraced ==
    ASSUME Traced, NEW i \in Iterations, NEW label, Settles(i, label)
    PROVE  Traced'
  <1>1. promoted[i] => Explained(log[i])
    BY DEF Traced, TracedAt
  <1>2. promoted[i] => Explained(log'[i])
    <2>1. CASE log' = log
      BY <1>1, <2>1
    <2>2. ASSUME NEW more \in {<<"iter.promoted">>, <<"iter.promoted", "post.halt">>},
                 log' = [log EXCEPT ![i] = @ \o more]
          PROVE  promoted[i] => Explained(log'[i])
      <3>1. log'[i] = log[i] \o more
        BY <2>2 DEF Traced
      <3>2. promoted[i] => Explained(log[i] \o more)
        BY <1>1, ExplainedMore
      <3>3. QED
        BY <3>1, <3>2
    <2>3. QED
      BY <2>1, <2>2 DEF Settles
  <1>3. TracedAt(label, log'[i], promoted'[i])
    BY <1>2 DEF TracedAt, Settles, AfterPromote, Collecting
  <1>4. /\ DOMAIN promoted' = Iterations /\ DOMAIN log' = Iterations
        /\ \A j \in Iterations \ {i} : log'[j] = log[j] /\ promoted'[j] = promoted[j]
    BY DEF Traced, Settles
  <1>5. QED
    BY <1>3, <1>4, TracedOne DEF Settles

\* Every way of rolling back.
LEMMA RefusalsLeave ==
    ASSUME Traced, NEW i \in Iterations, NEW from, NEW kinds,
           Tripped(i, from, kinds) \/ Refused(i, from, kinds),
           from \notin AfterPromote
    PROVE  Leaves(i, "rolled-back")
  <1>1. /\ pc[i] = from /\ pc' = [pc EXCEPT ![i] = "rolled-back"]
        /\ log' = [log EXCEPT ![i] = @ \o (kinds \o <<"iter.rolled_back">>)] \/
           log' = [log EXCEPT ![i] = @ \o ((kinds \o <<"tripwire.fired">>) \o <<"iter.rolled_back">>)]
        /\ promoted' = promoted
    BY DEF Tripped, Refused, Rollback, Goto, Emit, facts
  <1>2. "rolled-back" \notin Collecting
    BY DEF Collecting
  <1>3. QED
    BY <1>1, <1>2 DEF Leaves, Traced

\* The steps before the Librarian's.
LEMMA GatesTraced ==
    ASSUME Traced, NEW i \in Iterations,
           \/ Start(i) \/ Frontier(i) \/ Research(i) \/ Build(i)
           \/ CheckPins(i) \/ VerifyRaises(i)
    PROVE  Traced'
  <1>1. ASSUME NEW from \in {"frontier", "research", "build", "certify", "certify-drifted"},
               NEW kinds, Tripped(i, from, kinds) \/ Refused(i, from, kinds)
        PROVE  Traced'
    BY <1>1, RefusalsLeave, LeavesTraced DEF AfterPromote
  <1>2. ASSUME NEW from, NEW to, Passed(i, from, <<>>, to),
               from \in Collecting \ {"moved"}, to \in Collecting, EventsAt(to) = EventsAt(from)
        PROVE  Traced'
    <2>1. Rests(i, to)
      BY <1>2 DEF Rests, Passed, Goto, Emit, facts
    <2>2. QED
      BY <2>1, RestsTraced
  <1>3. CASE Start(i)
    <2>1. Collects(i, "frontier", "iter.start")
      BY <1>3, EvidenceIs, EventsAtIs DEF Start, Collects, Collecting, Goto, Emit, facts
    <2>2. QED
      BY <2>1, CollectsTraced
  <1>4. CASE Frontier(i)
    <2>1. "frontier" \in Collecting \ {"moved"} /\ "research" \in Collecting
          /\ EventsAt("frontier") = EventsAt("research")
      BY DEF Collecting, EventsAt
    <2>2. QED
      BY <1>1, <1>2, <1>4, <2>1 DEF Frontier
  <1>5. CASE Research(i)
    <2>1. ASSUME Passed(i, "research", <<"plan.proposed">>, "build")
          PROVE  Collects(i, "build", "plan.proposed")
      BY <2>1, EvidenceIs, EventsAtIs DEF Passed, Collects, Collecting, Goto, Emit, facts
    <2>2. QED
      BY <1>1, <1>5, <2>1, CollectsTraced DEF Research
  <1>6. CASE Build(i)
    <2>1. ASSUME Passed(i, "build", <<"artifact.produced">>, "verify")
          PROVE  Collects(i, "verify", "artifact.produced")
      BY <2>1, EvidenceIs, EventsAtIs DEF Passed, Collects, Collecting, Goto, Emit, facts
    <2>2. QED
      BY <1>1, <1>6, <2>1, CollectsTraced DEF Build
  <1>7. CASE CheckPins(i)
    <2>1. /\ "verify" \in Collecting \ {"moved"}
          /\ \A to \in {"certify", "certify-drifted"} :
                to \in Collecting /\ EventsAt("verify") = EventsAt(to)
      BY DEF Collecting, EventsAt
    <2>2. QED
      BY <1>2, <1>7, <2>1 DEF CheckPins
  <1>8. CASE VerifyRaises(i)
    BY <1>1, <1>8 DEF VerifyRaises
  <1>9. QED
    BY <1>3, <1>4, <1>5, <1>6, <1>7, <1>8

\* The steps of the verification keep the trails.
LEMMA VerifyTraced ==
    ASSUME Traced, NEW i \in Iterations, Verify(i)
    PROVE  Traced'
  <1>1. PICK results \in [Graders -> BOOLEAN], answer \in CriticAnswers :
            LET built == Certificate(results, Findings(answer)) IN
            IF built.passed
            THEN /\ cert' = [cert EXCEPT ![i] = built]
                 /\ Emit(i, <<"verifier.cert">>)
                 /\ Goto(i, "snapshot")
            ELSE Rollback(i, <<"verifier.cert">>) /\ UNCHANGED cert
    BY DEF Verify
  <1>2. promoted' = promoted /\ pc[i] = "certify"
    BY DEF Verify
  <1>3. CASE Emit(i, <<"verifier.cert">>) /\ Goto(i, "snapshot")
    <2>1. Collects(i, "snapshot", "verifier.cert")
      BY <1>2, <1>3, EvidenceIs, EventsAtIs DEF Collects, Collecting, Goto, Emit
    <2>2. QED
      BY <2>1, CollectsTraced
  <1>4. CASE Rollback(i, <<"verifier.cert">>)
    <2>1. Leaves(i, "rolled-back")
      BY <1>2, <1>4 DEF Leaves, Traced, Rollback, Goto, Emit, AfterPromote, Collecting
    <2>2. QED
      BY <2>1, LeavesTraced
  <1>5. QED
    BY <1>1, <1>3, <1>4

\* The steps from the Librarian to the promotion, and the cleanup.
LEMMA CallsTraced ==
    ASSUME Traced, NEW i \in Iterations,
           \/ SnapshotIds(i) \/ Consolidate(i) \/ ConsolidateBuggy(i) \/ CheckClaim(i)
           \/ Sign(i) \/ SignMismatch(i) \/ Signed(i) \/ MarkVerified(i) \/ TakePromotionLock(i)
           \/ PromoteFails(i) \/ CleanupLook(i) \/ CleanupNextTier(i) \/ CleanupEnd(i)
           \/ ConsolidateBlocked(i) \/ SignFails(i) \/ MarkFails(i)
    PROVE  Traced'
  <1>1. CASE SnapshotIds(i)
    <2>1. CASE scan[i] + 1 = Len(TierOrder)
      <3>1. Rests(i, "consolidate")
        BY <1>1, <2>1 DEF SnapshotIds, Rests, EventsAt, Collecting, Goto, facts
      <3>2. QED
        BY <3>1, RestsTraced
    <2>2. CASE scan[i] + 1 # Len(TierOrder)
      <3>1. UNCHANGED <<pc, log, promoted>>
        BY <1>1, <2>2 DEF SnapshotIds, facts
      <3>2. QED
        BY <3>1 DEF Traced, TracedAt, Recorded, Explained
    <2>3. QED
      BY <2>1, <2>2
  <1>2. CASE Consolidate(i) \/ ConsolidateBuggy(i)
    <2>1. Rests(i, "consolidated")
      BY <1>2 DEF Consolidate, ConsolidateBuggy, Write, Rests, EventsAt, Collecting, Goto
    <2>2. QED
      BY <2>1, RestsTraced
  <1>3. CASE CheckClaim(i)
    <2>1. CASE ClaimHolds(i)
      <3>1. Collects(i, "sign", "librarian.consolidate")
        BY <1>3, <2>1, EvidenceIs, EventsAtIs DEF CheckClaim, Collects, Collecting, Goto, Emit, facts
      <3>2. QED
        BY <3>1, CollectsTraced
    <2>2. CASE ~ClaimHolds(i)
      <3>1. Leaves(i, "cleanup")
        BY <1>3, <2>2 DEF CheckClaim, Leaves, Traced, AfterPromote, Collecting, Goto, Emit, facts
      <3>2. QED
        BY <3>1, LeavesTraced
    <2>3. QED
      BY <2>1, <2>2
  <1>4. CASE Sign(i)
    <2>1. Rests(i, "signed")
      BY <1>4 DEF Sign, Rests, EventsAt, Collecting, Goto
    <2>2. QED
      BY <2>1, RestsTraced
  <1>5. CASE SignMismatch(i)
    <2>1. Leaves(i, "cleanup")
      BY <1>5 DEF SignMismatch, Leaves, Traced, AfterPromote, Collecting, Goto, facts
    <2>2. QED
      BY <2>1, LeavesTraced
  <1>6. CASE Signed(i)
    <2>1. CASE Tripped(i, "signed", <<"auditor.signed">>)
      <3>1. "signed" \notin AfterPromote
        BY DEF AfterPromote
      <3>2. QED
        BY <2>1, <3>1, RefusalsLeave, LeavesTraced
    <2>2. CASE Passed(i, "signed", <<"auditor.signed">>, "mark")
      <3>1. Collects(i, "mark", "auditor.signed")
        BY <2>2, EvidenceIs, EventsAtIs DEF Passed, Collects, Collecting, Goto, Emit, facts
      <3>2. QED
        BY <3>1, CollectsTraced
    <2>3. QED
      BY <1>6, <2>1, <2>2 DEF Signed
  <1>7. CASE MarkVerified(i)
    <2>1. Rests(i, "marked")
      BY <1>7 DEF MarkVerified, Rests, EventsAt, Collecting, Goto, facts
    <2>2. QED
      BY <2>1, RestsTraced
  <1>8. CASE TakePromotionLock(i)
    <2>1. Rests(i, "promoting")
      BY <1>8 DEF TakePromotionLock, Rests, EventsAt, Collecting, Goto, facts
    <2>2. QED
      BY <2>1, RestsTraced
  <1>9. CASE PromoteFails(i)
    <2>1. Leaves(i, "rolled-back")
      BY <1>9 DEF PromoteFails, Rollback, Leaves, Traced, AfterPromote, Collecting, Goto, Emit
    <2>2. QED
      BY <2>1, LeavesTraced
  <1>10. CASE CleanupLook(i)
    <2>1. Leaves(i, "discarding")
      BY <1>10 DEF CleanupLook, Leaves, Traced, AfterPromote, Collecting, Goto, facts
    <2>2. QED
      BY <2>1, LeavesTraced
  <1>11. CASE CleanupNextTier(i)
    <2>1. Leaves(i, "cleanup")
      BY <1>11 DEF CleanupNextTier, Leaves, Traced, AfterPromote, Collecting, Goto, facts
    <2>2. QED
      BY <2>1, LeavesTraced
  <1>12. CASE CleanupEnd(i)
    <2>1. Leaves(i, "mismatched")
      BY <1>12 DEF CleanupEnd, Leaves, Traced, AfterPromote, Collecting, Goto, Emit, facts
    <2>2. QED
      BY <2>1, LeavesTraced
  <1>13. CASE ConsolidateBlocked(i) \/ SignFails(i) \/ MarkFails(i)
    <2>1. "consolidate" \notin AfterPromote /\ "sign" \notin AfterPromote /\ "mark" \notin AfterPromote
      BY DEF AfterPromote
    <2>2. QED
      BY <1>13, <2>1, RefusalsLeave, LeavesTraced DEF ConsolidateBlocked, SignFails, MarkFails
  <1>14. QED
    BY <1>1, <1>2, <1>3, <1>4, <1>5, <1>6, <1>7, <1>8, <1>9, <1>10, <1>11, <1>12, <1>13

\* At the promotion all of the evidence is logged.
LEMMA PromoteTraced ==
    ASSUME Traced, NEW i \in Iterations, Promote(i)
    PROVE  Traced'
  <1>1. /\ pc[i] = "promoting" /\ pc' = [pc EXCEPT ![i] = "moved"]
        /\ promoted' = [promoted EXCEPT ![i] = TRUE] /\ log' = log
    BY DEF Promote, Goto
  <1>2. Recorded(log[i], 6)
    BY <1>1 DEF Traced, TracedAt, EventsAt, Collecting
  <1>3. Explained(log[i])
    BY <1>2, RecordedAll
  <1>4. TracedAt("moved", log[i], TRUE)
    BY <1>2, <1>3 DEF TracedAt, EventsAt, AfterPromote
  <1>5. TracedAt("moved", log'[i], promoted'[i])
    BY <1>1, <1>4 DEF Traced
  <1>6. /\ DOMAIN log' = Iterations /\ DOMAIN promoted' = Iterations
        /\ \A j \in Iterations \ {i} : log'[j] = log[j] /\ promoted'[j] = promoted[j]
    BY <1>1 DEF Traced
  <1>7. QED
    BY <1>1, <1>5, <1>6, TracedOne

\* What an iteration and its skill do after the promotion.
LEMMA SettlingTraced ==
    ASSUME Traced, NEW i \in Iterations,
           \/ Announce(i) \/ WriteSkill(i) \/ MarkSkill(i) \/ HashSkill(i) \/ PromoteSkill(i)
           \/ SkillFails(i)
    PROVE  Traced'
  <1> USE DEF Settles, AfterPromote, Goto, facts
  <1>1. CASE Announce(i)
    <2>1. Settles(i, "promoted") \/ Settles(i, "skill")
      BY <1>1 DEF Announce, Emit
    <2>2. QED
      BY <2>1, SettlesTraced
  <1>2. CASE WriteSkill(i)
    <2>1. Settles(i, "skill-written")
      BY <1>2 DEF WriteSkill
    <2>2. QED
      BY <2>1, SettlesTraced
  <1>3. CASE MarkSkill(i)
    <2>1. Settles(i, "skill-marked")
      BY <1>3 DEF MarkSkill
    <2>2. QED
      BY <2>1, SettlesTraced
  <1>4. CASE HashSkill(i)
    <2>1. Settles(i, "skill-hashed")
      BY <1>4 DEF HashSkill
    <2>2. QED
      BY <2>1, SettlesTraced
  <1>5. CASE PromoteSkill(i)
    <2>1. Settles(i, "skilled")
      BY <1>5 DEF PromoteSkill
    <2>2. QED
      BY <2>1, SettlesTraced
  <1>6. CASE SkillFails(i)
    <2>1. Settles(i, "unskilled")
      BY <1>6 DEF SkillFails, InSkillPath
    <2>2. QED
      BY <2>1, SettlesTraced
  <1>7. QED
    BY <1>1, <1>2, <1>3, <1>4, <1>5, <1>6

\* An iteration that raises keeps the trails.
LEMMA RaiseTraced ==
    ASSUME Traced, NEW i \in Iterations, Raise(i)
    PROVE  Traced'
  <1>1. CASE pc[i] = "moved"
    <2>1. Settles(i, "raised")
      BY <1>1 DEF Raise, Settles, AfterPromote, Goto, facts
    <2>2. QED
      BY <2>1, SettlesTraced
  <1>2. CASE pc[i] # "moved"
    <2>1. pc[i] \notin AfterPromote
      BY <1>2 DEF Raise, InFlight, Ended, InSkillPath, AfterPromote
    <2>2. Leaves(i, "raised")
      BY <2>1 DEF Raise, Leaves, Traced, Collecting, Goto, Emit, facts
    <2>3. QED
      BY <2>2, LeavesTraced
  <1>3. QED
    BY <1>1, <1>2

\* Every step keeps the trails.
LEMMA TracedStep == Traced /\ [Next]_vars => Traced'
  <1> SUFFICES ASSUME Traced, [Next]_vars
               PROVE  Traced'
    OBVIOUS
  <1>1. ASSUME UNCHANGED <<pc, log, promoted>>
        PROVE  Traced'
    BY <1>1 DEF Traced, TracedAt, Recorded, Explained
  <1>2. CASE UNCHANGED vars \/ Halt \/ EditGraders
    BY <1>1, <1>2 DEF vars, Halt, EditGraders, facts
  <1>3. ASSUME NEW i \in Iterations, Iterate(i)
        PROVE  Traced'
    <2>1. CASE CleanupDiscard(i)
      BY <1>1, <2>1 DEF CleanupDiscard, facts
    <2>2. CASE \/ Start(i) \/ Frontier(i) \/ Research(i) \/ Build(i)
               \/ CheckPins(i) \/ VerifyRaises(i)
      BY <2>2, GatesTraced
    <2>3. CASE \/ SnapshotIds(i) \/ Consolidate(i) \/ ConsolidateBuggy(i) \/ CheckClaim(i)
               \/ Sign(i) \/ SignMismatch(i) \/ Signed(i) \/ MarkVerified(i) \/ TakePromotionLock(i)
               \/ PromoteFails(i) \/ CleanupLook(i) \/ CleanupNextTier(i) \/ CleanupEnd(i)
               \/ ConsolidateBlocked(i) \/ SignFails(i) \/ MarkFails(i)
      BY <2>3, CallsTraced
    <2>4. CASE \/ Announce(i) \/ WriteSkill(i) \/ MarkSkill(i) \/ HashSkill(i) \/ PromoteSkill(i)
               \/ SkillFails(i)
      BY <2>4, SettlingTraced
    <2>5. QED
      BY <1>3, <2>1, <2>2, <2>3, <2>4, VerifyTraced, PromoteTraced, RaiseTraced DEF Iterate
  <1>4. QED
    BY <1>2, <1>3 DEF Next

\* An explained promotion has the trail LiveHasTrail asks for.
LEMMA ExplainedHasTrail ==
    ASSUME NEW trail, Explained(trail)
    PROVE  /\ Len(trail) >= Len(Evidence)
           /\ SubSeq(trail, 1, Len(Evidence)) = Evidence
           /\ \A n \in DOMAIN trail :
                 n > Len(Evidence) => trail[n] \in {"iter.promoted", "post.halt"}
  <1>1. /\ Len(Evidence) = 6 /\ Evidence \in Seq(Kinds) /\ DOMAIN Evidence = 1 .. 6
    <2>1. Len(Evidence) = 6 /\ DOMAIN Evidence = 1 .. 6
      BY DEF Evidence
    <2>2. /\ Evidence[1] \in Kinds /\ Evidence[2] \in Kinds /\ Evidence[3] \in Kinds
          /\ Evidence[4] \in Kinds /\ Evidence[5] \in Kinds /\ Evidence[6] \in Kinds
      BY DEF Kinds
    <2>3. Evidence \in Seq(Kinds)
      BY <2>2, EvidenceIs DEF Evidence
    <2>4. QED
      BY <2>1, <2>3
  <1>2. trail \in Seq(Kinds) /\ Len(trail) \in Nat /\ Len(trail) >= 6
    BY LenProperties DEF Explained
  <1>3. /\ SubSeq(trail, 1, 6) \in Seq(Kinds) /\ Len(SubSeq(trail, 1, 6)) = 6
        /\ \A n \in 1 .. 6 : SubSeq(trail, 1, 6)[n] = trail[n]
    BY <1>2, SubSeqProperties
  <1>4. SubSeq(trail, 1, 6) = Evidence
    BY <1>1, <1>3, SeqEqual DEF Explained
  <1>5. QED
    BY <1>1, <1>2, <1>4 DEF Explained, Announcements

\* A promotion is explained by the log before it happens (run_iteration): when an
\* entry goes live, the log holds the iteration's plan, artifact, certificate,
\* consolidation and signature in this order, and never a refusal afterwards.
THEOREM PromotionsHaveTrail == Spec => []LiveHasTrail
  <1>1. Traced => LiveHasTrail
    BY ExplainedHasTrail DEF Traced, TracedAt, LiveHasTrail
  <1>2. QED
    BY TracedInit, TracedStep, <1>1, PTL DEF Spec

-----------------------------------------------------------------------------
(***************************************************************************)
(* Part 2.  The tiers of the memory hierarchy.                             *)
(*                                                                         *)
(* Everything rests on the shape of the state (Shape): where an iteration  *)
(* is in run_iteration says what it has (Fits): an entry once the          *)
(* Librarian returned one, a precondition once the Auditor signed, the     *)
(* right to write its target tier once it was promoted.  Most steps only   *)
(* move an iteration on (Walks); the others are summarised by what they    *)
(* change of the stores (Wrote, Marked, Moved, Discards, SkillWritten,     *)
(* PreSet), and each proof below goes by these summaries.                  *)
(***************************************************************************)

\* The places before the Librarian is called, after it and before the promotion,
\* and in the skill path once the skill is written.
Early == {"waiting", "frontier", "research", "build", "verify", "certify", "certify-drifted"}

BeforeEntry == Early \cup {"snapshot", "consolidate"}

Sealed == {"signed", "mark", "marked", "promoting"}

OnTheWay == {"consolidated", "sign"} \cup Sealed

Cleaning == {"cleanup", "discarding"}

WithSkill == {"skill-written", "skill-marked", "skill-hashed"}

Places ==
    BeforeEntry \cup OnTheWay \cup Cleaning \cup {"moved", "skill"} \cup WithSkill \cup Ended

EntryRecords == [id : EntryIds \cup {None}, tier : Tiers \cup {None}, by : {"honest", "buggy", None}]

SkillRecords == [id : EntryIds \cup {None}, pre : Dict \cup {None}]

Typed ==
    /\ candidate \in [Tiers -> Dict] /\ live \in [Tiers -> Dict]
    /\ archive \in [Tiers -> SUBSET Archived] /\ DOMAIN promotions = Tiers
    /\ pc \in [Iterations -> Places] /\ target \in [Iterations -> Tiers]
    /\ entry \in [Iterations -> EntryRecords] /\ why \in [Iterations -> Dict \cup {None}]
    /\ pre \in [Iterations -> [Tiers -> SUBSET EntryIds]]
    /\ scan \in [Iterations -> 0 .. Len(TierOrder)]
    /\ doomed \in [Iterations -> SUBSET EntryIds]
    /\ skill \in [Iterations -> SkillRecords]
    /\ DOMAIN promoted = Iterations

OneInside == \A i \in Iterations : promotionLock = i <=> pc[i] = "promoting"

\* What an iteration has at each place.
Fits(i) ==
    /\ pc[i] \in BeforeEntry => entry[i] = NoEntry /\ ~promoted[i]
    /\ pc[i] \in OnTheWay \cup Cleaning => entry[i].id \in EntryIds /\ entry[i].tier \in Tiers
    /\ pc[i] \in Sealed => entry[i].tier = target[i] /\ why[i] \in Dict
    /\ pc[i] \in Early \cup {"consolidate", "consolidated", "sign"} => scan[i] = 0
    /\ pc[i] \in {"snapshot", "discarding"} => scan[i] < Len(TierOrder)
    /\ pc[i] \in {"moved", "skill", "skilled"} \cup WithSkill =>
          promoted[i] /\ MayWriteTier("librarian", target[i])
    /\ pc[i] \notin WithSkill \cup {"skilled", "unskilled"} => skill[i] = NoSkill
    /\ pc[i] \in WithSkill \cup {"skilled"} => skill[i].id \in EntryIds
    /\ pc[i] = "skill-hashed" => skill[i].pre \in Dict
    /\ pc[i] \in {"skill"} \cup WithSkill => i \in SkillMakers

Fitting == \A i \in Iterations : Fits(i)

Shape == Typed /\ OneInside /\ Fitting

\* tier_names() is a list of tiers.
LEMMA TierList ==
    /\ Len(TierOrder) \in Nat
    /\ \A n \in 1 .. Len(TierOrder) : TierOrder[n] \in Tiers
    /\ \A t \in Tiers : \E n \in 1 .. Len(TierOrder) : TierOrder[n] = t
  <1>1. TierOrder \in Seq(TierNames)
    BY CoordinatorParameters
  <1>2. DOMAIN TierOrder = 1 .. Len(TierOrder) /\ Len(TierOrder) \in Nat
    BY <1>1, LenProperties
  <1>3. QED
    BY <1>2 DEF Tiers

\* The tier a loop over the tiers has come to.
LEMMA NextTier ==
    ASSUME NEW n \in Nat, n < Len(TierOrder)
    PROVE  n + 1 \in 1 .. Len(TierOrder) /\ TierOrder[n + 1] \in Tiers
  BY TierList

\* A dictionary and what the calls make of it.
LEMMA DictCalls ==
    ASSUME NEW dict \in Dict
    PROVE  /\ EmptyDict \in Dict
           /\ \A ids : Remove(dict, ids) \in Dict
           /\ \A id \in EntryIds, e \in Entry : Overwrite(dict, [k \in {id} |-> e]) \in Dict
           /\ \A id \in EntryIds : VerifyAccepts(dict, <<id>>) => MarkedVerified(dict, <<id>>) \in Dict
           /\ \A id \in EntryIds, l \in Dict : dict[id] # Absent => Promoted(dict, l, <<id>>) \in Dict
  <1>1. EmptyDict \in Dict /\ \A ids : Remove(dict, ids) \in Dict
    BY DEF Dict, EmptyDict, Remove
  <1>2. \A id \in EntryIds, e \in Entry : Overwrite(dict, [k \in {id} |-> e]) \in Dict
    BY DEF Dict, Overwrite
  <1>3. \A e \in Entry : [e EXCEPT !.trust = VERIFIED] \in Entry /\ [e EXCEPT !.trust = PROMOTED] \in Entry
    BY DEF Entry, TrustLevels, VERIFIED, PROMOTED, DEPRECATED
  <1>4. \A id : Named(<<id>>) = {id}
    BY DEF Named
  <1>5. ASSUME NEW id \in EntryIds, VerifyAccepts(dict, <<id>>)
        PROVE  MarkedVerified(dict, <<id>>) \in Dict
    <2>1. dict[id] \in Entry
      BY <1>4, <1>5 DEF VerifyAccepts, Dict
    <2>2. [dict[id] EXCEPT !.trust = VERIFIED] \in Entry
      BY <1>3, <2>1
    <2>3. MarkedVerified(dict, <<id>>) =
              [k \in EntryIds |-> IF k = id /\ dict[id].trust < VERIFIED
                                  THEN [dict[id] EXCEPT !.trust = VERIFIED] ELSE dict[k]]
      BY <1>4 DEF MarkedVerified
    <2>4. QED
      BY <2>2, <2>3 DEF Dict
  <1>6. ASSUME NEW id \in EntryIds, NEW l \in Dict, dict[id] # Absent
        PROVE  Promoted(dict, l, <<id>>) \in Dict
    <2>1. dict[id] \in Entry
      BY <1>6 DEF Dict
    <2>2. [dict[id] EXCEPT !.trust = PROMOTED] \in Entry
      BY <1>3, <2>1
    <2>3. Promoted(dict, l, <<id>>) =
              [k \in EntryIds |-> IF k = id THEN [dict[id] EXCEPT !.trust = PROMOTED] ELSE l[k]]
      BY <1>4 DEF Promoted
    <2>4. QED
      BY <2>2, <2>3 DEF Dict
  <1>7. QED
    BY <1>1, <1>2, <1>5, <1>6

\* What the Librarian and the skill library write.
LEMMA WrittenIsEntry ==
    ASSUME NEW i \in Iterations, NEW stamp \in {i, None}
    PROVE  [content |-> i, trust |-> CANDIDATE, writer |-> stamp, reason |-> None] \in Entry
  BY CoordinatorParameters DEF Entry, TrustLevels, CANDIDATE, DEPRECATED, PROMOTED

\* Before the first iteration everything is empty.
LEMMA ShapeInit == Init => Shape
  <1> SUFFICES ASSUME Init PROVE Shape
    OBVIOUS
  <1>1. EmptyDict \in Dict
    BY DEF EmptyDict, Dict
  <1>2. NoEntry \in EntryRecords /\ NoSkill \in SkillRecords /\ NoPre \in [Tiers -> SUBSET EntryIds]
    BY DEF NoEntry, NoSkill, NoPre, EntryRecords, SkillRecords
  <1>3. 0 \in 0 .. Len(TierOrder)
    BY TierList
  <1>4. Typed
    BY <1>1, <1>2, <1>3 DEF Init, Typed, Places, BeforeEntry, Early
  <1>5. OneInside
    BY CoordinatorParameters DEF Init, OneInside
  <1>6. Fitting
    BY DEF Init, Fitting, Fits, BeforeEntry, Early, OnTheWay, Sealed, Cleaning, WithSkill
  <1>7. QED
    BY <1>4, <1>5, <1>6 DEF Shape

\* Another iteration still fits when a step leaves what is its own alone.
LEMMA FitsOther ==
    ASSUME NEW j, Fits(j), pc'[j] = pc[j], entry'[j] = entry[j], promoted'[j] = promoted[j],
           target'[j] = target[j], why'[j] = why[j], scan'[j] = scan[j], skill'[j] = skill[j]
    PROVE  Fits(j)'
  BY DEF Fits

\* A step that leaves the stores, and what an iteration knows, alone and moves it on.
Onward(i, to) ==
    \/ pc[i] \in (BeforeEntry \cup OnTheWay) \ {"promoting"} /\ to = "rolled-back"
    \/ pc[i] \in Early /\ to \in (Early \ {"waiting"}) \cup {"snapshot"}
    \/ pc[i] = "consolidated" /\ to \in {"sign", "cleanup"}
    \/ pc[i] = "sign" /\ to = "cleanup"
    \/ pc[i] = "signed" /\ to = "mark"
    \/ pc[i] = "moved" /\ to = "promoted"
    \/ pc[i] = "moved" /\ to = "skill" /\ i \in SkillMakers
    \/ pc[i] = "cleanup" /\ scan[i] = Len(TierOrder) /\ to = "mismatched"

Walks(i, to) ==
    /\ Onward(i, to)
    /\ pc' = [pc EXCEPT ![i] = to]
    /\ UNCHANGED <<stores, target, entry, why, promoted, skill, cleaning, promotionLock>>

\* The gates walk on.
LEMMA GatesWalk ==
    ASSUME NEW i \in Iterations,
           \/ Start(i) \/ Frontier(i) \/ Research(i) \/ Build(i) \/ CheckPins(i) \/ VerifyRaises(i)
           \/ Verify(i) \/ ConsolidateBlocked(i) \/ CheckClaim(i) \/ SignMismatch(i) \/ SignFails(i)
           \/ Signed(i) \/ MarkFails(i) \/ Announce(i) \/ CleanupEnd(i)
    PROVE  \E to : Walks(i, to)
  <1> USE DEF Walks, Onward, Early, BeforeEntry, OnTheWay, Sealed, Goto, facts
  <1>1. CASE Start(i)
    BY <1>1 DEF Start
  <1>2. CASE Frontier(i) \/ Build(i) \/ Signed(i)
    BY <1>2 DEF Frontier, Build, Signed, Tripped, Refused, Passed, Rollback
  <1>3. CASE Research(i)
    BY <1>3 DEF Research, Tripped, Refused, Passed, Rollback
  <1>4. CASE CheckPins(i) \/ VerifyRaises(i)
    BY <1>4 DEF CheckPins, VerifyRaises, Refused, Passed, Rollback
  <1>5. CASE Verify(i)
    BY <1>5 DEF Verify, Rollback
  <1>6. CASE ConsolidateBlocked(i) \/ SignFails(i) \/ MarkFails(i)
    BY <1>6 DEF ConsolidateBlocked, SignFails, MarkFails, Refused, Rollback
  <1>7. CASE CheckClaim(i)
    BY <1>7 DEF CheckClaim
  <1>8. CASE SignMismatch(i) \/ Announce(i) \/ CleanupEnd(i)
    BY <1>8 DEF SignMismatch, Announce, CleanupEnd
  <1>9. QED
    BY <1>1, <1>2, <1>3, <1>4, <1>5, <1>6, <1>7, <1>8

\* and keep the shape.
LEMMA WalkShape ==
    ASSUME Shape, NEW i \in Iterations, NEW to, Walks(i, to)
    PROVE  Shape'
  <1>1. /\ pc' = [pc EXCEPT ![i] = to] /\ Onward(i, to)
        /\ UNCHANGED <<candidate, live, archive, promotions, target, entry, why, promoted, skill,
                       pre, scan, doomed, promotionLock>>
    BY DEF Walks, stores, cleaning
  <1>2. DOMAIN pc = Iterations
    BY DEF Shape, Typed
  <1>3. to \in Places
    BY <1>1 DEF Onward, Places, BeforeEntry, Early, OnTheWay, Sealed, Cleaning, Ended
  <1>4. Typed'
    BY <1>1, <1>3 DEF Shape, Typed
  <1>5. to # "promoting" /\ pc[i] # "promoting"
    BY <1>1 DEF Onward, Early, BeforeEntry
  <1>6. OneInside'
    BY <1>1, <1>2, <1>5 DEF Shape, OneInside
  <1>7. Fits(i)'
    <2>1. Fits(i)
      BY DEF Shape, Fitting
    <2>2. Len(TierOrder) \in Nat /\ Len(TierOrder) # 0 /\ pc'[i] = to
      BY <1>1, <1>2, TierList DEF Shape, Typed
    <2>3. scan[i] \in Nat
      BY TierList DEF Shape, Typed
    <2>4. /\ to \in BeforeEntry => pc[i] \in BeforeEntry
          /\ to \in OnTheWay \cup Cleaning => pc[i] \in OnTheWay \cup Cleaning
          /\ to \in Sealed => pc[i] \in Sealed
          /\ to \in Early \cup {"consolidate", "consolidated", "sign", "snapshot"} =>
                pc[i] \in Early \cup {"consolidated"}
          /\ to # "discarding"
          /\ to \in {"moved", "skill", "skilled"} \cup WithSkill => pc[i] = "moved"
          /\ pc[i] \notin WithSkill \cup {"skilled", "unskilled"}
          /\ to \notin WithSkill \cup {"skilled"}
          /\ to = "skill" => i \in SkillMakers
      BY <1>1 DEF Onward, BeforeEntry, Early, OnTheWay, Sealed, Cleaning, WithSkill
    <2>5. /\ entry'[i] = entry[i] /\ promoted'[i] = promoted[i] /\ target'[i] = target[i]
          /\ why'[i] = why[i] /\ scan'[i] = scan[i] /\ skill'[i] = skill[i]
      BY <1>1
    <2>6. /\ pc'[i] \in BeforeEntry => entry'[i] = NoEntry /\ ~promoted'[i]
          /\ pc'[i] \in OnTheWay \cup Cleaning => entry'[i].id \in EntryIds /\ entry'[i].tier \in Tiers
          /\ pc'[i] \in Sealed => entry'[i].tier = target'[i] /\ why'[i] \in Dict
      BY <2>1, <2>2, <2>4, <2>5 DEF Fits
    <2>7. /\ pc'[i] \in Early \cup {"consolidate", "consolidated", "sign"} => scan'[i] = 0
          /\ pc'[i] \in {"snapshot", "discarding"} => scan'[i] < Len(TierOrder)
      BY <2>1, <2>2, <2>3, <2>4, <2>5 DEF Fits
    <2>8. /\ pc'[i] \in {"moved", "skill", "skilled"} \cup WithSkill =>
                promoted'[i] /\ MayWriteTier("librarian", target'[i])
          /\ skill'[i] = NoSkill /\ pc'[i] \notin WithSkill \cup {"skilled"} /\ pc'[i] # "skill-hashed"
          /\ pc'[i] \in {"skill"} \cup WithSkill => i \in SkillMakers
      BY <2>1, <2>2, <2>4, <2>5 DEF Fits, WithSkill
    <2>9. QED
      BY <2>6, <2>7, <2>8 DEF Fits
  <1>8. Fitting'
    <2> SUFFICES ASSUME NEW j \in Iterations PROVE Fits(j)'
      BY DEF Fitting
    <2>1. CASE j # i
      BY <1>1, <1>2, <2>1, FitsOther DEF Shape, Fitting
    <2>2. QED
      BY <1>7, <2>1
  <1>9. QED
    BY <1>4, <1>6, <1>8 DEF Shape

\* The halt and the edits of the grader files are not the stores' business.
LEMMA IdleShape ==
    ASSUME Shape, UNCHANGED <<stores, pc, target, entry, why, promoted, skill, cleaning, promotionLock>>
    PROVE  Shape'
  <1>1. UNCHANGED <<candidate, live, archive, promotions, pc, target, entry, why, promoted, skill,
                    pre, scan, doomed, promotionLock>>
    BY DEF stores, cleaning
  <1>2. Typed' /\ OneInside'
    BY <1>1 DEF Shape, Typed, OneInside
  <1>3. Fitting'
    BY <1>1, FitsOther DEF Shape, Fitting
  <1>4. QED
    BY <1>2, <1>3 DEF Shape

\* A step that moves one iteration keeps the others in place.
LEMMA OthersFit ==
    ASSUME Shape, NEW i \in Iterations,
           \A j \in Iterations \ {i} :
               /\ pc'[j] = pc[j] /\ entry'[j] = entry[j] /\ promoted'[j] = promoted[j]
               /\ target'[j] = target[j] /\ why'[j] = why[j] /\ scan'[j] = scan[j] /\ skill'[j] = skill[j],
           Fits(i)'
    PROVE  Fitting'
  <1> SUFFICES ASSUME NEW j \in Iterations PROVE Fits(j)'
    BY DEF Fitting
  <1>1. CASE j # i
    BY <1>1, FitsOther DEF Shape, Fitting
  <1>2. QED
    BY <1>1

\* An exception gives the promotion lock back.
LEMMA RaiseShape ==
    ASSUME Shape, NEW i \in Iterations, Raise(i)
    PROVE  Shape'
  <1>1. /\ pc' = [pc EXCEPT ![i] = "raised"]
        /\ promotionLock' = IF promotionLock = i THEN Nobody ELSE promotionLock
        /\ pc[i] \notin WithSkill \cup {"skill", "skilled", "unskilled"}
        /\ UNCHANGED <<candidate, live, archive, promotions, target, entry, why, promoted, skill,
                       pre, scan, doomed>>
    BY DEF Raise, Goto, InFlight, InSkillPath, Ended, WithSkill, facts, stores, cleaning
  <1>2. Typed'
    BY <1>1 DEF Shape, Typed, Places, Ended
  <1>3. OneInside'
    BY <1>1, CoordinatorParameters DEF Shape, Typed, OneInside
  <1>4. Fits(i)'
    BY <1>1 DEF Shape, Typed, Fitting, Fits, BeforeEntry, Early, OnTheWay, Sealed, Cleaning, WithSkill
  <1>5. Fitting'
    BY <1>1, <1>4, OthersFit
  <1>6. QED
    BY <1>2, <1>3, <1>5 DEF Shape

\* pre_consolidate_ids visits the tiers one after the other.
LEMMA SnapshotShape ==
    ASSUME Shape, NEW i \in Iterations, SnapshotIds(i)
    PROVE  Shape'
  <1> DEFINE last == scan[i] + 1 = Len(TierOrder)
  <1>1. /\ pc[i] = "snapshot"
        /\ pre' = [pre EXCEPT ![i][TierOrder[scan[i] + 1]] = Keys(candidate[TierOrder[scan[i] + 1]])]
        /\ pc' = [pc EXCEPT ![i] = IF last THEN "consolidate" ELSE pc[i]]
        /\ scan' = [scan EXCEPT ![i] = IF last THEN 0 ELSE scan[i] + 1]
        /\ UNCHANGED <<candidate, live, archive, promotions, target, entry, why, promoted, skill,
                       doomed, promotionLock>>
    BY DEF Shape, Typed, SnapshotIds, Goto, facts, stores
  <1>2. scan[i] \in Nat /\ Len(TierOrder) \in Nat /\ scan[i] < Len(TierOrder)
    BY <1>1, TierList DEF Shape, Typed, Fitting, Fits
  <1>3. TierOrder[scan[i] + 1] \in Tiers
    BY <1>2, NextTier
  <1>4. Keys(candidate[TierOrder[scan[i] + 1]]) \in SUBSET EntryIds
    BY DEF Keys
  <1>5. pre' \in [Iterations -> [Tiers -> SUBSET EntryIds]]
    BY <1>1, <1>3, <1>4 DEF Shape, Typed
  <1>6. scan' \in [Iterations -> 0 .. Len(TierOrder)] /\ scan'[i] = (IF last THEN 0 ELSE scan[i] + 1)
    BY <1>1, <1>2 DEF Shape, Typed
  <1>7. pc' \in [Iterations -> Places] /\ pc'[i] = (IF last THEN "consolidate" ELSE "snapshot")
    BY <1>1 DEF Shape, Typed, Places, BeforeEntry
  <1>8. Typed'
    BY <1>1, <1>5, <1>6, <1>7 DEF Shape, Typed
  <1>9. OneInside'
    BY <1>1 DEF Shape, Typed, OneInside
  <1>10. Fits(i)'
    <2>1. pc'[i] = "consolidate" => scan'[i] = 0
      BY <1>6, <1>7
    <2>2. pc'[i] = "snapshot" => scan'[i] < Len(TierOrder)
      BY <1>2, <1>6, <1>7
    <2>3. entry'[i] = NoEntry /\ ~promoted'[i] /\ skill'[i] = NoSkill
      BY <1>1 DEF Shape, Fitting, Fits, BeforeEntry, WithSkill
    <2>4. pc'[i] \in {"snapshot", "consolidate"}
      BY <1>7
    <2> HIDE DEF last
    <2>5. QED
      BY <2>1, <2>2, <2>3, <2>4 DEF Fits, BeforeEntry, Early, OnTheWay, Sealed, Cleaning, WithSkill
  <1>11. Fitting'
    BY <1>1, <1>10, OthersFit DEF Shape, Typed
  <1>12. QED
    BY <1>8, <1>9, <1>11 DEF Shape

\* What a Librarian does, honest or not.
Wrote(i, id, tier, claimed, stamp, librarian) ==
    /\ pc[i] = "consolidate"
    /\ id \in EntryIds /\ tier \in Tiers /\ claimed \in Tiers /\ stamp \in {i, None}
    /\ candidate' = [candidate EXCEPT ![tier] =
          Overwrite(@, [k \in {id} |-> [content |-> i, trust |-> CANDIDATE,
                                        writer |-> stamp, reason |-> None]])]
    /\ entry' = [entry EXCEPT ![i] = [id |-> id, tier |-> claimed, by |-> librarian]]
    /\ pc' = [pc EXCEPT ![i] = "consolidated"]
    /\ UNCHANGED <<live, archive, promotions, target, why, promoted, skill, pre, scan, doomed,
                   alone, promotionLock>>

\* A Librarian of either kind writes one candidate; the honest one a fresh id, to the target.
LEMMA LibrarianWrites ==
    ASSUME Shape, NEW i \in Iterations, Consolidate(i) \/ ConsolidateBuggy(i)
    PROVE  \E id, tier, claimed, stamp, librarian :
              /\ Wrote(i, id, tier, claimed, stamp, librarian)
              /\ \/ librarian = "buggy"
                 \/ /\ librarian = "honest" /\ Fresh(id) /\ tier = target[i] /\ claimed = target[i]
                    /\ MayWriteTier("librarian", target[i])
  <1>1. target[i] \in Tiers
    BY DEF Shape, Typed
  <1>2. CASE Consolidate(i)
    <2>1. PICK id \in EntryIds : Fresh(id) /\ Write(i, id, target[i], target[i], i, "honest")
      BY <1>2 DEF Consolidate
    <2>2. Wrote(i, id, target[i], target[i], i, "honest") /\ MayWriteTier("librarian", target[i])
      BY <1>1, <1>2, <2>1 DEF Wrote, Write, Consolidate, Goto, cleaning, history
    <2>3. QED
      BY <2>1, <2>2
  <1>3. CASE ConsolidateBuggy(i)
    <2>1. PICK id \in EntryIds, tier \in Tiers, claimed \in Tiers, stamp \in {i, None} :
              Write(i, id, tier, claimed, stamp, "buggy")
      BY <1>3 DEF ConsolidateBuggy
    <2>2. Wrote(i, id, tier, claimed, stamp, "buggy")
      BY <1>3, <2>1 DEF Wrote, Write, ConsolidateBuggy, Goto, cleaning, history
    <2>3. QED
      BY <2>2
  <1>4. QED
    BY <1>2, <1>3

\* The entry it returns is one the tiers can hold.
LEMMA WriteShape ==
    ASSUME Shape, NEW i \in Iterations, Consolidate(i) \/ ConsolidateBuggy(i)
    PROVE  Shape'
  <1>1. PICK id, tier, claimed, stamp, librarian :
            /\ Wrote(i, id, tier, claimed, stamp, librarian) /\ librarian \in {"honest", "buggy"}
    BY LibrarianWrites
  <1>2. [content |-> i, trust |-> CANDIDATE, writer |-> stamp, reason |-> None] \in Entry
    BY <1>1, WrittenIsEntry DEF Wrote
  <1> DEFINE new == [content |-> i, trust |-> CANDIDATE, writer |-> stamp, reason |-> None]
  <1>3. Overwrite(candidate[tier], [k \in {id} |-> new]) \in Dict
    <2>1. candidate[tier] \in Dict /\ id \in EntryIds
      BY <1>1 DEF Shape, Typed, Wrote
    <2>2. QED
      BY <1>2, <2>1, DictCalls
  <1>4. candidate' \in [Tiers -> Dict]
    BY <1>1, <1>3 DEF Shape, Typed, Wrote
  <1>5. entry' \in [Iterations -> EntryRecords] /\ entry'[i] = [id |-> id, tier |-> claimed, by |-> librarian]
    BY <1>1 DEF Shape, Typed, Wrote, EntryRecords
  <1>6. pc' \in [Iterations -> Places] /\ pc'[i] = "consolidated" /\ pc[i] = "consolidate"
    BY <1>1 DEF Shape, Typed, Wrote, Places, OnTheWay
  <1>7. UNCHANGED <<live, archive, promotions, target, why, promoted, skill, pre, scan, doomed, promotionLock>>
    BY <1>1 DEF Wrote
  <1>8. Typed'
    BY <1>4, <1>5, <1>6, <1>7 DEF Shape, Typed
  <1>9. OneInside'
    BY <1>1 DEF Shape, Typed, Wrote, OneInside
  <1>10. Fits(i)'
    <2>1. scan'[i] = 0 /\ skill'[i] = NoSkill
      BY <1>6, <1>7 DEF Shape, Fitting, Fits, WithSkill
    <2>2. entry'[i].id \in EntryIds /\ entry'[i].tier \in Tiers
      BY <1>1, <1>5 DEF Wrote
    <2>3. QED
      BY <1>6, <2>1, <2>2 DEF Fits, BeforeEntry, Early, OnTheWay, Sealed, Cleaning, WithSkill
  <1>11. Fitting'
    BY <1>1, <1>10, OthersFit DEF Shape, Typed, Wrote
  <1>12. QED
    BY <1>8, <1>9, <1>11 DEF Shape

\* The Auditor signs the live store of the target tier.
LEMMA SignShape ==
    ASSUME Shape, NEW i \in Iterations, Sign(i)
    PROVE  Shape'
  <1>1. /\ pc[i] = "sign" /\ entry[i].tier = target[i]
        /\ why' = [why EXCEPT ![i] = live[target[i]]]
        /\ pc' = [pc EXCEPT ![i] = "signed"]
        /\ UNCHANGED <<candidate, live, archive, promotions, target, entry, promoted, skill,
                       pre, scan, doomed, promotionLock>>
    BY DEF Sign, Goto, stores, cleaning
  <1>2. live[target[i]] \in Dict
    BY DEF Shape, Typed
  <1>3. Typed'
    BY <1>1, <1>2 DEF Shape, Typed, Places, OnTheWay, Sealed
  <1>4. OneInside'
    BY <1>1 DEF Shape, Typed, OneInside
  <1>5. why'[i] \in Dict /\ pc'[i] = "signed"
    BY <1>1, <1>2 DEF Shape, Typed
  <1>6. Fits(i)'
    BY <1>1, <1>5 DEF Shape, Fitting, Fits, BeforeEntry, Early, OnTheWay, Sealed, Cleaning, WithSkill
  <1>7. Fitting'
    BY <1>1, <1>6, OthersFit DEF Shape, Typed
  <1>8. QED
    BY <1>3, <1>4, <1>7 DEF Shape

\* A candidate is marked verified, in the target tier or among the skills.
Marked(i, tier, id, from, to) ==
    /\ pc[i] = from
    /\ VerifyAccepts(candidate[tier], <<id>>)
    /\ candidate' = [candidate EXCEPT ![tier] = MarkedVerified(@, <<id>>)]
    /\ pc' = [pc EXCEPT ![i] = to]
    /\ UNCHANGED <<live, archive, promotions, target, entry, why, promoted, skill, pre, scan, doomed,
                   alone, promotionLock>>

\* The two calls of mark_verified are such steps.
LEMMA Marks ==
    ASSUME NEW i \in Iterations
    PROVE  /\ MarkVerified(i) => Marked(i, target[i], entry[i].id, "mark", "marked")
           /\ MarkSkill(i) => Marked(i, SkillTier, skill[i].id, "skill-written", "skill-marked")
  BY DEF Marked, MarkVerified, MarkSkill, Batch, SkillBatch, Goto, facts, cleaning, history

\* Whoever has a skill path has the tier of skills.
LEMMA SkillTierExists ==
    ASSUME NEW i \in SkillMakers
    PROVE  SkillTier \in Tiers
  BY CoordinatorParameters

\* Marking keeps the dictionaries.
LEMMA MarkedDict ==
    ASSUME Shape, NEW i \in Iterations, NEW tier \in Tiers, NEW id \in EntryIds, NEW from, NEW to,
           Marked(i, tier, id, from, to)
    PROVE  candidate' \in [Tiers -> Dict]
  <1>1. candidate[tier] \in Dict /\ VerifyAccepts(candidate[tier], <<id>>)
    BY DEF Shape, Typed, Marked
  <1>2. MarkedVerified(candidate[tier], <<id>>) \in Dict
    BY <1>1, DictCalls
  <1>3. QED
    BY <1>2 DEF Shape, Typed, Marked

\* Marking the entry of an iteration keeps the shape.
LEMMA MarkShape ==
    ASSUME Shape, NEW i \in Iterations, MarkVerified(i)
    PROVE  Shape'
  <1>1. Marked(i, target[i], entry[i].id, "mark", "marked")
    BY Marks
  <1>2. target[i] \in Tiers /\ entry[i].id \in EntryIds
    BY <1>1 DEF Shape, Typed, Fitting, Fits, Marked, OnTheWay, Sealed
  <1>3. candidate' \in [Tiers -> Dict]
    BY <1>1, <1>2, MarkedDict
  <1>4. /\ pc[i] = "mark" /\ pc' = [pc EXCEPT ![i] = "marked"]
        /\ UNCHANGED <<live, archive, promotions, target, entry, why, promoted, skill,
                       pre, scan, doomed, promotionLock>>
    BY <1>1 DEF Marked
  <1>5. Typed'
    BY <1>3, <1>4 DEF Shape, Typed, Places, OnTheWay, Sealed
  <1>6. OneInside'
    BY <1>4 DEF Shape, Typed, OneInside
  <1>7. Fits(i)'
    BY <1>4 DEF Shape, Typed, Fitting, Fits, BeforeEntry, Early, OnTheWay, Sealed, Cleaning, WithSkill
  <1>8. Fitting'
    BY <1>4, <1>7, OthersFit DEF Shape, Typed
  <1>9. QED
    BY <1>5, <1>6, <1>8 DEF Shape

\* The promotion lock is taken by one iteration only.
LEMMA LockShape ==
    ASSUME Shape, NEW i \in Iterations, TakePromotionLock(i)
    PROVE  Shape'
  <1>1. /\ pc[i] = "marked" /\ pc' = [pc EXCEPT ![i] = "promoting"]
        /\ promotionLock = Nobody /\ promotionLock' = i
        /\ UNCHANGED <<candidate, live, archive, promotions, target, entry, why, promoted, skill,
                       pre, scan, doomed>>
    BY DEF TakePromotionLock, Goto, stores, facts, cleaning
  <1>2. Typed'
    BY <1>1 DEF Shape, Typed, Places, OnTheWay, Sealed
  <1>3. OneInside'
    BY <1>1, CoordinatorParameters DEF Shape, Typed, OneInside
  <1>4. Fits(i)'
    BY <1>1 DEF Shape, Typed, Fitting, Fits, BeforeEntry, Early, OnTheWay, Sealed, Cleaning, WithSkill
  <1>5. Fitting'
    BY <1>1, <1>4, OthersFit DEF Shape, Typed
  <1>6. QED
    BY <1>2, <1>3, <1>5 DEF Shape

\* A promotion of one entry, of the target tier or of a skill.
Moved(i, tier, id, pres) ==
    /\ candidate[tier][id] # Absent
    /\ EntryPromotable(candidate[tier], live[tier], id) /\ pres = live[tier]
    /\ archive' = [archive EXCEPT ![tier] = @ \cup {[id |-> id, content |-> candidate[tier][id].content]}]
    /\ live' = [live EXCEPT ![tier] = Promoted(candidate[tier], @, <<id>>)]
    /\ candidate' = [candidate EXCEPT ![tier] = Remove(@, {id})]
    /\ promotions' = [promotions EXCEPT ![tier] = Append(@, [pre |-> pres, ids |-> {id}])]
    /\ UNCHANGED <<target, entry, why, skill, pre, scan, doomed, alone>>

\* The two calls of promote() are such steps, each with the precondition it presents.
LEMMA Promotes ==
    ASSUME NEW i \in Iterations
    PROVE  /\ Promote(i) =>
                 /\ Moved(i, target[i], entry[i].id, why[i])
                 /\ MayWriteTier("librarian", target[i])
                 /\ pc[i] = "promoting" /\ pc' = [pc EXCEPT ![i] = "moved"]
                 /\ promoted' = [promoted EXCEPT ![i] = TRUE] /\ promotionLock' = Nobody
           /\ PromoteSkill(i) =>
                 /\ Moved(i, SkillTier, skill[i].id, skill[i].pre)
                 /\ pc[i] = "skill-hashed" /\ pc' = [pc EXCEPT ![i] = "skilled"]
                 /\ UNCHANGED <<promoted, promotionLock>>
  <1>1. \A id : id \in Named(<<id>>)
    BY DEF Named
  <1>2. ASSUME Promote(i)
        PROVE  /\ Moved(i, target[i], entry[i].id, why[i])
               /\ MayWriteTier("librarian", target[i])
               /\ pc[i] = "promoting" /\ pc' = [pc EXCEPT ![i] = "moved"]
               /\ promoted' = [promoted EXCEPT ![i] = TRUE] /\ promotionLock' = Nobody
    <2>1. PromoteAccepts(candidate[target[i]], live[target[i]], <<entry[i].id>>, why[i], "librarian", target[i])
      BY <1>2 DEF Promote, Promotable, Batch, Precondition
    <2>2. /\ EntryPromotable(candidate[target[i]], live[target[i]], entry[i].id)
          /\ candidate[target[i]][entry[i].id] # Absent
          /\ why[i] = live[target[i]]
      BY <1>1, <2>1 DEF PromoteAccepts, EntryPromotable
    <2>3. MayWriteTier("librarian", target[i])
      BY <2>1, ConstantsDisjoint DEF PromoteAccepts, Roles
    <2>4. QED
      BY <1>2, <2>2, <2>3 DEF Promote, Moved, Batch, Precondition, Goto, cleaning, history
  <1>3. ASSUME PromoteSkill(i)
        PROVE  /\ Moved(i, SkillTier, skill[i].id, skill[i].pre)
               /\ pc[i] = "skill-hashed" /\ pc' = [pc EXCEPT ![i] = "skilled"]
               /\ UNCHANGED <<promoted, promotionLock>>
    <2>1. PromoteAccepts(candidate[SkillTier], live[SkillTier], <<skill[i].id>>, skill[i].pre, "builder", SkillTier)
      BY <1>3 DEF PromoteSkill, SkillPromotable, SkillBatch
    <2>2. /\ EntryPromotable(candidate[SkillTier], live[SkillTier], skill[i].id)
          /\ candidate[SkillTier][skill[i].id] # Absent
          /\ skill[i].pre = live[SkillTier]
      BY <1>1, <2>1 DEF PromoteAccepts, EntryPromotable
    <2>3. QED
      BY <1>3, <2>2 DEF PromoteSkill, Moved, SkillBatch, Goto, facts, cleaning, history
  <1>4. QED
    BY <1>2, <1>3

\* A promotion keeps the types of the stores.
LEMMA MovedTypes ==
    ASSUME Shape, NEW i \in Iterations, NEW tier \in Tiers, NEW id \in EntryIds, NEW pres,
           Moved(i, tier, id, pres)
    PROVE  /\ candidate' \in [Tiers -> Dict] /\ live' \in [Tiers -> Dict]
           /\ archive' \in [Tiers -> SUBSET Archived] /\ DOMAIN promotions' = Tiers
  <1>1. candidate[tier] \in Dict /\ live[tier] \in Dict
    BY DEF Shape, Typed
  <1>2. candidate[tier][id] \in Entry
    BY <1>1 DEF Moved, Dict
  <1>3. Promoted(candidate[tier], live[tier], <<id>>) \in Dict /\ Remove(candidate[tier], {id}) \in Dict
    BY <1>1, DictCalls DEF Moved
  <1>4. [id |-> id, content |-> candidate[tier][id].content] \in Archived
    BY <1>2, CoordinatorParameters DEF Entry, Archived
  <1>5. candidate' \in [Tiers -> Dict] /\ live' \in [Tiers -> Dict]
    BY <1>3 DEF Shape, Typed, Moved
  <1>6. archive' \in [Tiers -> SUBSET Archived] /\ DOMAIN promotions' = Tiers
    BY <1>4 DEF Shape, Typed, Moved
  <1>7. QED
    BY <1>5, <1>6

\* The lock is released after the promotion; the tier was one the Librarian may write.
LEMMA PromoteShape ==
    ASSUME Shape, NEW i \in Iterations, Promote(i)
    PROVE  Shape'
  <1>1. /\ Moved(i, target[i], entry[i].id, why[i]) /\ MayWriteTier("librarian", target[i])
        /\ pc[i] = "promoting" /\ pc' = [pc EXCEPT ![i] = "moved"]
        /\ promoted' = [promoted EXCEPT ![i] = TRUE] /\ promotionLock' = Nobody
    BY Promotes
  <1>2. target[i] \in Tiers /\ entry[i].id \in EntryIds
    BY <1>1 DEF Shape, Typed, Fitting, Fits, OnTheWay, Sealed
  <1>3. /\ candidate' \in [Tiers -> Dict] /\ live' \in [Tiers -> Dict]
        /\ archive' \in [Tiers -> SUBSET Archived] /\ DOMAIN promotions' = Tiers
    BY <1>1, <1>2, MovedTypes
  <1>4. UNCHANGED <<target, entry, why, skill, pre, scan, doomed>>
    BY <1>1 DEF Moved
  <1>5. Typed'
    BY <1>1, <1>3, <1>4 DEF Shape, Typed, Places
  <1>6. OneInside'
    BY <1>1, CoordinatorParameters DEF Shape, Typed, OneInside
  <1>7. Fits(i)'
    <2>1. pc'[i] = "moved" /\ promoted'[i] /\ skill'[i] = NoSkill
      BY <1>1, <1>4 DEF Shape, Typed, Fitting, Fits, WithSkill
    <2>2. QED
      BY <1>1, <1>4, <2>1 DEF Fits, BeforeEntry, Early, OnTheWay, Sealed, Cleaning, WithSkill
  <1>8. Fitting'
    BY <1>1, <1>4, <1>7, OthersFit DEF Shape, Typed
  <1>9. QED
    BY <1>5, <1>6, <1>8 DEF Shape

\* A rejected promotion releases the lock.
LEMMA PromoteFailsShape ==
    ASSUME Shape, NEW i \in Iterations, PromoteFails(i)
    PROVE  Shape'
  <1>1. /\ pc[i] = "promoting" /\ pc' = [pc EXCEPT ![i] = "rolled-back"]
        /\ why' = [why EXCEPT ![i] = None] /\ promotionLock' = Nobody
        /\ UNCHANGED <<candidate, live, archive, promotions, target, entry, promoted, skill,
                       pre, scan, doomed>>
    BY DEF PromoteFails, Rollback, Goto, stores, cleaning
  <1>2. Typed'
    BY <1>1 DEF Shape, Typed, Places, Ended
  <1>3. OneInside'
    BY <1>1, CoordinatorParameters DEF Shape, Typed, OneInside
  <1>4. Fits(i)'
    BY <1>1 DEF Shape, Typed, Fitting, Fits, BeforeEntry, Early, OnTheWay, Sealed, Cleaning, WithSkill
  <1>5. Fitting'
    BY <1>1, <1>4, OthersFit DEF Shape, Typed
  <1>6. QED
    BY <1>2, <1>3, <1>5 DEF Shape

\* The cleanup, tier by tier.
LEMMA LookShape ==
    ASSUME Shape, NEW i \in Iterations, CleanupLook(i)
    PROVE  Shape'
  <1>1. /\ pc[i] = "cleanup" /\ scan[i] < Len(TierOrder) /\ pc' = [pc EXCEPT ![i] = "discarding"]
        /\ doomed' = [doomed EXCEPT ![i] = {id \in EntryIds : IsOurs(i, TierOrder[scan[i] + 1], id)}]
        /\ UNCHANGED <<candidate, live, archive, promotions, target, entry, why, promoted, skill,
                       pre, scan, promotionLock>>
    BY DEF CleanupLook, Goto, stores, facts
  <1>2. Typed'
    BY <1>1 DEF Shape, Typed, Places, Cleaning
  <1>3. OneInside'
    BY <1>1 DEF Shape, Typed, OneInside
  <1>4. Fits(i)'
    BY <1>1 DEF Shape, Typed, Fitting, Fits, BeforeEntry, Early, OnTheWay, Sealed, Cleaning, WithSkill
  <1>5. Fitting'
    BY <1>1, <1>4, OthersFit DEF Shape, Typed
  <1>6. QED
    BY <1>2, <1>3, <1>5 DEF Shape

\* One id is discarded from the tier, if it is still there.
Discards(i, tier, id) ==
    /\ pc[i] = "discarding" /\ id \in doomed[i] /\ tier = TierOrder[scan[i] + 1]
    /\ doomed' = [doomed EXCEPT ![i] = @ \ {id}]
    /\ candidate' = [candidate EXCEPT ![tier] = Remove(@, {id})]
    /\ \/ candidate[tier][id] = Absent /\ UNCHANGED archive
       \/ /\ candidate[tier][id] # Absent
          /\ archive' = [archive EXCEPT ![tier] = @ \cup {[id |-> id, content |-> candidate[tier][id].content]}]
    /\ UNCHANGED <<live, promotions, pc, target, entry, why, promoted, skill, pre, scan, alone, promotionLock>>

\* A step of the cleanup discards one doomed id.
LEMMA CleanupDiscards ==
    ASSUME Shape, NEW i \in Iterations, CleanupDiscard(i)
    PROVE  \E tier \in Tiers, id \in EntryIds : Discards(i, tier, id)
  <1> DEFINE tier == TierOrder[scan[i] + 1]
  <1>1. pc[i] = "discarding" /\ scan[i] < Len(TierOrder) /\ scan[i] \in Nat
    BY TierList DEF CleanupDiscard, Shape, Typed, Fitting, Fits
  <1>2. tier \in Tiers
    BY <1>1, NextTier
  <1>3. PICK id \in doomed[i] :
            /\ doomed' = [doomed EXCEPT ![i] = @ \ {id}]
            /\ IF candidate[tier][id] = Absent THEN UNCHANGED <<candidate, archive>>
               ELSE /\ archive' = [archive EXCEPT ![tier] =
                                      @ \cup {[id |-> id, content |-> candidate[tier][id].content]}]
                    /\ candidate' = [candidate EXCEPT ![tier] = Remove(@, {id})]
    BY DEF CleanupDiscard
  <1> HIDE DEF tier
  <1>4. id \in EntryIds /\ candidate \in [Tiers -> Dict]
    BY <1>3 DEF Shape, Typed
  <1>5. candidate[tier][id] = Absent => candidate = [candidate EXCEPT ![tier] = Remove(@, {id})]
    <2> SUFFICES ASSUME candidate[tier][id] = Absent
                 PROVE  candidate = [candidate EXCEPT ![tier] = Remove(@, {id})]
      OBVIOUS
    <2>1. candidate[tier] \in [EntryIds -> Entry \cup {Absent}]
      BY <1>2, <1>4 DEF Dict
    <2>2. Remove(candidate[tier], {id}) = candidate[tier]
      BY <2>1 DEF Remove
    <2>3. QED
      BY <1>2, <1>4, <2>2
  <1>6. candidate' = [candidate EXCEPT ![tier] = Remove(@, {id})]
    BY <1>3, <1>5
  <1>7. \/ candidate[tier][id] = Absent /\ UNCHANGED archive
        \/ /\ candidate[tier][id] # Absent
           /\ archive' = [archive EXCEPT ![tier] = @ \cup {[id |-> id, content |-> candidate[tier][id].content]}]
    BY <1>3
  <1>8. UNCHANGED <<live, promotions, pc, target, entry, why, promoted, skill, pre, scan, alone, promotionLock>>
    BY DEF CleanupDiscard, facts, history
  <1>9. Discards(i, tier, id)
    BY <1>1, <1>3, <1>6, <1>7, <1>8 DEF Discards, tier
  <1>10. QED
    BY <1>2, <1>4, <1>9

\* It keeps the shape.
LEMMA DiscardShape ==
    ASSUME Shape, NEW i \in Iterations, CleanupDiscard(i)
    PROVE  Shape'
  <1>1. PICK tier \in Tiers, id \in EntryIds : Discards(i, tier, id)
    BY CleanupDiscards
  <1>2. candidate[tier] \in Dict /\ Remove(candidate[tier], {id}) \in Dict
    BY DictCalls DEF Shape, Typed
  <1>3. candidate' \in [Tiers -> Dict]
    BY <1>1, <1>2 DEF Shape, Typed, Discards
  <1>4. archive' \in [Tiers -> SUBSET Archived]
    <2>1. CASE candidate[tier][id] # Absent
      <3>1. candidate[tier][id] \in Entry
        BY <1>2, <2>1 DEF Dict
      <3>2. [id |-> id, content |-> candidate[tier][id].content] \in Archived
        BY <3>1, CoordinatorParameters DEF Entry, Archived
      <3>3. archive' = [archive EXCEPT ![tier] = @ \cup {[id |-> id, content |-> candidate[tier][id].content]}]
        BY <1>1, <2>1 DEF Discards
      <3>4. archive \in [Tiers -> SUBSET Archived]
        BY DEF Shape, Typed
      <3>5. QED
        BY <3>2, <3>3, <3>4
    <2>2. QED
      BY <1>1, <2>1 DEF Shape, Typed, Discards
  <1>5. doomed' \in [Iterations -> SUBSET EntryIds]
    BY <1>1 DEF Shape, Typed, Discards
  <1>6. UNCHANGED <<live, promotions, pc, target, entry, why, promoted, skill, pre, scan, promotionLock>>
    BY <1>1 DEF Discards
  <1>7. Typed' /\ OneInside'
    BY <1>3, <1>4, <1>5, <1>6 DEF Shape, Typed, OneInside
  <1>8. Fitting'
    BY <1>6, FitsOther DEF Shape, Fitting
  <1>9. QED
    BY <1>7, <1>8 DEF Shape

\* The cleanup does not run past the last tier.
LEMMA NextTierShape ==
    ASSUME Shape, NEW i \in Iterations, CleanupNextTier(i)
    PROVE  Shape'
  <1>1. /\ pc[i] = "discarding" /\ pc' = [pc EXCEPT ![i] = "cleanup"]
        /\ scan' = [scan EXCEPT ![i] = scan[i] + 1]
        /\ UNCHANGED <<candidate, live, archive, promotions, target, entry, why, promoted, skill,
                       pre, doomed, promotionLock>>
    BY DEF CleanupNextTier, Goto, stores, facts
  <1>2. scan[i] + 1 \in 0 .. Len(TierOrder)
    BY <1>1, TierList DEF Shape, Typed, Fitting, Fits
  <1>3. scan' \in [Iterations -> 0 .. Len(TierOrder)]
    BY <1>1, <1>2 DEF Shape, Typed
  <1>4. Typed'
    BY <1>1, <1>3 DEF Shape, Typed, Places, Cleaning
  <1>5. OneInside'
    BY <1>1 DEF Shape, Typed, OneInside
  <1>6. Fits(i)'
    BY <1>1 DEF Shape, Typed, Fitting, Fits, BeforeEntry, Early, OnTheWay, Sealed, Cleaning, WithSkill
  <1>7. Fitting'
    BY <1>1, <1>6, OthersFit DEF Shape, Typed
  <1>8. QED
    BY <1>4, <1>5, <1>7 DEF Shape

\* The skill path of daemon._tick.
SkillWritten(i, id) ==
    /\ pc[i] = "skill" /\ id \in EntryIds /\ Fresh(id)
    /\ skill' = [skill EXCEPT ![i].id = id]
    /\ candidate' = [candidate EXCEPT ![SkillTier] =
          Overwrite(@, [k \in {id} |-> [content |-> i, trust |-> CANDIDATE,
                                        writer |-> None, reason |-> None]])]
    /\ pc' = [pc EXCEPT ![i] = "skill-written"]
    /\ UNCHANGED <<live, archive, promotions, target, entry, why, promoted, pre, scan, doomed,
                   alone, promotionLock>>

\* consolidate_skill is such a step.
LEMMA SkillWrites ==
    ASSUME NEW i \in Iterations, WriteSkill(i)
    PROVE  \E id : SkillWritten(i, id)
  <1>1. PICK id \in EntryIds :
            /\ Fresh(id)
            /\ skill' = [skill EXCEPT ![i].id = id]
            /\ candidate' = [candidate EXCEPT ![SkillTier] =
                  Overwrite(@, [k \in {id} |-> [content |-> i, trust |-> CANDIDATE,
                                                writer |-> None, reason |-> None]])]
    BY DEF WriteSkill
  <1>2. SkillWritten(i, id)
    BY <1>1 DEF WriteSkill, SkillWritten, Goto, cleaning, history
  <1>3. QED
    BY <1>2

\* It keeps the shape.
LEMMA WriteSkillShape ==
    ASSUME Shape, NEW i \in Iterations, WriteSkill(i)
    PROVE  Shape'
  <1>1. PICK id : SkillWritten(i, id)
    BY SkillWrites
  <1>2. SkillTier \in Tiers /\ i \in SkillMakers /\ skill[i] = NoSkill
    BY <1>1, SkillTierExists DEF Shape, Fitting, Fits, SkillWritten, WithSkill
  <1> DEFINE new == [content |-> i, trust |-> CANDIDATE, writer |-> None, reason |-> None]
  <1>3. candidate' \in [Tiers -> Dict]
    <2>1. new \in Entry
      BY WrittenIsEntry
    <2>2. candidate[SkillTier] \in Dict /\ id \in EntryIds
      BY <1>1, <1>2 DEF Shape, Typed, SkillWritten
    <2>3. Overwrite(candidate[SkillTier], [k \in {id} |-> new]) \in Dict
      BY <2>1, <2>2, DictCalls
    <2>4. QED
      BY <1>1, <1>2, <2>3 DEF Shape, Typed, SkillWritten
  <1>4. skill' \in [Iterations -> SkillRecords] /\ skill'[i].id = id
    <2>1. skill \in [Iterations -> SkillRecords] /\ skill' = [skill EXCEPT ![i].id = id] /\ id \in EntryIds
      BY <1>1 DEF Shape, Typed, SkillWritten
    <2>2. [skill[i] EXCEPT !.id = id] \in SkillRecords /\ [skill[i] EXCEPT !.id = id].id = id
      BY <2>1 DEF SkillRecords
    <2>3. QED
      BY <2>1, <2>2
  <1>5. /\ pc[i] = "skill" /\ pc' = [pc EXCEPT ![i] = "skill-written"] /\ id \in EntryIds
        /\ \A j \in Iterations \ {i} : skill'[j] = skill[j]
        /\ UNCHANGED <<live, archive, promotions, target, entry, why, promoted, pre, scan, doomed, promotionLock>>
    BY <1>1 DEF SkillWritten
  <1>6. Typed'
    BY <1>3, <1>4, <1>5 DEF Shape, Typed, Places, WithSkill
  <1>7. OneInside'
    BY <1>5 DEF Shape, Typed, OneInside
  <1>8. Fits(i)'
    BY <1>2, <1>4, <1>5 DEF Shape, Typed, Fitting, Fits, BeforeEntry, Early, OnTheWay, Sealed, Cleaning, WithSkill
  <1>9. Fitting'
    BY <1>5, <1>8, OthersFit DEF Shape, Typed
  <1>10. QED
    BY <1>6, <1>7, <1>9 DEF Shape

\* Marking a skill keeps the shape.
LEMMA MarkSkillShape ==
    ASSUME Shape, NEW i \in Iterations, MarkSkill(i)
    PROVE  Shape'
  <1>1. Marked(i, SkillTier, skill[i].id, "skill-written", "skill-marked")
    BY Marks
  <1>2. SkillTier \in Tiers /\ skill[i].id \in EntryIds
    BY <1>1, SkillTierExists DEF Shape, Fitting, Fits, Marked, WithSkill
  <1>3. candidate' \in [Tiers -> Dict]
    BY <1>1, <1>2, MarkedDict
  <1>4. /\ pc[i] = "skill-written" /\ pc' = [pc EXCEPT ![i] = "skill-marked"]
        /\ UNCHANGED <<live, archive, promotions, target, entry, why, promoted, skill,
                       pre, scan, doomed, promotionLock>>
    BY <1>1 DEF Marked
  <1>5. Typed'
    BY <1>3, <1>4 DEF Shape, Typed, Places, WithSkill
  <1>6. OneInside'
    BY <1>4 DEF Shape, Typed, OneInside
  <1>7. Fits(i)'
    BY <1>4 DEF Shape, Typed, Fitting, Fits, BeforeEntry, Early, OnTheWay, Sealed, Cleaning, WithSkill
  <1>8. Fitting'
    BY <1>4, <1>7, OthersFit DEF Shape, Typed
  <1>9. QED
    BY <1>5, <1>6, <1>8 DEF Shape

\* live_hash() and skill.failed: the precondition is set, or dropped.
PreSet(i, from, to, pres) ==
    /\ pc[i] \in from /\ pc' = [pc EXCEPT ![i] = to]
    /\ skill' = [skill EXCEPT ![i].pre = pres]
    /\ UNCHANGED <<candidate, live, archive, promotions, target, entry, why, promoted,
                   pre, scan, doomed, alone, promotionLock>>

\* live_hash() and a failed skill path are such steps.
LEMMA PresSet ==
    ASSUME NEW i \in Iterations
    PROVE  /\ HashSkill(i) => PreSet(i, {"skill-marked"}, "skill-hashed", live[SkillTier])
           /\ SkillFails(i) => PreSet(i, {"skill"} \cup WithSkill, "unskilled", None)
  BY DEF PreSet, HashSkill, SkillFails, InSkillPath, WithSkill, Goto, stores, cleaning, history

\* They keep the shape.
LEMMA PreSetShape ==
    ASSUME Shape, NEW i \in Iterations, HashSkill(i) \/ SkillFails(i)
    PROVE  Shape'
  <1>1. PICK from, to, pres :
            /\ PreSet(i, from, to, pres)
            /\ \/ from = {"skill-marked"} /\ to = "skill-hashed" /\ pres = live[SkillTier]
               \/ from = {"skill"} \cup WithSkill /\ to = "unskilled" /\ pres = None
    BY PresSet
  <1>2. i \in SkillMakers /\ pc[i] \in {"skill"} \cup WithSkill
    BY <1>1 DEF Shape, Fitting, Fits, PreSet, WithSkill
  <1>3. to = "skill-hashed" => pres \in Dict
    BY <1>1, <1>2, SkillTierExists DEF Shape, Typed
  <1>4. pres \in Dict \cup {None} /\ to \in {"skill-hashed", "unskilled"}
    BY <1>1, <1>3
  <1>5. skill' \in [Iterations -> SkillRecords] /\ skill'[i].pre = pres /\ skill'[i].id = skill[i].id
    <2>1. skill \in [Iterations -> SkillRecords] /\ skill' = [skill EXCEPT ![i].pre = pres]
      BY <1>1 DEF Shape, Typed, PreSet
    <2>2. /\ [skill[i] EXCEPT !.pre = pres] \in SkillRecords
          /\ [skill[i] EXCEPT !.pre = pres].pre = pres
          /\ [skill[i] EXCEPT !.pre = pres].id = skill[i].id
      BY <1>4, <2>1 DEF SkillRecords
    <2>3. QED
      BY <2>1, <2>2
  <1>6. /\ pc' = [pc EXCEPT ![i] = to] /\ \A j \in Iterations \ {i} : skill'[j] = skill[j]
        /\ UNCHANGED <<candidate, live, archive, promotions, target, entry, why, promoted,
                       pre, scan, doomed, promotionLock>>
    BY <1>1 DEF PreSet
  <1>7. Typed'
    BY <1>4, <1>5, <1>6 DEF Shape, Typed, Places, WithSkill, Ended
  <1>8. OneInside'
    BY <1>2, <1>4, <1>6 DEF Shape, Typed, OneInside, WithSkill
  <1>9. to = "skill-hashed" => pc[i] = "skill-marked"
    BY <1>1 DEF PreSet
  <1>10. Fits(i)'
    <2>1. pc'[i] = to /\ promoted'[i] = promoted[i] /\ target'[i] = target[i]
      BY <1>6 DEF Shape, Typed
    <2>2. Fits(i)
      BY DEF Shape, Fitting
    <2>3. to = "skill-hashed" => /\ promoted[i] /\ MayWriteTier("librarian", target[i])
                                 /\ skill[i].id \in EntryIds
      BY <1>9, <2>2 DEF Fits, WithSkill
    <2>4. QED
      BY <1>2, <1>3, <1>4, <1>5, <2>1, <2>3
         DEF Fits, BeforeEntry, Early, OnTheWay, Sealed, Cleaning, WithSkill
  <1>11. Fitting'
    BY <1>6, <1>10, OthersFit DEF Shape, Typed
  <1>12. QED
    BY <1>7, <1>8, <1>11 DEF Shape

\* A skill that goes live comes after the promotion of its iteration.
LEMMA PromoteSkillShape ==
    ASSUME Shape, NEW i \in Iterations, PromoteSkill(i)
    PROVE  Shape'
  <1>1. /\ Moved(i, SkillTier, skill[i].id, skill[i].pre)
        /\ pc[i] = "skill-hashed" /\ pc' = [pc EXCEPT ![i] = "skilled"]
        /\ UNCHANGED <<promoted, promotionLock>>
    BY Promotes
  <1>2. SkillTier \in Tiers /\ skill[i].id \in EntryIds
    BY <1>1, SkillTierExists DEF Shape, Fitting, Fits, WithSkill
  <1>3. /\ candidate' \in [Tiers -> Dict] /\ live' \in [Tiers -> Dict]
        /\ archive' \in [Tiers -> SUBSET Archived] /\ DOMAIN promotions' = Tiers
    BY <1>1, <1>2, MovedTypes
  <1>4. UNCHANGED <<target, entry, why, skill, pre, scan, doomed>>
    BY <1>1 DEF Moved
  <1>5. Typed'
    BY <1>1, <1>3, <1>4 DEF Shape, Typed, Places, Ended
  <1>6. OneInside'
    BY <1>1 DEF Shape, Typed, OneInside
  <1>7. Fits(i)'
    BY <1>1, <1>4 DEF Shape, Typed, Fitting, Fits, BeforeEntry, Early, OnTheWay, Sealed, Cleaning, WithSkill
  <1>8. Fitting'
    BY <1>1, <1>4, <1>7, OthersFit DEF Shape, Typed
  <1>9. QED
    BY <1>5, <1>6, <1>8 DEF Shape

\* Every step keeps the shape.
LEMMA ShapeStep == Shape /\ [Next]_vars => Shape'
  <1> SUFFICES ASSUME Shape, [Next]_vars
               PROVE  Shape'
    OBVIOUS
  <1>1. CASE UNCHANGED vars \/ Halt \/ EditGraders
    BY <1>1, IdleShape DEF vars, Halt, EditGraders, facts
  <1>2. ASSUME NEW i \in Iterations, Iterate(i)
        PROVE  Shape'
    <2>1. CASE \/ Start(i) \/ Frontier(i) \/ Research(i) \/ Build(i) \/ CheckPins(i) \/ VerifyRaises(i)
               \/ Verify(i) \/ ConsolidateBlocked(i) \/ CheckClaim(i) \/ SignMismatch(i) \/ SignFails(i)
               \/ Signed(i) \/ MarkFails(i) \/ Announce(i) \/ CleanupEnd(i)
      BY <2>1, GatesWalk, WalkShape
    <2>2. CASE Raise(i)
      BY <2>2, RaiseShape
    <2>3. CASE SnapshotIds(i)
      BY <2>3, SnapshotShape
    <2>4. CASE Consolidate(i) \/ ConsolidateBuggy(i)
      BY <2>4, WriteShape
    <2>5. CASE Sign(i)
      BY <2>5, SignShape
    <2>6. CASE MarkVerified(i)
      BY <2>6, MarkShape
    <2>7. CASE TakePromotionLock(i)
      BY <2>7, LockShape
    <2>8. CASE Promote(i)
      BY <2>8, PromoteShape
    <2>9. CASE PromoteFails(i)
      BY <2>9, PromoteFailsShape
    <2>10. CASE CleanupLook(i)
      BY <2>10, LookShape
    <2>11. CASE CleanupDiscard(i)
      BY <2>11, DiscardShape
    <2>12. CASE CleanupNextTier(i)
      BY <2>12, NextTierShape
    <2>13. CASE WriteSkill(i)
      BY <2>13, WriteSkillShape
    <2>14. CASE MarkSkill(i)
      BY <2>14, MarkSkillShape
    <2>15. CASE HashSkill(i) \/ SkillFails(i)
      BY <2>15, PreSetShape
    <2>16. CASE PromoteSkill(i)
      BY <2>16, PromoteSkillShape
    <2>17. QED
      BY <1>2, <2>1, <2>2, <2>3, <2>4, <2>5, <2>6, <2>7, <2>8, <2>9, <2>10, <2>11, <2>12, <2>13,
         <2>14, <2>15, <2>16 DEF Iterate
  <1>3. QED
    BY <1>1, <1>2 DEF Next

\* The rest of the state.
Flagged ==
    /\ cert \in [Iterations -> {None} \cup Certificates]
    /\ promoted \in [Iterations -> BOOLEAN]
    /\ alone \in [Iterations -> BOOLEAN] /\ intact \in [Iterations -> BOOLEAN]
    /\ drifted \in BOOLEAN /\ edits \in 0 .. MaxEdits
    /\ promotionLock \in Iterations \cup {Nobody}
    /\ tripped \in BOOLEAN /\ halted \in BOOLEAN

\* No more findings are counted than the Critic was asked for.
LEMMA FindingsType ==
    ASSUME NEW answer \in CriticAnswers
    PROVE  Findings(answer) \in UNION {[1 .. n -> BOOLEAN] : n \in 0 .. MinAttempts}
  <1>1. PICK n \in 0 .. MinAttempts : answer \in [1 .. n -> CriticItems]
    BY DEF CriticAnswers
  <1> DEFINE objects == {m \in DOMAIN answer : answer[m] # "junk"}
             Nth(m) == CHOOSE l \in objects : Cardinality({k \in objects : k <= l}) = m
  <1>2. n \in Nat /\ n <= MinAttempts /\ MinAttempts \in Nat
    BY VerificationParameters
  <1>3. IsFiniteSet(1 .. n) /\ Cardinality(1 .. n) = n
    BY <1>2, FS_Interval
  <1>4. Cardinality(objects) \in Nat /\ Cardinality(objects) <= n
    <2>1. objects \in SUBSET (1 .. n)
      BY <1>1
    <2>2. QED
      BY <1>3, <2>1, FS_Subset, FS_CardinalityType
  <1>5. Findings(answer) = [m \in 1 .. Cardinality(objects) |-> answer[Nth(m)] = "falsified"]
    BY DEF Findings
  <1> HIDE DEF objects, Nth
  <1>6. Findings(answer) \in [1 .. Cardinality(objects) -> BOOLEAN]
    BY <1>5
  <1>7. Cardinality(objects) \in 0 .. MinAttempts
    BY <1>2, <1>4
  <1>8. QED
    BY <1>6, <1>7

\* A certificate has the type of certificates.
LEMMA CertificateType ==
    ASSUME NEW results \in [Graders -> BOOLEAN], NEW answer \in CriticAnswers
    PROVE  Certificate(results, Findings(answer)) \in Certificates
  <1>1. Findings(answer) \in UNION {[1 .. n -> BOOLEAN] : n \in 0 .. MinAttempts}
    BY FindingsType
  <1>2. Passes(results, Findings(answer)) \in BOOLEAN
    BY DEF Passes
  <1>3. QED
    BY <1>1, <1>2 DEF Certificate, Certificates

\* The rest has its types at the start,
LEMMA FlaggedInit == Init => Flagged
  <1> SUFFICES ASSUME Init PROVE Flagged
    OBVIOUS
  <1>1. edits \in 0 .. MaxEdits
    BY CoordinatorParameters DEF Init
  <1>2. cert \in [Iterations -> {None} \cup Certificates]
    BY DEF Init
  <1>3. promoted \in [Iterations -> BOOLEAN] /\ alone \in [Iterations -> BOOLEAN] /\ intact \in [Iterations -> BOOLEAN]
    BY DEF Init
  <1>4. drifted \in BOOLEAN /\ tripped \in BOOLEAN /\ halted \in BOOLEAN /\ promotionLock = Nobody
    BY DEF Init
  <1>5. QED
    BY <1>1, <1>2, <1>3, <1>4 DEF Flagged

\* Most steps leave the certificate, the files and the switches alone.
LEMMA FlaggedKept ==
    ASSUME Flagged, NEW i \in Iterations,
           UNCHANGED <<cert, history, drifted, edits>>,
           promoted' \in {promoted, [promoted EXCEPT ![i] = TRUE]},
           promotionLock' \in {promotionLock, i, Nobody},
           tripped' \in {tripped, TRUE}, halted' = halted
    PROVE  Flagged'
  BY DEF Flagged, history

\* and after every step.
LEMMA FlaggedStep == Flagged /\ [Next]_vars => Flagged'
  <1> SUFFICES ASSUME Flagged, [Next]_vars
               PROVE  Flagged'
    OBVIOUS
  <1>1. CASE UNCHANGED vars
    BY <1>1 DEF vars, facts, files, history, switches, Flagged
  <1>2. CASE Halt
    BY <1>2 DEF Halt, facts, files, history, Flagged
  <1>3. CASE EditGraders
    <2>1. edits' \in 0 .. MaxEdits
      BY <1>3, CoordinatorParameters DEF EditGraders, Flagged
    <2>2. intact' \in [Iterations -> BOOLEAN] /\ drifted' \in BOOLEAN
      <3>1. /\ intact' = [i \in Iterations |-> intact[i] \/ (drifted /\ i \in InFlight)]
            /\ drifted' = ~drifted
        BY <1>3 DEF EditGraders
      <3>2. QED
        BY <3>1
    <2>3. UNCHANGED <<cert, promoted, alone, promotionLock, tripped, halted>>
      BY <1>3 DEF EditGraders, facts, switches
    <2>4. QED
      BY <2>1, <2>2, <2>3 DEF Flagged
  <1>4. ASSUME NEW i \in Iterations, Iterate(i)
        PROVE  Flagged'
    <2>1. CASE Start(i)
      <3>1. alone' \in [Iterations -> BOOLEAN]
        <4>1. alone' = [j \in Iterations |-> alone[j] /\ (j \in InFlight \cup {i} => InFlight = {})]
          BY <2>1 DEF Start
        <4>2. QED
          BY <4>1
      <3>2. intact' \in [Iterations -> BOOLEAN]
        <4>1. intact' = [intact EXCEPT ![i] = ~drifted] /\ intact \in [Iterations -> BOOLEAN]
          BY <2>1 DEF Start, Flagged
        <4>2. (~drifted) \in BOOLEAN
          OBVIOUS
        <4>3. QED
          BY <4>1, <4>2
      <3>3. UNCHANGED <<cert, promoted, drifted, edits, promotionLock, tripped, halted>>
        BY <2>1 DEF Start, facts, files, switches
      <3>4. QED
        BY <3>1, <3>2, <3>3 DEF Flagged
    <2>2. CASE Verify(i)
      <3>1. PICK results \in [Graders -> BOOLEAN], answer \in CriticAnswers :
                \/ cert' = [cert EXCEPT ![i] = Certificate(results, Findings(answer))]
                \/ cert' = cert
        BY <2>2 DEF Verify
      <3>2. cert' \in [Iterations -> {None} \cup Certificates]
        BY <3>1, CertificateType DEF Flagged
      <3>3. UNCHANGED <<promoted, alone, intact, drifted, edits, promotionLock, tripped, halted>>
        BY <2>2 DEF Verify, files, switches, history
      <3>4. QED
        BY <3>2, <3>3 DEF Flagged
    <2>3. CASE Frontier(i) \/ Research(i) \/ Build(i) \/ Signed(i)
      BY <2>3, FlaggedKept
         DEF Frontier, Research, Build, Signed, Tripped, Refused, Passed, facts, files, switches
    <2>4. CASE \/ CheckPins(i) \/ VerifyRaises(i) \/ ConsolidateBlocked(i) \/ SignFails(i) \/ MarkFails(i)
      BY <2>4, FlaggedKept
         DEF CheckPins, VerifyRaises, ConsolidateBlocked, SignFails, MarkFails, Refused, Passed,
             facts, files, switches
    <2>5. CASE \/ SnapshotIds(i) \/ CheckClaim(i) \/ SignMismatch(i) \/ Announce(i) \/ CleanupLook(i)
               \/ CleanupDiscard(i) \/ CleanupNextTier(i) \/ CleanupEnd(i)
      BY <2>5, FlaggedKept
         DEF SnapshotIds, CheckClaim, SignMismatch, Announce, CleanupLook, CleanupDiscard,
             CleanupNextTier, CleanupEnd, facts, files, switches
    <2>6. CASE Consolidate(i) \/ ConsolidateBuggy(i) \/ Sign(i) \/ MarkVerified(i)
      BY <2>6, FlaggedKept
         DEF Consolidate, ConsolidateBuggy, Write, Sign, MarkVerified, facts, files, switches
    <2>7. CASE TakePromotionLock(i) \/ Promote(i) \/ PromoteFails(i) \/ Raise(i)
      BY <2>7, FlaggedKept DEF TakePromotionLock, Promote, PromoteFails, Raise, facts, files, switches
    <2>8. CASE WriteSkill(i) \/ MarkSkill(i) \/ HashSkill(i) \/ PromoteSkill(i) \/ SkillFails(i)
      BY <2>8, FlaggedKept
         DEF WriteSkill, MarkSkill, HashSkill, PromoteSkill, SkillFails, facts, files, switches
    <2>9. QED
      BY <1>4, <2>1, <2>2, <2>3, <2>4, <2>5, <2>6, <2>7, <2>8 DEF Iterate
  <1>5. QED
    BY <1>1, <1>2, <1>3, <1>4 DEF Next

\* A step of any iteration, whatever the others do, keeps what each iteration has
\* at its place and the one promotion lock.
THEOREM PlacesInvariant == Spec => []Shape
  BY ShapeInit, ShapeStep, PTL DEF Spec

\* The stores, the iterations and the flags have their types, and the promotion
\* lock is held exactly by the iteration inside promote().
THEOREM HierarchyTypes == Spec => []TypeOK
  <1>1. Shape /\ Flagged => TypeOK
    BY DEF Shape, Typed, OneInside, Flagged, TypeOK, SkillRecords
  <1>2. QED
    BY <1>1, ShapeInit, ShapeStep, FlaggedInit, FlaggedStep, PTL DEF Spec

-----------------------------------------------------------------------------
(* What goes live.                                                         *)

Promotions(i) == Promote(i) \/ PromoteSkill(i)

\* Only a promotion touches a live store.
LEMMA LiveKept ==
    ASSUME NEW i \in Iterations, Iterate(i), ~Promotions(i)
    PROVE  live' = live
  <1>1. CASE \/ Frontier(i) \/ Research(i) \/ Build(i) \/ Signed(i) \/ CheckPins(i) \/ VerifyRaises(i)
             \/ ConsolidateBlocked(i) \/ SignFails(i) \/ MarkFails(i) \/ Start(i) \/ Verify(i)
             \/ CheckClaim(i) \/ SignMismatch(i) \/ Announce(i) \/ CleanupEnd(i)
    <2>1. PICK to : Walks(i, to)
      BY <1>1, GatesWalk
    <2>2. QED
      BY <2>1 DEF Walks, stores
  <1>2. CASE SnapshotIds(i) \/ Raise(i) \/ TakePromotionLock(i) \/ PromoteFails(i)
    BY <1>2 DEF SnapshotIds, Raise, TakePromotionLock, PromoteFails, stores
  <1>3. CASE CleanupLook(i) \/ CleanupDiscard(i) \/ CleanupNextTier(i)
    BY <1>3 DEF CleanupLook, CleanupDiscard, CleanupNextTier, stores
  <1>4. CASE Consolidate(i) \/ ConsolidateBuggy(i) \/ Sign(i) \/ MarkVerified(i)
    BY <1>4 DEF Consolidate, ConsolidateBuggy, Write, Sign, MarkVerified, stores
  <1>5. CASE WriteSkill(i) \/ MarkSkill(i) \/ HashSkill(i) \/ SkillFails(i)
    BY <1>5 DEF WriteSkill, MarkSkill, HashSkill, SkillFails, stores
  <1>6. QED
    BY <1>1, <1>2, <1>3, <1>4, <1>5 DEF Iterate, Promotions

\* A step of one iteration leaves alone what is another's.
Untouched(j) ==
    /\ pc'[j] = pc[j] /\ entry'[j] = entry[j] /\ target'[j] = target[j] /\ why'[j] = why[j]
    /\ pre'[j] = pre[j] /\ scan'[j] = scan[j] /\ doomed'[j] = doomed[j]
    /\ promoted'[j] = promoted[j] /\ skill'[j] = skill[j]

\* A step of i leaves j alone.
LEMMA OthersUntouched ==
    ASSUME Shape, NEW i \in Iterations, Iterate(i), NEW j \in Iterations, i # j
    PROVE  Untouched(j)
  <1>1. /\ DOMAIN pc = Iterations /\ DOMAIN entry = Iterations /\ DOMAIN target = Iterations
        /\ DOMAIN why = Iterations /\ DOMAIN pre = Iterations /\ DOMAIN scan = Iterations
        /\ DOMAIN doomed = Iterations /\ DOMAIN promoted = Iterations /\ DOMAIN skill = Iterations
    BY DEF Shape, Typed
  <1>2. CASE \/ Frontier(i) \/ Research(i) \/ Build(i) \/ Signed(i) \/ CheckPins(i) \/ VerifyRaises(i)
             \/ ConsolidateBlocked(i) \/ SignFails(i) \/ MarkFails(i) \/ Start(i) \/ Verify(i)
             \/ CheckClaim(i) \/ SignMismatch(i) \/ Announce(i) \/ CleanupEnd(i)
    <2>1. PICK to : Walks(i, to)
      BY <1>2, GatesWalk
    <2>2. QED
      BY <1>1, <2>1 DEF Walks, Untouched, cleaning
  <1>3. CASE SnapshotIds(i)
    BY <1>1, <1>3 DEF SnapshotIds, Goto, facts, Untouched
  <1>4. CASE Raise(i) \/ TakePromotionLock(i) \/ PromoteFails(i)
    BY <1>1, <1>4 DEF Raise, TakePromotionLock, PromoteFails, Rollback, Goto, facts, cleaning, Untouched
  <1>5. CASE CleanupLook(i) \/ CleanupDiscard(i) \/ CleanupNextTier(i)
    BY <1>1, <1>5 DEF CleanupLook, CleanupDiscard, CleanupNextTier, Goto, facts, Untouched
  <1>6. CASE Consolidate(i) \/ ConsolidateBuggy(i)
    <2>1. PICK id, tier, claimed, stamp, librarian : Wrote(i, id, tier, claimed, stamp, librarian)
      BY <1>6, LibrarianWrites
    <2>2. QED
      BY <1>1, <2>1 DEF Wrote, Untouched
  <1>7. CASE Sign(i) \/ MarkVerified(i)
    BY <1>1, <1>7 DEF Sign, MarkVerified, Goto, facts, cleaning, Untouched
  <1>8. CASE Promote(i) \/ PromoteSkill(i)
    <2>1. PICK tier, id, pres, place :
              /\ Moved(i, tier, id, pres) /\ pc' = [pc EXCEPT ![i] = place]
              /\ promoted' \in {promoted, [promoted EXCEPT ![i] = TRUE]}
      BY <1>8, Promotes
    <2>2. QED
      BY <1>1, <2>1 DEF Moved, Untouched
  <1>9. CASE WriteSkill(i)
    <2>1. PICK id : SkillWritten(i, id)
      BY <1>9, SkillWrites
    <2>2. QED
      BY <1>1, <2>1 DEF SkillWritten, Untouched
  <1>10. CASE MarkSkill(i)
    BY <1>1, <1>10, Marks DEF Marked, Untouched
  <1>11. CASE HashSkill(i) \/ SkillFails(i)
    <2>1. PICK from, to, pres : PreSet(i, from, to, pres)
      BY <1>11, PresSet
    <2>2. QED
      BY <1>1, <2>1 DEF PreSet, Untouched
  <1>12. QED
    BY <1>2, <1>3, <1>4, <1>5, <1>6, <1>7, <1>8, <1>9, <1>10, <1>11 DEF Iterate

\* An iteration that ended does nothing more.
LEMMA EndedRests ==
    ASSUME NEW i \in Iterations, Iterate(i)
    PROVE  pc[i] \notin Ended
  <1>1. CASE \/ Frontier(i) \/ Research(i) \/ Build(i) \/ Signed(i) \/ CheckPins(i) \/ VerifyRaises(i)
             \/ ConsolidateBlocked(i) \/ SignFails(i) \/ MarkFails(i) \/ Start(i) \/ Verify(i)
             \/ CheckClaim(i) \/ SignMismatch(i) \/ Announce(i) \/ CleanupEnd(i)
    <2>1. PICK to : Walks(i, to)
      BY <1>1, GatesWalk
    <2>2. QED
      BY <2>1 DEF Walks, Onward, Ended, BeforeEntry, Early, OnTheWay, Sealed
  <1>2. CASE Raise(i)
    BY <1>2 DEF Raise, InFlight
  <1>3. CASE SnapshotIds(i) \/ Consolidate(i) \/ ConsolidateBuggy(i) \/ Sign(i) \/ MarkVerified(i)
    BY <1>3 DEF SnapshotIds, Consolidate, ConsolidateBuggy, Sign, MarkVerified, Ended
  <1>4. CASE \/ TakePromotionLock(i) \/ Promote(i) \/ PromoteFails(i) \/ CleanupLook(i)
             \/ CleanupDiscard(i) \/ CleanupNextTier(i)
    BY <1>4 DEF TakePromotionLock, Promote, PromoteFails, CleanupLook, CleanupDiscard, CleanupNextTier, Ended
  <1>5. CASE WriteSkill(i) \/ MarkSkill(i) \/ HashSkill(i) \/ PromoteSkill(i) \/ SkillFails(i)
    BY <1>5 DEF WriteSkill, MarkSkill, HashSkill, PromoteSkill, SkillFails, InSkillPath, Ended
  <1>6. QED
    BY <1>1, <1>2, <1>3, <1>4, <1>5 DEF Iterate

\* A promotion leaves the rest of the live stores alone,
LEMMA LiveElsewhere ==
    ASSUME Shape, NEW i, NEW tier \in Tiers, NEW id \in EntryIds, NEW pres, Moved(i, tier, id, pres),
           NEW t \in Tiers, NEW k \in EntryIds, t # tier \/ k # id
    PROVE  live'[t][k] = live[t][k]
  <1>1. live' = [live EXCEPT ![tier] = Promoted(candidate[tier], live[tier], <<id>>)] /\ DOMAIN live = Tiers
    BY DEF Moved, Shape, Typed
  <1>2. k # id => Promoted(candidate[tier], live[tier], <<id>>)[k] = live[tier][k]
    BY DEF Promoted, Named
  <1>3. QED
    BY <1>1, <1>2

\* and makes the candidate a new live entry.
LEMMA LiveThere ==
    ASSUME Shape, NEW i, NEW tier \in Tiers, NEW id \in EntryIds, NEW pres, Moved(i, tier, id, pres)
    PROVE  /\ live'[tier][id] # Absent /\ live'[tier] # live[tier]
           /\ live'[tier][id].content = candidate[tier][id].content
  <1>1. live' = [live EXCEPT ![tier] = Promoted(candidate[tier], live[tier], <<id>>)] /\ live \in [Tiers -> Dict]
    BY DEF Moved, Shape, Typed
  <1>2. Promoted(candidate[tier], live[tier], <<id>>)[id] = [candidate[tier][id] EXCEPT !.trust = PROMOTED]
    BY DEF Promoted, Named
  <1>3. live'[tier][id] = [candidate[tier][id] EXCEPT !.trust = PROMOTED]
    BY <1>1, <1>2
  <1>4. candidate[tier][id] \in Entry
    BY DEF Moved, Shape, Typed, Dict
  <1>5. /\ live'[tier][id] \in Entry /\ live'[tier][id].trust = PROMOTED
        /\ live'[tier][id].content = candidate[tier][id].content
    BY <1>3, <1>4 DEF Entry, TrustLevels, PROMOTED, DEPRECATED
  <1>6. live'[tier][id] # Absent
    BY <1>5, AbsentIsNoEntry
  <1>7. live[tier][id] # Absent => live[tier][id].trust # PROMOTED
    <2>1. live[tier][id] # Absent => ValidPromotion(live[tier][id].trust, PROMOTED)
      BY DEF Moved, EntryPromotable
    <2>2. \A trust : ValidPromotion(trust, PROMOTED) => trust # PROMOTED
      BY DEF ValidPromotion, PROMOTED, DEPRECATED
    <2>3. QED
      BY <2>1, <2>2
  <1>8. live'[tier][id] # live[tier][id]
    BY <1>5, <1>6, <1>7
  <1>9. QED
    BY <1>5, <1>6, <1>8

\* No live store holds anything at the start.
LEMMA SkillsInit == Init => ProceduralOnlySkills
  BY DEF Init, ProceduralOnlySkills, EmptyDict

\* Only a skill path passes the tier check of a tier the Librarian may not write.
LEMMA SkillsStep == Shape /\ ProceduralOnlySkills /\ [Next]_vars => ProceduralOnlySkills'
  <1> SUFFICES ASSUME Shape, ProceduralOnlySkills, [Next]_vars,
                      NEW t \in Tiers, NEW id \in EntryIds,
                      ~MayWriteTier("librarian", t), live'[t][id] # Absent
               PROVE  \E i \in Iterations : promoted'[i] /\ skill'[i].id = id /\ pc'[i] = "skilled"
    BY DEF ProceduralOnlySkills
  <1>1. live[t][id] # Absent =>
            \E i \in Iterations : promoted[i] /\ skill[i].id = id /\ pc[i] = "skilled"
    BY DEF ProceduralOnlySkills
  <1>2. CASE UNCHANGED vars \/ Halt \/ EditGraders
    BY <1>1, <1>2 DEF vars, Halt, EditGraders, stores, facts
  <1>3. ASSUME NEW j \in Iterations, Iterate(j)
        PROVE  \E i \in Iterations : promoted'[i] /\ skill'[i].id = id /\ pc'[i] = "skilled"
    <2>1. CASE live'[t][id] = live[t][id]
      <3>1. PICK i \in Iterations : promoted[i] /\ skill[i].id = id /\ pc[i] = "skilled"
        BY <1>1, <2>1
      <3>2. Untouched(i)
        BY <1>3, <3>1, EndedRests, OthersUntouched DEF Ended
      <3>3. QED
        BY <3>1, <3>2 DEF Untouched
    <2>2. CASE Promote(j)
      <3>1. Moved(j, target[j], entry[j].id, why[j]) /\ MayWriteTier("librarian", target[j]) /\ pc[j] = "promoting"
        BY <2>2, Promotes
      <3>2. target[j] \in Tiers /\ entry[j].id \in EntryIds /\ t # target[j]
        BY <3>1 DEF Shape, Typed, Fitting, Fits, OnTheWay, Sealed
      <3>3. live'[t][id] = live[t][id]
        BY <3>1, <3>2, LiveElsewhere
      <3>4. QED
        BY <2>1, <3>3
    <2>3. CASE PromoteSkill(j)
      <3>1. /\ Moved(j, SkillTier, skill[j].id, skill[j].pre)
            /\ pc[j] = "skill-hashed" /\ pc' = [pc EXCEPT ![j] = "skilled"]
            /\ UNCHANGED <<promoted, promotionLock>>
        BY <2>3, Promotes
      <3>2. SkillTier \in Tiers /\ skill[j].id \in EntryIds /\ promoted[j]
        BY <3>1, SkillTierExists DEF Shape, Fitting, Fits, WithSkill
      <3>3. CASE t = SkillTier /\ id = skill[j].id
        BY <3>1, <3>2, <3>3 DEF Moved, Shape, Typed
      <3>4. CASE ~(t = SkillTier /\ id = skill[j].id)
        <4>1. live'[t][id] = live[t][id]
          BY <3>1, <3>2, <3>4, LiveElsewhere
        <4>2. QED
          BY <2>1, <4>1
      <3>5. QED
        BY <3>3, <3>4
    <2>4. CASE ~Promotions(j)
      BY <1>3, <2>1, <2>4, LiveKept
    <2>5. QED
      BY <2>2, <2>3, <2>4 DEF Promotions
  <1>4. QED
    BY <1>2, <1>3 DEF Next

\* In a tier the Librarian may not write to only skills go live, each after the
\* promotion of the iteration that made it.
THEOREM OnlySkillsAreProcedural == Spec => []ProceduralOnlySkills
  BY ShapeInit, ShapeStep, SkillsInit, SkillsStep, PTL DEF Spec

-----------------------------------------------------------------------------
(* The cleanup.  A candidate says which iteration wrote it, and its stamp, *)
(* if it has one, says the same (Stamped).  An iteration has written       *)
(* nothing before its Librarian was called, and afterwards no unstamped    *)
(* candidate but the one it was told of.  So the entries that cleanup      *)
(* takes for its own are all there are, except an unstamped one that       *)
(* replaced an entry; and the tiers it has visited stay clean, because     *)
(* nobody else writes what is its own.                                     *)

Is(t, id, i) == candidate[t][id] # Absent /\ candidate[t][id].content = i

Stamped ==
    \A t \in Tiers, id \in EntryIds :
        candidate[t][id] # Absent => candidate[t][id].writer \in {candidate[t][id].content, None}

Spared(i, t, id) == candidate[t][id].writer = None /\ id \in pre[i][t]

Cleared(i, t) == \A id \in EntryIds : Is(t, id, i) => Spared(i, t, id)

\* What the tiers hold of iteration i: nothing before its Librarian was called,
NothingYet(i) == pc[i] \in BeforeEntry => \A t \in Tiers, id \in EntryIds : ~Is(t, id, i)

\* then no unstamped candidate but the one the iteration was told of,
OneBare(i) ==
    pc[i] \in OnTheWay \cup Cleaning =>
        \A t \in Tiers, id \in EntryIds :
            Is(t, id, i) /\ candidate[t][id].writer = None => id = entry[i].id

\* nothing in a tier the cleanup has left,
Swept(i) == pc[i] \in Cleaning => \A n \in 1 .. scan[i] : Cleared(i, TierOrder[n])

\* what is doomed in the tier it is in,
Sweeping(i) ==
    pc[i] = "discarding" =>
        \A id \in EntryIds :
            Is(TierOrder[scan[i] + 1], id, i) =>
                Spared(i, TierOrder[scan[i] + 1], id) \/ id \in doomed[i]

\* and nothing at its end.
SweptOut(i) == pc[i] = "mismatched" => \A t \in Tiers : Cleared(i, t)

Holds(i) == NothingYet(i) /\ OneBare(i) /\ Swept(i) /\ Sweeping(i) /\ SweptOut(i)

Held == Stamped /\ \A i \in Iterations : Holds(i)

\* There are no candidates at the start.
LEMMA HeldInit == Init => Held
  BY DEF Init, Held, Stamped, Holds, NothingYet, OneBare, Swept, Sweeping, SweptOut, Is, EmptyDict,
         BeforeEntry, Early, OnTheWay, Sealed, Cleaning

\* No candidate of iteration j is new or stamped anew.
Loses(j) ==
    \A t \in Tiers, k \in EntryIds :
        Is(t, k, j)' => Is(t, k, j) /\ candidate'[t][k].writer = candidate[t][k].writer

\* Every call but a write takes candidates away or keeps content and stamp.
Shrinks ==
    \A t \in Tiers, k \in EntryIds :
        candidate'[t][k] # Absent =>
            /\ candidate[t][k] # Absent
            /\ candidate'[t][k].content = candidate[t][k].content
            /\ candidate'[t][k].writer = candidate[t][k].writer

\* Marking keeps contents and stamps.
LEMMA MarkShrinks ==
    ASSUME Shape, NEW i \in Iterations, NEW tier \in Tiers, NEW id \in EntryIds, NEW from, NEW to,
           Marked(i, tier, id, from, to)
    PROVE  Shrinks
  <1> SUFFICES ASSUME NEW t \in Tiers, NEW k \in EntryIds, candidate'[t][k] # Absent
               PROVE  /\ candidate[t][k] # Absent
                      /\ candidate'[t][k].content = candidate[t][k].content
                      /\ candidate'[t][k].writer = candidate[t][k].writer
    BY DEF Shrinks
  <1>1. candidate' = [candidate EXCEPT ![tier] = MarkedVerified(candidate[tier], <<id>>)]
    BY DEF Marked
  <1>2. candidate[tier][id] # Absent /\ candidate[tier][id] \in Entry
    BY DEF Marked, VerifyAccepts, Named, Shape, Typed, Dict
  <1>3. MarkedVerified(candidate[tier], <<id>>)[k] \in
            {candidate[tier][k], IF k = id THEN [candidate[tier][k] EXCEPT !.trust = VERIFIED] ELSE candidate[tier][k]}
    BY DEF MarkedVerified, Named
  <1>4. CASE t = tier /\ k = id
    <2>1. [candidate[tier][id] EXCEPT !.trust = VERIFIED].content = candidate[tier][id].content
          /\ [candidate[tier][id] EXCEPT !.trust = VERIFIED].writer = candidate[tier][id].writer
      BY <1>2 DEF Entry
    <2>2. candidate'[t][k] = MarkedVerified(candidate[tier], <<id>>)[k]
      BY <1>1, <1>4 DEF Shape, Typed
    <2>3. QED
      BY <1>2, <1>3, <1>4, <2>1, <2>2
  <1>5. CASE ~(t = tier /\ k = id)
    BY <1>1, <1>3, <1>5 DEF Shape, Typed
  <1>6. QED
    BY <1>4, <1>5

\* Removing an id takes a candidate away.
LEMMA RemoveShrinks ==
    ASSUME Shape, NEW tier \in Tiers, NEW id \in EntryIds,
           candidate' = [candidate EXCEPT ![tier] = Remove(candidate[tier], {id})]
    PROVE  Shrinks /\ candidate'[tier][id] = Absent
  BY DEF Shrinks, Remove, Shape, Typed

Writes(i) == Consolidate(i) \/ ConsolidateBuggy(i) \/ WriteSkill(i)

\* No step but a write adds to the candidates.
LEMMA CandidatesShrink ==
    ASSUME Shape, NEW i \in Iterations, Iterate(i), ~Writes(i)
    PROVE  Shrinks
  <1>1. CASE candidate' = candidate
    BY <1>1 DEF Shrinks
  <1>2. CASE \/ Frontier(i) \/ Research(i) \/ Build(i) \/ Signed(i) \/ CheckPins(i) \/ VerifyRaises(i)
             \/ ConsolidateBlocked(i) \/ SignFails(i) \/ MarkFails(i) \/ Start(i) \/ Verify(i)
             \/ CheckClaim(i) \/ SignMismatch(i) \/ Announce(i) \/ CleanupEnd(i)
    <2>1. PICK to : Walks(i, to)
      BY <1>2, GatesWalk
    <2>2. QED
      BY <1>1, <2>1 DEF Walks, stores
  <1>3. CASE SnapshotIds(i) \/ Raise(i) \/ TakePromotionLock(i) \/ PromoteFails(i) \/ Sign(i)
    BY <1>1, <1>3 DEF SnapshotIds, Raise, TakePromotionLock, PromoteFails, Sign, stores
  <1>4. CASE CleanupLook(i) \/ CleanupNextTier(i) \/ HashSkill(i) \/ SkillFails(i)
    BY <1>1, <1>4 DEF CleanupLook, CleanupNextTier, HashSkill, SkillFails, stores
  <1>5. CASE CleanupDiscard(i)
    <2>1. PICK tier \in Tiers, id \in EntryIds : Discards(i, tier, id)
      BY <1>5, CleanupDiscards
    <2>2. candidate' = [candidate EXCEPT ![tier] = Remove(candidate[tier], {id})]
      BY <2>1 DEF Discards
    <2>3. QED
      BY <2>2, RemoveShrinks
  <1>6. CASE MarkVerified(i)
    <2>1. Marked(i, target[i], entry[i].id, "mark", "marked")
      BY <1>6, Marks
    <2>2. target[i] \in Tiers /\ entry[i].id \in EntryIds
      BY <2>1 DEF Shape, Typed, Fitting, Fits, Marked, OnTheWay, Sealed
    <2>3. QED
      BY <2>1, <2>2, MarkShrinks
  <1>7. CASE MarkSkill(i)
    <2>1. Marked(i, SkillTier, skill[i].id, "skill-written", "skill-marked")
      BY <1>7, Marks
    <2>2. SkillTier \in Tiers /\ skill[i].id \in EntryIds
      BY <2>1, SkillTierExists DEF Shape, Fitting, Fits, Marked, WithSkill
    <2>3. QED
      BY <2>1, <2>2, MarkShrinks
  <1>8. CASE Promote(i)
    <2>1. Moved(i, target[i], entry[i].id, why[i]) /\ pc[i] = "promoting"
      BY <1>8, Promotes
    <2>2. target[i] \in Tiers /\ entry[i].id \in EntryIds
      BY <2>1 DEF Shape, Typed, Fitting, Fits, OnTheWay, Sealed
    <2>3. candidate' = [candidate EXCEPT ![target[i]] = Remove(candidate[target[i]], {entry[i].id})]
      BY <2>1 DEF Moved
    <2>4. QED
      BY <2>2, <2>3, RemoveShrinks
  <1>9. CASE PromoteSkill(i)
    <2>1. Moved(i, SkillTier, skill[i].id, skill[i].pre) /\ pc[i] = "skill-hashed"
      BY <1>9, Promotes
    <2>2. SkillTier \in Tiers /\ skill[i].id \in EntryIds
      BY <2>1, SkillTierExists DEF Shape, Fitting, Fits, WithSkill
    <2>3. candidate' = [candidate EXCEPT ![SkillTier] = Remove(candidate[SkillTier], {skill[i].id})]
      BY <2>1 DEF Moved
    <2>4. QED
      BY <2>2, <2>3, RemoveShrinks
  <1>10. QED
    BY <1>2, <1>3, <1>4, <1>5, <1>6, <1>7, <1>8, <1>9 DEF Iterate, Writes

\* A write puts one candidate in its place.
NewAt(i, tier, id, stamp) ==
    /\ candidate'[tier][id] # Absent /\ candidate'[tier][id].content = i
    /\ candidate'[tier][id].writer = stamp
    /\ \A t \in Tiers, k \in EntryIds : t # tier \/ k # id => candidate'[t][k] = candidate[t][k]

\* Overwriting the tier under one id is such a write.
LEMMA OneNew ==
    ASSUME Shape, NEW i \in Iterations, NEW tier \in Tiers, NEW id \in EntryIds, NEW stamp \in {i, None},
           candidate' = [candidate EXCEPT ![tier] =
               Overwrite(@, [k \in {id} |-> [content |-> i, trust |-> CANDIDATE,
                                             writer |-> stamp, reason |-> None]])]
    PROVE  NewAt(i, tier, id, stamp)
  <1> DEFINE new == [content |-> i, trust |-> CANDIDATE, writer |-> stamp, reason |-> None]
  <1>1. new # Absent /\ new.content = i /\ new.writer = stamp
    BY WrittenIsEntry, AbsentIsNoEntry
  <1>2. candidate' = [candidate EXCEPT ![tier] = Overwrite(candidate[tier], [k \in {id} |-> new])]
        /\ DOMAIN candidate = Tiers
    BY DEF Shape, Typed
  <1> HIDE DEF new
  <1>3. \A k \in EntryIds :
            Overwrite(candidate[tier], [m \in {id} |-> new])[k] = IF k = id THEN new ELSE candidate[tier][k]
    BY DEF Overwrite
  <1>4. QED
    BY <1>1, <1>2, <1>3 DEF NewAt

\* What is another's is not touched by a write.
LEMMA WritesLose ==
    ASSUME NEW i \in Iterations, NEW tier \in Tiers, NEW id \in EntryIds, NEW stamp, NewAt(i, tier, id, stamp),
           NEW j \in Iterations, i # j
    PROVE  Loses(j)
  BY DEF NewAt, Loses, Is

\* Who only takes away adds to nobody.
LEMMA ShrinkLoses ==
    ASSUME Shrinks, NEW j
    PROVE  Loses(j)
  BY DEF Shrinks, Loses, Is

\* An iteration that does nothing still holds what it may when it only loses.
LEMMA OthersHold ==
    ASSUME Shape, NEW j \in Iterations, Holds(j), Untouched(j), Loses(j)
    PROVE  Holds(j)'
  <1>1. /\ pc'[j] = pc[j] /\ entry'[j] = entry[j] /\ pre'[j] = pre[j] /\ scan'[j] = scan[j]
        /\ doomed'[j] = doomed[j]
    BY DEF Untouched
  <1>2. NothingYet(j)' /\ OneBare(j)'
    BY <1>1 DEF Holds, NothingYet, OneBare, Loses
  <1>3. ASSUME NEW t \in Tiers, Cleared(j, t) PROVE Cleared(j, t)'
    BY <1>1, <1>3 DEF Cleared, Spared, Loses
  <1>4. Swept(j)'
    <2> SUFFICES ASSUME pc[j] \in Cleaning, NEW n \in 1 .. scan[j] PROVE Cleared(j, TierOrder[n])'
      BY <1>1 DEF Swept
    <2>1. TierOrder[n] \in Tiers
      BY TierList DEF Shape, Typed
    <2>2. Cleared(j, TierOrder[n])
      BY DEF Holds, Swept
    <2>3. QED
      BY <1>3, <2>1, <2>2
  <1>5. Sweeping(j)'
    <2>1. CASE pc[j] = "discarding"
      <3>1. scan[j] \in Nat /\ scan[j] < Len(TierOrder)
        BY <2>1, TierList DEF Shape, Typed, Fitting, Fits
      <3>2. TierOrder[scan[j] + 1] \in Tiers
        BY <3>1, NextTier
      <3> DEFINE t == TierOrder[scan[j] + 1]
      <3>3. \A id \in EntryIds : Is(t, id, j) => Spared(j, t, id) \/ id \in doomed[j]
        BY <2>1 DEF Holds, Sweeping
      <3>4. t \in Tiers
        BY <3>2
      <3>5. t' = TierOrder[scan'[j] + 1] /\ t' = t
        BY <1>1
      <3> HIDE DEF t
      <3>6. \A id \in EntryIds : Is(t, id, j)' => candidate'[t'][id] # Absent /\ candidate'[t'][id].content = j
        BY DEF Is
      <3>7. ASSUME NEW id \in EntryIds, candidate'[t][id] # Absent, candidate'[t][id].content = j
            PROVE  (candidate'[t][id].writer = None /\ id \in pre'[j][t]) \/ id \in doomed'[j]
        BY <1>1, <3>3, <3>4, <3>7 DEF Is, Spared, Loses
      <3>8. \A id \in EntryIds :
                candidate'[TierOrder[scan'[j] + 1]][id] # Absent /\ candidate'[TierOrder[scan'[j] + 1]][id].content = j
                => (candidate'[TierOrder[scan'[j] + 1]][id].writer = None /\ id \in pre'[j][TierOrder[scan'[j] + 1]])
                   \/ id \in doomed'[j]
        BY <3>5, <3>7
      <3>9. QED
        BY <3>8 DEF Sweeping, Is, Spared
    <2>2. CASE pc[j] # "discarding"
      BY <1>1, <2>2 DEF Sweeping
    <2>3. QED
      BY <2>1, <2>2
  <1>6. SweptOut(j)'
    BY <1>1, <1>3 DEF Holds, SweptOut
  <1>7. QED
    BY <1>2, <1>4, <1>5, <1>6 DEF Holds

\* The iteration that takes a step: nothing is asked of it at its other places.
LEMMA HoldsNothing ==
    ASSUME NEW i, pc'[i] \notin BeforeEntry \cup OnTheWay \cup Cleaning \cup {"mismatched"}
    PROVE  Holds(i)'
  BY DEF Holds, NothingYet, OneBare, Swept, Sweeping, SweptOut, Cleaning

\* Nor is more asked of it on its way from the Librarian on.
LEMMA HoldsOn ==
    ASSUME NEW i \in Iterations, Holds(i), Loses(i), pc[i] \in OnTheWay, entry'[i] = entry[i],
           \/ pc'[i] \in OnTheWay
           \/ pc'[i] = "cleanup" /\ scan'[i] = 0
    PROVE  Holds(i)'
  <1>1. OneBare(i)'
    BY DEF Holds, OneBare, Loses
  <1>2. NothingYet(i)' /\ Sweeping(i)' /\ SweptOut(i)'
    BY DEF NothingYet, Sweeping, SweptOut, OnTheWay, Sealed, BeforeEntry, Early
  <1>3. Swept(i)'
    BY DEF Swept, OnTheWay, Sealed, Cleaning
  <1>4. QED
    BY <1>1, <1>2, <1>3 DEF Holds

\* The gates: they reach the cleanup's end when it has visited every tier.
LEMMA HoldsWalk ==
    ASSUME Shape, NEW i \in Iterations, Holds(i), NEW to, Walks(i, to)
    PROVE  Holds(i)'
  <1>1. /\ pc'[i] = to /\ Onward(i, to)
        /\ UNCHANGED <<candidate, entry, pre, scan, doomed>>
    BY DEF Walks, Shape, Typed, stores, cleaning
  <1>2. Loses(i)
    BY <1>1 DEF Loses, Is
  <1>3. CASE to \in BeforeEntry /\ pc[i] \in BeforeEntry
    <2>1. NothingYet(i)'
      BY <1>1, <1>3 DEF Holds, NothingYet, Is
    <2>2. QED
      BY <1>1, <1>3, <2>1 DEF Holds, OneBare, Swept, Sweeping, SweptOut, Cleaning, OnTheWay, Sealed,
                              BeforeEntry, Early
  <1>4. CASE to \in OnTheWay \cup {"cleanup"}
    <2>1. pc[i] \in OnTheWay /\ (to = "cleanup" => pc[i] \in {"consolidated", "sign"})
      BY <1>1, <1>4 DEF Onward, OnTheWay, Sealed, BeforeEntry, Early
    <2>2. to = "cleanup" => scan'[i] = 0
      BY <1>1, <2>1 DEF Shape, Fitting, Fits
    <2>3. QED
      BY <1>1, <1>2, <1>4, <2>1, <2>2, HoldsOn
  <1>5. CASE to = "mismatched"
    <2>1. pc[i] = "cleanup" /\ scan[i] = Len(TierOrder)
      BY <1>1, <1>5 DEF Onward, Early
    <2>2. \A n \in 1 .. Len(TierOrder) : Cleared(i, TierOrder[n])
      BY <2>1 DEF Holds, Swept, Cleaning
    <2>3. \A t \in Tiers : Cleared(i, t)
      BY <2>2, TierList
    <2>4. SweptOut(i)'
      BY <1>1, <2>3 DEF SweptOut, Cleared, Is, Spared
    <2>5. QED
      BY <1>1, <1>5, <2>4 DEF Holds, NothingYet, OneBare, Swept, Sweeping, Cleaning, OnTheWay, Sealed,
                              BeforeEntry, Early
  <1>6. CASE to \in {"rolled-back", "promoted", "skill"}
    BY <1>1, <1>6, HoldsNothing DEF Cleaning, OnTheWay, Sealed, BeforeEntry, Early
  <1>7. QED
    BY <1>1, <1>3, <1>4, <1>5, <1>6 DEF Onward, OnTheWay, Sealed, BeforeEntry

\* The Librarian writes the first candidate of its iteration.
LEMMA HoldsWrite ==
    ASSUME NEW i \in Iterations, Shape, Holds(i), Consolidate(i) \/ ConsolidateBuggy(i)
    PROVE  Holds(i)'
  <1>1. PICK id, tier, claimed, stamp, librarian : Wrote(i, id, tier, claimed, stamp, librarian)
    BY LibrarianWrites
  <1>2. /\ pc[i] = "consolidate" /\ pc'[i] = "consolidated" /\ entry'[i].id = id
        /\ id \in EntryIds /\ tier \in Tiers /\ stamp \in {i, None}
    BY <1>1 DEF Wrote, Shape, Typed
  <1>3. NewAt(i, tier, id, stamp)
    BY <1>1, <1>2, OneNew DEF Wrote
  <1>4. \A t \in Tiers, k \in EntryIds : ~Is(t, k, i)
    BY <1>2 DEF Holds, NothingYet, BeforeEntry
  <1>5. \A t \in Tiers, k \in EntryIds : Is(t, k, i)' => k = id
    BY <1>3, <1>4 DEF NewAt, Is
  <1>6. OneBare(i)'
    BY <1>2, <1>5 DEF OneBare
  <1>7. QED
    BY <1>2, <1>6 DEF Holds, NothingYet, Swept, Sweeping, SweptOut, Cleaning, BeforeEntry, Early

\* What is this iteration's in a tier is doomed or spared.
LEMMA HoldsLook ==
    ASSUME Shape, NEW i \in Iterations, Held, CleanupLook(i)
    PROVE  Holds(i)'
  <1> DEFINE tier == TierOrder[scan[i] + 1]
  <1>1. /\ pc[i] = "cleanup" /\ scan[i] < Len(TierOrder) /\ pc'[i] = "discarding"
        /\ UNCHANGED <<candidate, entry, pre, scan>>
        /\ doomed'[i] = {id \in EntryIds : IsOurs(i, tier, id)}
    BY DEF CleanupLook, Goto, Shape, Typed, facts, stores
  <1>2. tier \in Tiers
    BY <1>1, NextTier, TierList DEF Shape, Typed
  <1> HIDE DEF tier
  <1>3. \A id \in EntryIds : Is(tier, id, i) => Spared(i, tier, id) \/ id \in doomed'[i]
    <2> SUFFICES ASSUME NEW id \in EntryIds, Is(tier, id, i) PROVE Spared(i, tier, id) \/ IsOurs(i, tier, id)
      BY <1>1
    <2>1. candidate[tier][id] # Absent /\ candidate[tier][id].writer \in {i, None}
      BY <1>2 DEF Held, Stamped, Is
    <2>2. candidate[tier][id].writer = None => id = entry[i].id
      BY <1>1, <1>2 DEF Held, Holds, OneBare, Cleaning
    <2>3. QED
      BY <2>1, <2>2 DEF Spared, IsOurs
  <1>4. Sweeping(i)'
    BY <1>1, <1>3 DEF Sweeping, Is, Spared, tier
  <1>5. OneBare(i)' /\ Swept(i)'
    BY <1>1 DEF Held, Holds, OneBare, Swept, Is, Spared, Cleared, Cleaning
  <1>6. QED
    BY <1>1, <1>4, <1>5 DEF Holds, NothingYet, SweptOut, BeforeEntry, Early

\* Taking away a candidate of the tier leaves the others doomed or spared.
LEMMA HoldsDiscard ==
    ASSUME Shape, NEW i \in Iterations, Holds(i), CleanupDiscard(i)
    PROVE  Holds(i)'
  <1>1. PICK tier \in Tiers, id \in EntryIds : Discards(i, tier, id)
    BY CleanupDiscards
  <1>2. /\ pc[i] = "discarding" /\ tier = TierOrder[scan[i] + 1]
        /\ doomed'[i] = doomed[i] \ {id}
        /\ candidate' = [candidate EXCEPT ![tier] = Remove(candidate[tier], {id})]
        /\ UNCHANGED <<pc, entry, pre, scan>>
    BY <1>1 DEF Discards, Shape, Typed
  <1>3. Shrinks /\ candidate'[tier][id] = Absent
    BY <1>2, RemoveShrinks
  <1>4. Loses(i)
    BY <1>3, ShrinkLoses
  <1>5. OneBare(i)'
    BY <1>2, <1>4 DEF Holds, OneBare, Loses
  <1>6. Swept(i)'
    <2> SUFFICES ASSUME NEW n \in 1 .. scan[i] PROVE Cleared(i, TierOrder[n])'
      BY <1>2 DEF Swept
    <2>1. TierOrder[n] \in Tiers
      BY TierList DEF Shape, Typed
    <2>2. Cleared(i, TierOrder[n])
      BY <1>2 DEF Holds, Swept, Cleaning
    <2>3. QED
      BY <1>2, <1>4, <2>1, <2>2 DEF Cleared, Spared, Loses
  <1>7. ASSUME NEW k \in EntryIds, candidate'[tier][k] # Absent, candidate'[tier][k].content = i
        PROVE  (candidate'[tier][k].writer = None /\ k \in pre'[i][tier]) \/ k \in doomed'[i]
    <2>1. Is(tier, k, i) => Spared(i, tier, k) \/ k \in doomed[i]
      BY <1>2 DEF Holds, Sweeping
    <2>2. Is(tier, k, i) /\ candidate'[tier][k].writer = candidate[tier][k].writer
      BY <1>4, <1>7 DEF Loses, Is
    <2>3. k # id
      BY <1>3, <1>7
    <2>4. QED
      BY <1>2, <2>1, <2>2, <2>3 DEF Spared
  <1>8. Sweeping(i)'
    <2>1. TierOrder[scan'[i] + 1] = tier
      BY <1>2
    <2>2. QED
      BY <1>7, <2>1 DEF Sweeping, Is, Spared
  <1>9. QED
    BY <1>2, <1>5, <1>6, <1>8 DEF Holds, NothingYet, SweptOut, BeforeEntry, Early

\* A tier of which nothing is left to discard is clean.
LEMMA HoldsNext ==
    ASSUME Shape, NEW i \in Iterations, Holds(i), CleanupNextTier(i)
    PROVE  Holds(i)'
  <1>1. /\ pc[i] = "discarding" /\ doomed[i] = {} /\ pc'[i] = "cleanup"
        /\ scan'[i] = scan[i] + 1 /\ scan[i] \in Nat
        /\ UNCHANGED <<candidate, entry, pre>>
    BY TierList DEF CleanupNextTier, Goto, Shape, Typed, facts, stores
  <1>2. Cleared(i, TierOrder[scan[i] + 1])
    BY <1>1 DEF Holds, Sweeping, Cleared
  <1>3. \A n \in 1 .. scan[i] : Cleared(i, TierOrder[n])
    BY <1>1 DEF Holds, Swept, Cleaning
  <1>4. \A n \in 1 .. scan[i] + 1 : n \in 1 .. scan[i] \/ n = scan[i] + 1
    BY <1>1
  <1>5. \A n \in 1 .. scan'[i] : Cleared(i, TierOrder[n])
    BY <1>1, <1>2, <1>3, <1>4
  <1>6. Swept(i)'
    BY <1>1, <1>5 DEF Swept, Cleared, Is, Spared
  <1>7. OneBare(i)'
    BY <1>1 DEF Holds, OneBare, Is, Cleaning
  <1>8. QED
    BY <1>1, <1>6, <1>7 DEF Holds, NothingYet, Sweeping, SweptOut, BeforeEntry, Early

\* The Librarian or a skill's author writes one candidate.
LEMMA WritesNew ==
    ASSUME Shape, NEW i \in Iterations, Writes(i)
    PROVE  \E tier \in Tiers, id \in EntryIds, stamp \in {i, None} : NewAt(i, tier, id, stamp)
  <1>1. CASE Consolidate(i) \/ ConsolidateBuggy(i)
    <2>1. PICK id, tier, claimed, stamp, librarian : Wrote(i, id, tier, claimed, stamp, librarian)
      BY <1>1, LibrarianWrites
    <2>2. id \in EntryIds /\ tier \in Tiers /\ stamp \in {i, None}
      BY <2>1 DEF Wrote
    <2>3. NewAt(i, tier, id, stamp)
      BY <2>1, <2>2, OneNew DEF Wrote
    <2>4. QED
      BY <2>2, <2>3
  <1>2. CASE WriteSkill(i)
    <2>1. PICK id : SkillWritten(i, id)
      BY <1>2, SkillWrites
    <2>2. id \in EntryIds /\ SkillTier \in Tiers
      BY <2>1, SkillTierExists DEF SkillWritten, Shape, Fitting, Fits
    <2>3. NewAt(i, SkillTier, id, None)
      BY <2>1, <2>2, OneNew DEF SkillWritten
    <2>4. QED
      BY <2>2, <2>3
  <1>3. QED
    BY <1>1, <1>2 DEF Writes

\* Stamps stay what they were.
LEMMA StampedStep ==
    ASSUME Shape, Stamped, NEW i \in Iterations, Iterate(i)
    PROVE  Stamped'
  <1>1. CASE Writes(i)
    <2>1. PICK tier \in Tiers, id \in EntryIds, stamp \in {i, None} : NewAt(i, tier, id, stamp)
      BY <1>1, WritesNew
    <2>2. QED
      BY <2>1 DEF Stamped, NewAt
  <1>2. CASE ~Writes(i)
    <2>1. Shrinks
      BY <1>2, CandidatesShrink
    <2>2. QED
      BY <2>1 DEF Stamped, Shrinks
  <1>3. QED
    BY <1>1, <1>2

\* The iteration that takes the step holds what it may.
LEMMA MoverHolds ==
    ASSUME Shape, Held, NEW i \in Iterations, Iterate(i)
    PROVE  Holds(i)'
  <1>1. Holds(i)
    BY DEF Held
  <1>2. CASE \/ Frontier(i) \/ Research(i) \/ Build(i) \/ Signed(i) \/ CheckPins(i) \/ VerifyRaises(i)
             \/ ConsolidateBlocked(i) \/ SignFails(i) \/ MarkFails(i) \/ Start(i) \/ Verify(i)
             \/ CheckClaim(i) \/ SignMismatch(i) \/ Announce(i) \/ CleanupEnd(i)
    <2>1. PICK to : Walks(i, to)
      BY <1>2, GatesWalk
    <2>2. QED
      BY <1>1, <2>1, HoldsWalk
  <1>3. CASE Raise(i) \/ Promote(i) \/ PromoteFails(i)
    <2>1. pc'[i] \in {"raised", "moved", "rolled-back"}
      BY <1>3 DEF Raise, Promote, PromoteFails, Rollback, Goto, Shape, Typed
    <2>2. QED
      BY <2>1, HoldsNothing DEF BeforeEntry, Early, OnTheWay, Sealed, Cleaning
  <1>4. CASE WriteSkill(i) \/ MarkSkill(i) \/ HashSkill(i) \/ PromoteSkill(i) \/ SkillFails(i)
    <2>1. pc'[i] \in WithSkill \cup {"skilled", "unskilled"}
      BY <1>4 DEF WriteSkill, MarkSkill, HashSkill, PromoteSkill, SkillFails, Goto, Shape, Typed, WithSkill
    <2>2. QED
      BY <2>1, HoldsNothing DEF BeforeEntry, Early, OnTheWay, Sealed, Cleaning, WithSkill
  <1>5. CASE SnapshotIds(i)
    <2>1. pc[i] = "snapshot" /\ pc'[i] \in {"snapshot", "consolidate"} /\ candidate' = candidate
      BY <1>5 DEF SnapshotIds, Goto, Shape, Typed, stores
    <2>2. NothingYet(i)'
      BY <1>1, <2>1 DEF Holds, NothingYet, BeforeEntry, Is
    <2>3. QED
      BY <2>1, <2>2 DEF Holds, OneBare, Swept, Sweeping, SweptOut, OnTheWay, Sealed, Cleaning
  <1>6. CASE Consolidate(i) \/ ConsolidateBuggy(i)
    BY <1>1, <1>6, HoldsWrite
  <1>7. CASE Sign(i) \/ MarkVerified(i) \/ TakePromotionLock(i)
    <2>1. pc[i] \in OnTheWay /\ pc'[i] \in OnTheWay /\ entry' = entry
      BY <1>7 DEF Sign, MarkVerified, TakePromotionLock, Goto, Shape, Typed, facts, OnTheWay, Sealed
    <2>2. pc[i] \in {"sign", "mark", "marked"}
      BY <1>7 DEF Sign, MarkVerified, TakePromotionLock
    <2>3. ~Writes(i)
      BY <2>2 DEF Writes, Consolidate, ConsolidateBuggy, WriteSkill
    <2>4. Loses(i)
      BY <2>3, CandidatesShrink, ShrinkLoses
    <2>5. QED
      BY <1>1, <2>1, <2>4, HoldsOn
  <1>8. CASE CleanupLook(i)
    BY <1>8, HoldsLook
  <1>9. CASE CleanupDiscard(i)
    BY <1>1, <1>9, HoldsDiscard
  <1>10. CASE CleanupNextTier(i)
    BY <1>1, <1>10, HoldsNext
  <1>11. QED
    BY <1>2, <1>3, <1>4, <1>5, <1>6, <1>7, <1>8, <1>9, <1>10 DEF Iterate

\* A step of one iteration adds nothing to what another has.
LEMMA OthersLose ==
    ASSUME Shape, NEW i \in Iterations, Iterate(i), NEW j \in Iterations, i # j
    PROVE  Loses(j)
  <1>1. CASE Writes(i)
    <2>1. PICK tier \in Tiers, id \in EntryIds, stamp \in {i, None} : NewAt(i, tier, id, stamp)
      BY <1>1, WritesNew
    <2>2. QED
      BY <2>1, WritesLose
  <1>2. CASE ~Writes(i)
    BY <1>2, CandidatesShrink, ShrinkLoses
  <1>3. QED
    BY <1>1, <1>2

\* Every step keeps what the tiers hold of each iteration in order.
LEMMA HeldStep == Shape /\ Held /\ [Next]_vars => Held'
  <1> SUFFICES ASSUME Shape, Held, [Next]_vars
               PROVE  Held'
    OBVIOUS
  <1>1. CASE Halt \/ EditGraders \/ UNCHANGED vars
    <2>1. UNCHANGED <<candidate, pc, entry, pre, scan, doomed>>
      BY <1>1 DEF Halt, EditGraders, vars, stores, facts, cleaning
    <2>2. Stamped'
      BY <2>1 DEF Held, Stamped
    <2>3. ASSUME NEW i \in Iterations
          PROVE  Holds(i)'
      <3>1. NothingYet(i)' /\ OneBare(i)'
        BY <2>1 DEF Held, Holds, NothingYet, OneBare, Is
      <3>2. Swept(i)' /\ Sweeping(i)' /\ SweptOut(i)'
        BY <2>1 DEF Held, Holds, Swept, Sweeping, SweptOut, Cleared, Spared, Is
      <3>3. QED
        BY <3>1, <3>2 DEF Holds
    <2>4. QED
      BY <2>2, <2>3 DEF Held
  <1>2. ASSUME NEW i \in Iterations, Iterate(i)
        PROVE  Held'
    <2>1. Stamped'
      BY <1>2, StampedStep DEF Held
    <2>2. ASSUME NEW j \in Iterations
          PROVE  Holds(j)'
      <3>1. CASE j = i
        BY <1>2, <3>1, MoverHolds
      <3>2. CASE j # i
        BY <1>2, <3>2, OthersUntouched, OthersLose, OthersHold DEF Held
      <3>3. QED
        BY <3>1, <3>2
    <2>3. QED
      BY <2>1, <2>2 DEF Held
  <1>3. QED
    BY <1>1, <1>2 DEF Next

\* The cleanup is thorough: whatever the Librarian did, and whoever else used the
\* tiers meanwhile, an iteration that was caught leaves none of its candidates
\* behind, except an unstamped one in the place of an older entry.
THEOREM CleanupIsThorough == Spec => []CleanupRemoves
  <1>1. Held => CleanupRemoves
    BY DEF Held, Holds, SweptOut, Cleared, Is, Spared, CleanupRemoves
  <1>2. QED
    BY <1>1, ShapeInit, ShapeStep, HeldInit, HeldStep, PTL DEF Spec

-----------------------------------------------------------------------------
(* What was signed is what goes live.  Without a lying Librarian every     *)
(* entry has an id of its own, so that nobody else can replace the         *)
(* candidate an iteration is about to promote, nor the entry it promoted.  *)

Honest == \A j \in Iterations : entry[j].by # "buggy"

OwnId(i) ==
    entry[i].id \in EntryIds =>
        \A j \in Iterations : skill[j].id # entry[i].id /\ (j # i => entry[j].id # entry[i].id)

OwnCandidate(i) ==
    pc[i] \in OnTheWay =>
        candidate[target[i]][entry[i].id] = Absent \/ Is(target[i], entry[i].id, i)

OwnLive(i) ==
    promoted[i] => entry[i].id \in EntryIds /\ live[target[i]][entry[i].id].content = i

Owns(i) == OwnId(i) /\ OwnCandidate(i) /\ OwnLive(i)

Owned == Honest => \A i \in Iterations : Owns(i)

\* Nobody has an entry at the start.
LEMMA OwnedInit == Init => Owned
  <1> SUFFICES ASSUME Init, NEW i \in Iterations
               PROVE  Owns(i)
    BY DEF Owned
  <1>1. entry[i].id = None
    BY DEF Init, NoEntry
  <1>2. OwnId(i)
    BY <1>1, CoordinatorParameters DEF OwnId
  <1>3. OwnCandidate(i) /\ OwnLive(i)
    BY DEF Init, OwnCandidate, OwnLive, OnTheWay, Sealed
  <1>4. QED
    BY <1>2, <1>3 DEF Owns

\* A step that writes no candidate gives nobody an id and sends nobody on the way.
LEMMA IdsKept ==
    ASSUME Shape, NEW i \in Iterations, Iterate(i), ~Writes(i)
    PROVE  /\ entry' = entry /\ target' = target
           /\ \A j \in Iterations : skill'[j].id = skill[j].id
           /\ \A j \in Iterations : pc'[j] \in OnTheWay => pc[j] \in OnTheWay
           /\ ~Promotions(i) => promoted' = promoted
  <1>1. DOMAIN pc = Iterations /\ DOMAIN promoted = Iterations /\ skill \in [Iterations -> SkillRecords]
    BY DEF Shape, Typed
  <1>2. CASE \/ Frontier(i) \/ Research(i) \/ Build(i) \/ Signed(i) \/ CheckPins(i) \/ VerifyRaises(i)
             \/ ConsolidateBlocked(i) \/ SignFails(i) \/ MarkFails(i) \/ Start(i) \/ Verify(i)
             \/ CheckClaim(i) \/ SignMismatch(i) \/ Announce(i) \/ CleanupEnd(i)
    <2>1. PICK to : Walks(i, to)
      BY <1>2, GatesWalk
    <2>2. to \in OnTheWay => pc[i] \in OnTheWay
      BY <2>1 DEF Walks, Onward, OnTheWay, Sealed, BeforeEntry, Early
    <2>3. QED
      BY <1>1, <2>1, <2>2 DEF Walks
  <1>3. CASE Raise(i) \/ SnapshotIds(i) \/ PromoteFails(i)
    <2>1. pc' = pc \/ \E to \in {"raised", "consolidate", "rolled-back"} : pc' = [pc EXCEPT ![i] = to]
      BY <1>3 DEF Raise, SnapshotIds, PromoteFails, Rollback, Goto
    <2>2. entry' = entry /\ target' = target /\ skill' = skill /\ promoted' = promoted
      BY <1>3 DEF Raise, SnapshotIds, PromoteFails, facts
    <2>3. QED
      BY <1>1, <2>1, <2>2 DEF OnTheWay, Sealed
  <1>4. CASE CleanupLook(i) \/ CleanupDiscard(i) \/ CleanupNextTier(i)
    <2>1. pc' = pc \/ \E to \in {"discarding", "cleanup"} : pc' = [pc EXCEPT ![i] = to]
      BY <1>4 DEF CleanupLook, CleanupDiscard, CleanupNextTier, Goto
    <2>2. entry' = entry /\ target' = target /\ skill' = skill /\ promoted' = promoted
      BY <1>4 DEF CleanupLook, CleanupDiscard, CleanupNextTier, facts
    <2>3. QED
      BY <1>1, <2>1, <2>2 DEF OnTheWay, Sealed
  <1>5. CASE Sign(i) \/ MarkVerified(i) \/ TakePromotionLock(i)
    <2>1. pc[i] \in OnTheWay /\ \E to : pc' = [pc EXCEPT ![i] = to]
      BY <1>5 DEF Sign, MarkVerified, TakePromotionLock, Goto, OnTheWay, Sealed
    <2>2. entry' = entry /\ target' = target /\ skill' = skill /\ promoted' = promoted
      BY <1>5 DEF Sign, MarkVerified, TakePromotionLock, facts
    <2>3. QED
      BY <1>1, <2>1, <2>2
  <1>6. CASE Promote(i) \/ PromoteSkill(i)
    <2>1. \E to \in {"moved", "skilled"} : pc' = [pc EXCEPT ![i] = to]
      BY <1>6 DEF Promote, PromoteSkill, Goto
    <2>2. entry' = entry /\ target' = target /\ skill' = skill
      BY <1>6 DEF Promote, PromoteSkill, facts
    <2>3. QED
      BY <1>1, <1>6, <2>1, <2>2 DEF OnTheWay, Sealed, Promotions
  <1>7. CASE MarkSkill(i)
    BY <1>1, <1>7, Marks DEF Marked, OnTheWay, Sealed
  <1>8. CASE HashSkill(i) \/ SkillFails(i)
    <2>1. PICK from, to, pres : PreSet(i, from, to, pres) /\ to \in {"skill-hashed", "unskilled"}
      BY <1>8, PresSet
    <2>2. \A j \in Iterations : skill'[j].id = skill[j].id
      BY <1>1, <2>1 DEF PreSet, SkillRecords
    <2>3. QED
      BY <1>1, <2>1, <2>2 DEF PreSet, OnTheWay, Sealed
  <1>9. QED
    BY <1>2, <1>3, <1>4, <1>5, <1>6, <1>7, <1>8 DEF Iterate, Writes

\* Whoever was honest after a step was honest before it.
LEMMA HonestBefore ==
    ASSUME Shape, NEW i \in Iterations, Iterate(i), Honest'
    PROVE  Honest
  <1>1. CASE Consolidate(i) \/ ConsolidateBuggy(i)
    <2>1. PICK id, tier, claimed, stamp, librarian : Wrote(i, id, tier, claimed, stamp, librarian)
      BY <1>1, LibrarianWrites
    <2>2. entry[i] = NoEntry
      BY <2>1 DEF Wrote, Shape, Fitting, Fits, BeforeEntry
    <2>3. NoEntry.by # "buggy"
      BY CoordinatorParameters DEF NoEntry
    <2>4. \A j \in Iterations : j # i => entry'[j] = entry[j]
      BY <2>1 DEF Wrote, Shape, Typed
    <2>5. QED
      BY <2>2, <2>3, <2>4 DEF Honest
  <1>2. CASE WriteSkill(i)
    BY <1>2 DEF WriteSkill, Honest
  <1>3. CASE ~Writes(i)
    BY <1>3, IdsKept DEF Honest
  <1>4. QED
    BY <1>1, <1>2, <1>3 DEF Writes

\* What is promoted keeps its content and what is not promoted stays.
LEMMA OwnsKept ==
    ASSUME Shape, NEW i \in Iterations, Iterate(i), ~Writes(i), ~Promotions(i),
           NEW j \in Iterations, Owns(j)
    PROVE  Owns(j)'
  <1>1. /\ entry' = entry /\ target' = target /\ promoted' = promoted
        /\ \A k \in Iterations : skill'[k].id = skill[k].id
        /\ pc'[j] \in OnTheWay => pc[j] \in OnTheWay
    BY IdsKept
  <1>2. live' = live
    BY LiveKept
  <1>3. Shrinks
    BY CandidatesShrink
  <1>4. OwnId(j)'
    BY <1>1 DEF Owns, OwnId
  <1>5. OwnLive(j)'
    BY <1>1, <1>2 DEF Owns, OwnLive
  <1>6. ASSUME pc[j] \in OnTheWay, candidate'[target[j]][entry[j].id] # Absent
        PROVE  candidate'[target[j]][entry[j].id].content = j
    <2>1. target[j] \in Tiers /\ entry[j].id \in EntryIds
      BY <1>6 DEF Shape, Typed, Fitting, Fits
    <2>2. QED
      BY <1>3, <1>6, <2>1 DEF Owns, OwnCandidate, Is, Shrinks
  <1>7. OwnCandidate(j)'
    BY <1>1, <1>6 DEF OwnCandidate, Is
  <1>8. QED
    BY <1>4, <1>5, <1>7 DEF Owns

\* A promotion puts an entry in the place nobody else's entry has.
LEMMA OwnsPromoted ==
    ASSUME Shape, NEW i \in Iterations, Iterate(i), Promotions(i), \A k \in Iterations : Owns(k),
           NEW j \in Iterations
    PROVE  Owns(j)'
  <1>1. pc[i] \in {"promoting", "skill-hashed"} /\ ~Writes(i)
    BY DEF Promotions, Promote, PromoteSkill, Writes, Consolidate, ConsolidateBuggy, WriteSkill
  <1>2. /\ entry' = entry /\ target' = target
        /\ \A k \in Iterations : skill'[k].id = skill[k].id
        /\ pc'[j] \in OnTheWay => pc[j] \in OnTheWay
    BY <1>1, IdsKept
  <1>3. Shrinks
    BY <1>1, CandidatesShrink
  <1>4. OwnId(j)'
    BY <1>2 DEF Owns, OwnId
  <1>5. ASSUME pc[j] \in OnTheWay, candidate'[target[j]][entry[j].id] # Absent
        PROVE  candidate'[target[j]][entry[j].id].content = j
    <2>1. target[j] \in Tiers /\ entry[j].id \in EntryIds
      BY <1>5 DEF Shape, Typed, Fitting, Fits
    <2>2. QED
      BY <1>3, <1>5, <2>1 DEF Owns, OwnCandidate, Is, Shrinks
  <1>6. OwnCandidate(j)'
    BY <1>2, <1>5 DEF OwnCandidate, Is
  <1>7. target[j] \in Tiers
    BY DEF Shape, Typed
  <1>8. ASSUME promoted[j], NEW tier \in Tiers, NEW id \in EntryIds, NEW pres, Moved(i, tier, id, pres),
               id # entry[j].id
        PROVE  live'[target[j]][entry[j].id] = live[target[j]][entry[j].id] /\ entry[j].id \in EntryIds
    <2>1. entry[j].id \in EntryIds
      BY <1>8 DEF Owns, OwnLive
    <2>2. QED
      BY <1>7, <1>8, <2>1, LiveElsewhere
  <1>9. CASE Promote(i)
    <2>1. /\ Moved(i, target[i], entry[i].id, why[i]) /\ pc[i] = "promoting"
          /\ promoted' = [promoted EXCEPT ![i] = TRUE]
      BY <1>9, Promotes
    <2>2. target[i] \in Tiers /\ entry[i].id \in EntryIds
      BY <2>1 DEF Shape, Typed, Fitting, Fits, OnTheWay, Sealed
    <2>3. CASE j = i
      <3>1. live'[target[i]][entry[i].id].content = candidate[target[i]][entry[i].id].content
        BY <2>1, <2>2, LiveThere
      <3>2. candidate[target[i]][entry[i].id] # Absent
        BY <2>1 DEF Moved
      <3>3. candidate[target[i]][entry[i].id].content = i
        BY <2>1, <3>2 DEF Owns, OwnCandidate, Is, OnTheWay, Sealed
      <3>4. QED
        BY <1>2, <1>4, <1>6, <2>2, <2>3, <3>1, <3>3 DEF Owns, OwnLive
    <2>4. CASE j # i
      <3>1. promoted[j] => entry[j].id # entry[i].id
        BY <2>2, <2>4 DEF Owns, OwnId
      <3>2. promoted'[j] = promoted[j]
        BY <2>1, <2>4 DEF Shape, Typed
      <3>3. promoted[j] => live'[target[j]][entry[j].id] = live[target[j]][entry[j].id]
        BY <1>8, <2>1, <2>2, <3>1
      <3>4. OwnLive(j)'
        BY <1>2, <3>2, <3>3 DEF Owns, OwnLive
      <3>5. QED
        BY <1>4, <1>6, <3>4 DEF Owns
    <2>5. QED
      BY <2>3, <2>4
  <1>10. CASE PromoteSkill(i)
    <2>1. /\ Moved(i, SkillTier, skill[i].id, skill[i].pre) /\ pc[i] = "skill-hashed"
          /\ UNCHANGED promoted
      BY <1>10, Promotes
    <2>2. SkillTier \in Tiers /\ skill[i].id \in EntryIds
      BY <2>1, SkillTierExists DEF Shape, Fitting, Fits, WithSkill
    <2>3. promoted[j] => skill[i].id # entry[j].id
      BY DEF Owns, OwnId, OwnLive
    <2>4. promoted[j] => live'[target[j]][entry[j].id] = live[target[j]][entry[j].id]
      BY <1>8, <2>1, <2>2, <2>3
    <2>5. OwnLive(j)'
      BY <1>2, <2>1, <2>4 DEF Owns, OwnLive
    <2>6. QED
      BY <1>4, <1>6, <2>5 DEF Owns
  <1>11. QED
    BY <1>9, <1>10 DEF Promotions

\* A new id is nobody's.
LEMMA OwnsWritten ==
    ASSUME Shape, NEW i \in Iterations, Iterate(i), Writes(i), Honest', \A k \in Iterations : Owns(k),
           NEW j \in Iterations
    PROVE  Owns(j)'
  <1>1. live' = live /\ promoted' = promoted /\ target' = target
    BY DEF Writes, Consolidate, ConsolidateBuggy, Write, WriteSkill
  <1>2. CASE Consolidate(i) \/ ConsolidateBuggy(i)
    <2>1. PICK id, tier, claimed, stamp, librarian :
              /\ Wrote(i, id, tier, claimed, stamp, librarian)
              /\ \/ librarian = "buggy"
                 \/ librarian = "honest" /\ Fresh(id) /\ tier = target[i]
      BY <1>2, LibrarianWrites
    <2>2. /\ entry'[i].id = id /\ entry'[i].by = librarian /\ pc'[i] = "consolidated"
          /\ \A k \in Iterations : k # i => entry'[k] = entry[k] /\ pc'[k] = pc[k]
          /\ skill' = skill /\ ~promoted[i] /\ id \in EntryIds /\ tier \in Tiers /\ stamp \in {i, None}
      BY <2>1 DEF Wrote, Shape, Typed, Fitting, Fits, BeforeEntry
    <2>3. Fresh(id) /\ tier = target[i]
      BY <2>1, <2>2 DEF Honest
    <2>4. NewAt(i, tier, id, stamp)
      BY <2>1, <2>2, OneNew DEF Wrote
    <2>5. \A k \in Iterations : entry[k].id # id /\ skill[k].id # id
      BY <2>3 DEF Fresh
    <2>6. CASE j = i
      <3>1. OwnId(i)'
        BY <2>2, <2>5 DEF OwnId
      <3>2. OwnCandidate(i)'
        BY <1>1, <2>2, <2>3, <2>4 DEF OwnCandidate, NewAt, Is
      <3>3. OwnLive(i)'
        BY <1>1, <2>2 DEF OwnLive
      <3>4. QED
        BY <2>6, <3>1, <3>2, <3>3 DEF Owns
    <2>7. CASE j # i
      <3>1. OwnId(j)'
        <4>1. entry'[j].id = entry[j].id
          BY <2>2, <2>7
        <4>2. \A k \in Iterations : k # j => entry'[k].id \in {entry[k].id, id}
          BY <2>2
        <4>3. QED
          BY <2>2, <2>5, <4>1, <4>2 DEF Owns, OwnId
      <3>2. OwnLive(j)'
        BY <1>1, <2>2, <2>7 DEF Owns, OwnLive
      <3>3. pc[j] \in OnTheWay => candidate'[target[j]][entry[j].id] = candidate[target[j]][entry[j].id]
        BY <2>4, <2>5 DEF NewAt, Shape, Typed, Fitting, Fits
      <3>4. OwnCandidate(j)'
        BY <1>1, <2>2, <2>7, <3>3 DEF Owns, OwnCandidate, Is
      <3>5. QED
        BY <3>1, <3>2, <3>4 DEF Owns
    <2>8. QED
      BY <2>6, <2>7
  <1>3. CASE WriteSkill(i)
    <2>1. PICK id : SkillWritten(i, id)
      BY <1>3, SkillWrites
    <2>2. /\ entry' = entry /\ id \in EntryIds /\ SkillTier \in Tiers /\ None \in {i, None}
          /\ Fresh(id)
      BY <2>1, SkillTierExists DEF SkillWritten, Shape, Fitting, Fits
    <2>3. \A k \in Iterations : skill'[k].id \in {skill[k].id, id}
      BY <2>1 DEF SkillWritten, Shape, Typed, SkillRecords
    <2>4. \A k \in Iterations : entry[k].id # id /\ skill[k].id # id
      BY <2>2 DEF Fresh
    <2>5. NewAt(i, SkillTier, id, None)
      BY <2>1, <2>2, OneNew DEF SkillWritten
    <2>6. OwnId(j)'
      BY <2>2, <2>3, <2>4 DEF Owns, OwnId
    <2>7. OwnLive(j)'
      BY <1>1, <2>2 DEF Owns, OwnLive
    <2>8. pc'[j] \in OnTheWay => pc[j] \in OnTheWay
      BY <2>1 DEF SkillWritten, Shape, Typed, OnTheWay, Sealed
    <2>9. pc[j] \in OnTheWay => candidate'[target[j]][entry[j].id] = candidate[target[j]][entry[j].id]
      BY <2>4, <2>5 DEF NewAt, Shape, Typed, Fitting, Fits
    <2>10. OwnCandidate(j)'
      BY <1>1, <2>2, <2>8, <2>9 DEF Owns, OwnCandidate, Is
    <2>11. QED
      BY <2>6, <2>7, <2>10 DEF Owns
  <1>4. QED
    BY <1>2, <1>3 DEF Writes

\* Every step keeps the entries apart.
LEMMA OwnedStep == Shape /\ Owned /\ [Next]_vars => Owned'
  <1> SUFFICES ASSUME Shape, Owned, [Next]_vars, Honest', NEW j \in Iterations
               PROVE  Owns(j)'
    BY DEF Owned
  <1>1. CASE Halt \/ EditGraders \/ UNCHANGED vars
    <2>1. UNCHANGED <<candidate, live, pc, entry, target, promoted, skill>>
      BY <1>1 DEF Halt, EditGraders, vars, stores, facts
    <2>2. Owns(j)
      BY <2>1 DEF Owned, Honest
    <2>3. QED
      BY <2>1, <2>2 DEF Owns, OwnId, OwnCandidate, OwnLive, Is
  <1>2. ASSUME NEW i \in Iterations, Iterate(i)
        PROVE  Owns(j)'
    <2>1. \A k \in Iterations : Owns(k)
      BY <1>2, HonestBefore DEF Owned
    <2>2. QED
      BY <1>2, <2>1, OwnsKept, OwnsPromoted, OwnsWritten
  <1>3. QED
    BY <1>1, <1>2 DEF Next

\* What goes live is what was signed, as long as no Librarian lies, although
\* promote() looks the candidate up by id after the signature.
THEOREM SignedGoesLive == Spec => []PromotedAsSigned
  <1>1. Owned => PromotedAsSigned
    BY DEF Owned, Honest, Owns, OwnLive, PromotedAsSigned
  <1>2. QED
    BY <1>1, ShapeInit, ShapeStep, OwnedInit, OwnedStep, PTL DEF Spec

-----------------------------------------------------------------------------
(* What the cleanup spares.  While an iteration is alone nobody else takes *)
(* a step (Lone), so what is in the tiers and was not when it looked is    *)
(* its own (Fenced).                                                       *)

Lone == \A i \in InFlight : alone[i] => InFlight = {i}

\* Nothing but what iteration i wrote was added since it noted the tier's ids.
Unmixed(i, t) ==
    \A id \in EntryIds \ pre[i][t] : candidate[t][id] # Absent => candidate[t][id].content = i

Guarded == {"consolidate"} \cup OnTheWay \cup Cleaning

Noted(i) == pc[i] = "snapshot" => \A n \in 1 .. scan[i] : Unmixed(i, TierOrder[n])

Fence(i) == pc[i] \in Guarded => \A t \in Tiers : Unmixed(i, t)

OwnDoomed(i) ==
    pc[i] = "discarding" =>
        \A id \in doomed[i] :
            candidate[TierOrder[scan[i] + 1]][id] # Absent => Is(TierOrder[scan[i] + 1], id, i)

Fenced == \A i \in Iterations : alone[i] => Noted(i) /\ Fence(i) /\ OwnDoomed(i)

\* Nobody runs at the start.
LEMMA FencedInit == Init => Lone /\ Fenced
  BY DEF Init, Lone, Fenced, Noted, Fence, OwnDoomed, InFlight, Guarded, OnTheWay, Sealed, Cleaning

\* Only a start changes the history of who is alone, and sends an iteration in.
LEMMA StartsAlone ==
    ASSUME Shape, NEW i \in Iterations, Iterate(i)
    PROVE  \/ Start(i)
           \/ alone' = alone /\ i \in InFlight /\ InFlight' \subseteq InFlight
  <1>1. DOMAIN pc = Iterations
    BY DEF Shape, Typed
  <1>2. CASE alone' = alone /\ i \in InFlight
    <2>1. \A j \in Iterations : j # i => pc'[j] = pc[j]
      BY OthersUntouched DEF Untouched
    <2>2. InFlight' \subseteq InFlight
      BY <1>2, <2>1 DEF InFlight
    <2>3. QED
      BY <1>2, <2>2
  <1>3. CASE Frontier(i) \/ Research(i) \/ Build(i) \/ Signed(i) \/ SignFails(i) \/ ConsolidateBlocked(i)
    BY <1>2, <1>3 DEF Frontier, Research, Build, Signed, SignFails, ConsolidateBlocked, Tripped, Refused,
                      Passed, history, InFlight, Ended
  <1>4. CASE CheckPins(i) \/ VerifyRaises(i) \/ Verify(i) \/ CheckClaim(i) \/ SignMismatch(i) \/ MarkFails(i)
             \/ Announce(i) \/ CleanupEnd(i)
    BY <1>2, <1>4 DEF CheckPins, VerifyRaises, Verify, CheckClaim, SignMismatch, MarkFails, Announce, CleanupEnd,
                      Refused, Passed, history, InFlight, Ended
  <1>5. CASE Raise(i) \/ SnapshotIds(i) \/ TakePromotionLock(i) \/ Promote(i) \/ PromoteFails(i)
    BY <1>2, <1>5 DEF Raise, SnapshotIds, TakePromotionLock, Promote, PromoteFails, history, InFlight, Ended
  <1>6. CASE CleanupLook(i) \/ CleanupDiscard(i) \/ CleanupNextTier(i)
    BY <1>2, <1>6 DEF CleanupLook, CleanupDiscard, CleanupNextTier, history, InFlight, Ended
  <1>7. CASE Consolidate(i) \/ ConsolidateBuggy(i) \/ Sign(i) \/ MarkVerified(i)
    BY <1>2, <1>7 DEF Consolidate, ConsolidateBuggy, Write, Sign, MarkVerified, history, InFlight, Ended
  <1>8. CASE WriteSkill(i) \/ MarkSkill(i) \/ HashSkill(i) \/ PromoteSkill(i) \/ SkillFails(i)
    BY <1>2, <1>8 DEF WriteSkill, MarkSkill, HashSkill, PromoteSkill, SkillFails, InSkillPath, history,
                      InFlight, Ended
  <1>9. QED
    BY <1>3, <1>4, <1>5, <1>6, <1>7, <1>8 DEF Iterate

\* Every step keeps the history of who was alone.
LEMMA LoneStep == Shape /\ Lone /\ [Next]_vars => Lone'
  <1> SUFFICES ASSUME Shape, Lone, [Next]_vars, NEW j \in InFlight', alone'[j]
               PROVE  InFlight' = {j}
    BY DEF Lone
  <1>1. CASE Halt \/ EditGraders \/ UNCHANGED vars
    <2>1. UNCHANGED <<pc, alone>>
      BY <1>1 DEF Halt, EditGraders, vars, history
    <2>2. InFlight' = InFlight
      BY <2>1 DEF InFlight
    <2>3. QED
      BY <2>1, <2>2 DEF Lone
  <1>2. ASSUME NEW i \in Iterations, Iterate(i)
        PROVE  InFlight' = {j}
    <2>1. CASE Start(i)
      <3>1. /\ pc[i] = "waiting" /\ pc' = [pc EXCEPT ![i] = "frontier"]
            /\ alone' = [k \in Iterations |-> alone[k] /\ (k \in InFlight \cup {i} => InFlight = {})]
        BY <2>1 DEF Start, Goto
      <3>2. InFlight' = InFlight \cup {i}
        BY <3>1 DEF InFlight, Ended, Shape, Typed
      <3>3. InFlight = {}
        BY <3>1, <3>2 DEF InFlight
      <3>4. QED
        BY <3>2, <3>3
    <2>2. CASE alone' = alone /\ i \in InFlight /\ InFlight' \subseteq InFlight
      BY <2>2 DEF Lone
    <2>3. QED
      BY <1>2, <2>1, <2>2, StartsAlone
  <1>3. QED
    BY <1>1, <1>2 DEF Next

\* What one iteration wrote stays its own when candidates are only taken away.
LEMMA UnmixedKept ==
    ASSUME NEW i \in Iterations, NEW t \in Tiers, Unmixed(i, t), Shrinks, pre'[i] = pre[i]
    PROVE  Unmixed(i, t)'
  BY DEF Unmixed, Shrinks

\* Nobody takes a step while an iteration is, and remains, alone.
LEMMA NobodyElse ==
    ASSUME Shape, Lone, NEW i \in Iterations, Iterate(i), NEW j \in InFlight, alone'[j]
    PROVE  i = j
  <1>1. CASE Start(i)
    <2>1. alone' = [k \in Iterations |-> alone[k] /\ (k \in InFlight \cup {i} => InFlight = {})]
      BY <1>1 DEF Start
    <2>2. QED
      BY <2>1 DEF InFlight
  <1>2. CASE alone' = alone /\ i \in InFlight
    BY <1>2 DEF Lone
  <1>3. QED
    BY <1>1, <1>2, StartsAlone

\* The gates leave the tiers and what was noted of them alone.
LEMMA FencedWalk ==
    ASSUME Shape, NEW i \in Iterations, Noted(i), Fence(i), NEW to, Walks(i, to)
    PROVE  Noted(i)' /\ Fence(i)' /\ OwnDoomed(i)'
  <1>1. /\ pc'[i] = to /\ Onward(i, to)
        /\ UNCHANGED <<candidate, pre, scan>>
    BY DEF Walks, Shape, Typed, stores, cleaning
  <1>2. to = "snapshot" => scan'[i] = 0
    BY <1>1 DEF Onward, Shape, Fitting, Fits, Early
  <1>3. to \in Guarded => pc[i] \in Guarded
    BY <1>1 DEF Onward, Guarded, BeforeEntry, Early, OnTheWay, Sealed, Cleaning
  <1>4. to # "discarding"
    BY <1>1 DEF Onward, Early
  <1>5. Noted(i)'
    BY <1>1, <1>2 DEF Noted
  <1>6. Fence(i)'
    BY <1>1, <1>3 DEF Fence, Unmixed
  <1>7. QED
    BY <1>1, <1>4, <1>5, <1>6 DEF OwnDoomed

\* Noting the ids of a tier makes everything in it old.
LEMMA FencedSnapshot ==
    ASSUME Shape, NEW i \in Iterations, Noted(i), SnapshotIds(i)
    PROVE  Noted(i)' /\ Fence(i)' /\ OwnDoomed(i)'
  <1> DEFINE tier == TierOrder[scan[i] + 1]
             last == scan[i] + 1 = Len(TierOrder)
  <1>1. /\ pc[i] = "snapshot" /\ scan[i] \in Nat /\ scan[i] < Len(TierOrder) /\ Len(TierOrder) \in Nat
        /\ candidate' = candidate
        /\ pre' = [pre EXCEPT ![i][tier] = Keys(candidate[tier])]
    BY TierList DEF SnapshotIds, Shape, Typed, Fitting, Fits, stores
  <1>2. /\ last => pc'[i] = "consolidate" /\ scan'[i] = 0
        /\ ~last => pc'[i] = "snapshot" /\ scan'[i] = scan[i] + 1
    BY DEF SnapshotIds, Goto, Shape, Typed
  <1>3. tier \in Tiers /\ scan[i] + 1 \in 1 .. Len(TierOrder)
    BY <1>1, NextTier
  <1> HIDE DEF tier
  <1>4. /\ pre'[i][tier] = Keys(candidate[tier])
        /\ \A t \in Tiers : t # tier => pre'[i][t] = pre[i][t]
    BY <1>1, <1>3 DEF Shape, Typed
  <1>5. ASSUME NEW n \in 1 .. scan[i] + 1
        PROVE  Unmixed(i, TierOrder[n])'
    <2>1. n \in 1 .. Len(TierOrder)
      BY <1>1
    <2>2. TierOrder[n] \in Tiers
      BY <2>1, TierList
    <2>3. CASE TierOrder[n] = tier
      BY <1>1, <1>4, <2>3 DEF Unmixed, Keys
    <2>4. CASE TierOrder[n] # tier
      <3>1. n \in 1 .. scan[i]
        BY <1>1, <2>4 DEF tier
      <3>2. Unmixed(i, TierOrder[n])
        BY <1>1, <3>1 DEF Noted
      <3>3. QED
        BY <1>1, <1>4, <2>2, <2>4, <3>2 DEF Unmixed
    <2>5. QED
      BY <2>3, <2>4
  <1>6. CASE last
    <2>1. \A n \in 1 .. Len(TierOrder) : Unmixed(i, TierOrder[n])'
      BY <1>5, <1>6
    <2>2. \A t \in Tiers : Unmixed(i, t)'
      BY <2>1, TierList DEF Unmixed
    <2>3. QED
      BY <1>2, <1>6, <2>2 DEF Noted, Fence, OwnDoomed
  <1>7. CASE ~last
    <2>1. \A n \in 1 .. scan'[i] : Unmixed(i, TierOrder[n])'
      BY <1>2, <1>5, <1>7
    <2>2. QED
      BY <1>2, <1>7, <2>1 DEF Noted, Fence, OwnDoomed, Guarded, OnTheWay, Sealed, Cleaning
  <1>8. QED
    BY <1>6, <1>7

\* What the Librarian writes is its iteration's.
LEMMA FencedWrite ==
    ASSUME Shape, NEW i \in Iterations, Fence(i), Consolidate(i) \/ ConsolidateBuggy(i)
    PROVE  Noted(i)' /\ Fence(i)' /\ OwnDoomed(i)'
  <1>1. PICK id, tier, claimed, stamp, librarian : Wrote(i, id, tier, claimed, stamp, librarian)
    BY LibrarianWrites
  <1>2. /\ pc[i] = "consolidate" /\ pc'[i] = "consolidated" /\ pre' = pre
        /\ id \in EntryIds /\ tier \in Tiers /\ stamp \in {i, None}
    BY <1>1 DEF Wrote, Shape, Typed
  <1>3. NewAt(i, tier, id, stamp)
    BY <1>1, <1>2, OneNew DEF Wrote
  <1>4. \A t \in Tiers : Unmixed(i, t)
    BY <1>2 DEF Fence, Guarded
  <1>5. \A t \in Tiers : Unmixed(i, t)'
    BY <1>2, <1>3, <1>4 DEF Unmixed, NewAt
  <1>6. QED
    BY <1>2, <1>5 DEF Noted, Fence, OwnDoomed

\* What is doomed in a tier is the iteration's, by its stamp or because it is new.
LEMMA FencedLook ==
    ASSUME Shape, Stamped, NEW i \in Iterations, Fence(i), CleanupLook(i)
    PROVE  Noted(i)' /\ Fence(i)' /\ OwnDoomed(i)'
  <1> DEFINE tier == TierOrder[scan[i] + 1]
  <1>1. /\ pc[i] = "cleanup" /\ scan[i] < Len(TierOrder) /\ pc'[i] = "discarding"
        /\ UNCHANGED <<candidate, pre, scan>>
        /\ doomed'[i] = {id \in EntryIds : IsOurs(i, tier, id)}
    BY DEF CleanupLook, Goto, Shape, Typed, facts, stores
  <1>2. tier \in Tiers
    BY <1>1, NextTier, TierList DEF Shape, Typed
  <1>3. Unmixed(i, tier)
    BY <1>1, <1>2 DEF Fence, Guarded, Cleaning
  <1> HIDE DEF tier
  <1>4. \A id \in EntryIds : IsOurs(i, tier, id) => Is(tier, id, i)
    <2>1. None # i
      BY CoordinatorParameters, ConstantsDisjoint
    <2>2. QED
      BY <1>2, <1>3, <2>1 DEF IsOurs, Is, Unmixed, Stamped
  <1>5. \A id \in doomed'[i] : Is(tier, id, i)
    BY <1>1, <1>4
  <1>6. OwnDoomed(i)'
    BY <1>1, <1>5 DEF OwnDoomed, Is, tier
  <1>7. Fence(i)'
    BY <1>1 DEF Fence, Unmixed, Guarded, Cleaning
  <1>8. QED
    BY <1>1, <1>6, <1>7 DEF Noted

\* Discarding dooms nothing more.
LEMMA FencedDiscard ==
    ASSUME Shape, NEW i \in Iterations, Fence(i), OwnDoomed(i), CleanupDiscard(i)
    PROVE  Noted(i)' /\ Fence(i)' /\ OwnDoomed(i)'
  <1>1. PICK tier \in Tiers, id \in EntryIds : Discards(i, tier, id)
    BY CleanupDiscards
  <1>2. /\ pc[i] = "discarding" /\ tier = TierOrder[scan[i] + 1]
        /\ doomed'[i] = doomed[i] \ {id} /\ doomed[i] \subseteq EntryIds
        /\ candidate' = [candidate EXCEPT ![tier] = Remove(candidate[tier], {id})]
        /\ UNCHANGED <<pc, pre, scan>>
    BY <1>1 DEF Discards, Shape, Typed
  <1>3. Shrinks
    BY <1>2, RemoveShrinks
  <1>4. \A t \in Tiers : Unmixed(i, t)
    BY <1>2 DEF Fence, Guarded, Cleaning
  <1>5. Fence(i)'
    BY <1>2, <1>3, <1>4, UnmixedKept DEF Fence
  <1>6. ASSUME NEW k \in doomed'[i], candidate'[tier][k] # Absent
        PROVE  candidate'[tier][k].content = i
    <2>1. k \in EntryIds /\ k \in doomed[i]
      BY <1>2
    <2>2. candidate[tier][k] # Absent /\ candidate'[tier][k].content = candidate[tier][k].content
      BY <1>3, <1>6, <2>1 DEF Shrinks
    <2>3. QED
      BY <1>2, <2>1, <2>2 DEF OwnDoomed, Is
  <1>7. TierOrder[scan'[i] + 1] = tier
    BY <1>2
  <1>8. OwnDoomed(i)'
    BY <1>6, <1>7 DEF OwnDoomed, Is
  <1>9. QED
    BY <1>2, <1>5, <1>8 DEF Noted

\* What is left of an iteration that is alone at its other places is nothing.
LEMMA FencedNothing ==
    ASSUME NEW i, pc'[i] \notin {"snapshot"} \cup Guarded
    PROVE  Noted(i)' /\ Fence(i)' /\ OwnDoomed(i)'
  BY DEF Noted, Fence, OwnDoomed, Guarded, Cleaning

\* The iteration that takes the step keeps its fence.
LEMMA MoverFenced ==
    ASSUME Shape, Stamped, NEW i \in Iterations, Iterate(i), Noted(i), Fence(i), OwnDoomed(i)
    PROVE  Noted(i)' /\ Fence(i)' /\ OwnDoomed(i)'
  <1>1. CASE \/ Frontier(i) \/ Research(i) \/ Build(i) \/ Signed(i) \/ CheckPins(i) \/ VerifyRaises(i)
             \/ ConsolidateBlocked(i) \/ SignFails(i) \/ MarkFails(i) \/ Start(i) \/ Verify(i)
             \/ CheckClaim(i) \/ SignMismatch(i) \/ Announce(i) \/ CleanupEnd(i)
    <2>1. PICK to : Walks(i, to)
      BY <1>1, GatesWalk
    <2>2. QED
      BY <2>1, FencedWalk
  <1>2. CASE Raise(i) \/ Promote(i) \/ PromoteFails(i)
    <2>1. pc'[i] \in {"raised", "moved", "rolled-back"}
      BY <1>2 DEF Raise, Promote, PromoteFails, Rollback, Goto, Shape, Typed
    <2>2. QED
      BY <2>1, FencedNothing DEF Guarded, OnTheWay, Sealed, Cleaning
  <1>3. CASE WriteSkill(i) \/ MarkSkill(i) \/ HashSkill(i) \/ PromoteSkill(i) \/ SkillFails(i)
    <2>1. pc'[i] \in WithSkill \cup {"skilled", "unskilled"}
      BY <1>3 DEF WriteSkill, MarkSkill, HashSkill, PromoteSkill, SkillFails, Goto, Shape, Typed, WithSkill
    <2>2. QED
      BY <2>1, FencedNothing DEF Guarded, OnTheWay, Sealed, Cleaning, WithSkill
  <1>4. CASE SnapshotIds(i)
    BY <1>4, FencedSnapshot
  <1>5. CASE Consolidate(i) \/ ConsolidateBuggy(i)
    BY <1>5, FencedWrite
  <1>6. CASE Sign(i) \/ MarkVerified(i) \/ TakePromotionLock(i) \/ CleanupNextTier(i)
    <2>1. /\ pc[i] \in Guarded /\ pc'[i] \in Guarded \ {"discarding"} /\ pre' = pre
      BY <1>6 DEF Sign, MarkVerified, TakePromotionLock, CleanupNextTier, Goto, Shape, Typed, cleaning,
                  Guarded, OnTheWay, Sealed, Cleaning
    <2>2. ~Writes(i)
      BY <1>6 DEF Writes, Consolidate, ConsolidateBuggy, WriteSkill, Sign, MarkVerified, TakePromotionLock,
                  CleanupNextTier
    <2>3. Shrinks
      BY <2>2, CandidatesShrink
    <2>4. \A t \in Tiers : Unmixed(i, t)'
      BY <2>1, <2>3, UnmixedKept DEF Fence
    <2>5. QED
      BY <2>1, <2>4 DEF Noted, Fence, OwnDoomed, Guarded, OnTheWay, Sealed, Cleaning
  <1>7. CASE CleanupLook(i)
    BY <1>7, FencedLook
  <1>8. CASE CleanupDiscard(i)
    BY <1>8, FencedDiscard
  <1>9. QED
    BY <1>1, <1>2, <1>3, <1>4, <1>5, <1>6, <1>7, <1>8 DEF Iterate

\* Every step keeps the fences, since an iteration that is alone takes all of them.
LEMMA FencedStep == Shape /\ Stamped /\ Lone /\ Fenced /\ [Next]_vars => Fenced'
  <1> SUFFICES ASSUME Shape, Stamped, Lone, Fenced, [Next]_vars, NEW j \in Iterations, alone'[j]
               PROVE  Noted(j)' /\ Fence(j)' /\ OwnDoomed(j)'
    BY DEF Fenced
  <1>1. CASE Halt \/ EditGraders \/ UNCHANGED vars
    <2>1. UNCHANGED <<candidate, pc, pre, scan, doomed, alone>>
      BY <1>1 DEF Halt, EditGraders, vars, stores, cleaning, history
    <2>2. Noted(j) /\ Fence(j) /\ OwnDoomed(j)
      BY <2>1 DEF Fenced
    <2>3. QED
      BY <2>1, <2>2 DEF Noted, Fence, OwnDoomed, Unmixed, Is
  <1>2. ASSUME NEW i \in Iterations, Iterate(i)
        PROVE  Noted(j)' /\ Fence(j)' /\ OwnDoomed(j)'
    <2>1. CASE i = j
      <3>1. alone[j]
        <4>1. Start(i) => alone'[j] = (alone[j] /\ (j \in InFlight \cup {i} => InFlight = {}))
          BY DEF Start
        <4>2. QED
          BY <1>2, <4>1, StartsAlone
      <3>2. QED
        BY <1>2, <2>1, <3>1, MoverFenced DEF Fenced
    <2>2. CASE i # j
      <3>1. j \notin InFlight
        BY <1>2, <2>2, NobodyElse
      <3>2. pc'[j] = pc[j]
        BY <1>2, <2>2, OthersUntouched DEF Untouched
      <3>3. pc'[j] \in Ended \cup {"waiting"}
        BY <3>1, <3>2 DEF InFlight
      <3>4. QED
        BY <3>3, FencedNothing DEF Ended, Guarded, OnTheWay, Sealed, Cleaning
    <2>3. QED
      BY <2>1, <2>2
  <1>3. QED
    BY <1>1, <1>2 DEF Next

\* Only the cleanup takes a candidate from a tier without promoting it.
LEMMA OnlyDiscardsDiscard ==
    ASSUME Shape, NEW i \in Iterations, Iterate(i), NEW t \in Tiers, NEW id \in EntryIds, Discarded(t, id)
    PROVE  Discards(i, t, id)
  <1>1. candidate[t][id] # Absent /\ candidate'[t][id] = Absent /\ live'[t] = live[t]
    BY DEF Discarded
  <1>2. candidate' # candidate
    BY <1>1
  <1>3. ~Writes(i)
    <2>1. ASSUME NEW tier \in Tiers, NEW k \in EntryIds, NEW stamp, NewAt(i, tier, k, stamp)
          PROVE  FALSE
      BY <1>1, <2>1 DEF NewAt
    <2>2. QED
      BY <2>1, WritesNew
  <1>4. ASSUME NEW tier \in Tiers, NEW k \in EntryIds, NEW pres, Moved(i, tier, k, pres)
        PROVE  FALSE
    <2>1. live'[tier] # live[tier]
      BY <1>4, LiveThere
    <2>2. candidate' = [candidate EXCEPT ![tier] = Remove(candidate[tier], {k})]
      BY <1>4 DEF Moved
    <2>3. QED
      BY <1>1, <2>1, <2>2 DEF Shape, Typed
  <1>5. ASSUME NEW tier \in Tiers, NEW k \in EntryIds, NEW from, NEW to, Marked(i, tier, k, from, to)
        PROVE  FALSE
    <2>1. candidate' \in [Tiers -> Dict]
      BY <1>5, MarkedDict
    <2>2. candidate' = [candidate EXCEPT ![tier] = MarkedVerified(candidate[tier], <<k>>)]
      BY <1>5 DEF Marked
    <2>3. candidate[t][id] \in Entry
      BY <1>1 DEF Shape, Typed, Dict
    <2>4. [candidate[t][id] EXCEPT !.trust = VERIFIED] \in Entry
      BY <2>3 DEF Entry, TrustLevels, VERIFIED, DEPRECATED, PROMOTED
    <2>5. \A d : MarkedVerified(d, <<k>>)[id] \in {d[id], [d[id] EXCEPT !.trust = VERIFIED]}
      BY DEF MarkedVerified
    <2>6. candidate'[t][id] \in {candidate[t][id], [candidate[t][id] EXCEPT !.trust = VERIFIED]}
      BY <2>2, <2>5 DEF Shape, Typed
    <2>7. QED
      BY <1>1, <2>4, <2>6, AbsentIsNoEntry
  <1>6. CASE \/ Frontier(i) \/ Research(i) \/ Build(i) \/ Signed(i) \/ CheckPins(i) \/ VerifyRaises(i)
             \/ ConsolidateBlocked(i) \/ SignFails(i) \/ MarkFails(i) \/ Start(i) \/ Verify(i)
             \/ CheckClaim(i) \/ SignMismatch(i) \/ Announce(i) \/ CleanupEnd(i)
    <2>1. PICK to : Walks(i, to)
      BY <1>6, GatesWalk
    <2>2. QED
      BY <1>2, <2>1 DEF Walks, stores
  <1>7. CASE \/ SnapshotIds(i) \/ Raise(i) \/ TakePromotionLock(i) \/ PromoteFails(i) \/ Sign(i)
             \/ CleanupLook(i) \/ CleanupNextTier(i) \/ HashSkill(i) \/ SkillFails(i)
    BY <1>2, <1>7 DEF SnapshotIds, Raise, TakePromotionLock, PromoteFails, Sign, CleanupLook, CleanupNextTier,
                      HashSkill, SkillFails, stores
  <1>8. CASE MarkVerified(i) \/ Promote(i)
    <2>1. pc[i] \in Sealed
      BY <1>8 DEF MarkVerified, Promote, Sealed
    <2>2. target[i] \in Tiers /\ entry[i].id \in EntryIds
      BY <2>1 DEF Shape, Typed, Fitting, Fits, OnTheWay
    <2>3. QED
      BY <1>4, <1>5, <1>8, <2>2, Marks, Promotes
  <1>9. CASE MarkSkill(i) \/ PromoteSkill(i)
    <2>1. pc[i] \in WithSkill
      BY <1>9 DEF MarkSkill, PromoteSkill, WithSkill
    <2>2. SkillTier \in Tiers /\ skill[i].id \in EntryIds
      BY <2>1, SkillTierExists DEF Shape, Fitting, Fits
    <2>3. QED
      BY <1>4, <1>5, <1>9, <2>2, Marks, Promotes
  <1>10. CASE CleanupDiscard(i)
    <2>1. PICK tier \in Tiers, k \in EntryIds : Discards(i, tier, k)
      BY <1>10, CleanupDiscards
    <2>2. candidate' = [candidate EXCEPT ![tier] = Remove(candidate[tier], {k})]
      BY <2>1 DEF Discards
    <2>3. t = tier /\ id = k
      BY <1>1, <2>2 DEF Remove, Shape, Typed
    <2>4. QED
      BY <2>1, <2>3
  <1>11. QED
    BY <1>3, <1>6, <1>7, <1>8, <1>9, <1>10 DEF Iterate, Writes

\* The cleanup is careful: that of an iteration that ran alone discards nothing that
\* another left in the tiers, whatever ids and stamps its Librarian used.
THEOREM CleanupIsCareful == Spec => CleanupSpares
  <1>1. ASSUME Shape, Fenced, [Next]_vars, NEW t \in Tiers, NEW id \in EntryIds, Discarded(t, id)
        PROVE  \E i \in Iterations :
                  /\ pc[i] = "discarding" /\ doomed'[i] # doomed[i]
                  /\ alone[i] => candidate[t][id].content = i
    <2>1. candidate' # candidate
      BY <1>1 DEF Discarded
    <2>2. PICK i \in Iterations : Iterate(i)
      BY <1>1, <2>1 DEF Next, Halt, EditGraders, vars, stores
    <2>3. Discards(i, t, id)
      BY <1>1, <2>2, OnlyDiscardsDiscard
    <2>4. /\ pc[i] = "discarding" /\ id \in doomed[i] /\ t = TierOrder[scan[i] + 1]
          /\ doomed'[i] = doomed[i] \ {id}
      BY <1>1, <2>3 DEF Discards, Shape, Typed
    <2>5. alone[i] => Is(t, id, i)
      BY <1>1, <2>4 DEF Fenced, OwnDoomed, Discarded
    <2>6. QED
      BY <2>4, <2>5 DEF Is
  <1>2. Shape /\ Fenced /\ [Next]_vars =>
            [\A t \in Tiers, id \in EntryIds :
                Discarded(t, id) =>
                    \E i \in Iterations :
                        /\ pc[i] = "discarding" /\ doomed'[i] # doomed[i]
                        /\ alone[i] => candidate[t][id].content = i]_vars
    BY <1>1
  <1>3. Spec => [](Shape /\ Held /\ Lone /\ Fenced)
    <2>1. Init => Shape /\ Held /\ Lone /\ Fenced
      BY ShapeInit, HeldInit, FencedInit
    <2>2. Shape /\ Held /\ Lone /\ Fenced /\ [Next]_vars => (Shape /\ Held /\ Lone /\ Fenced)'
      BY ShapeStep, HeldStep, LoneStep, FencedStep DEF Held
    <2>3. QED
      BY <2>1, <2>2, PTL DEF Spec
  <1>4. QED
    BY <1>2, <1>3, PTL DEF Spec, CleanupSpares

-----------------------------------------------------------------------------
(* Each tier is a memory store and the iterations are its clients.  The    *)
(* steps of the hierarchy that reach a tier are named by what they change  *)
(* of it; one lemma per call of the store says which call that is.         *)

\* The why-docs as the store of tier t sees them.
WhyOf(t) ==
    [i \in Iterations |->
        IF skill[i].id # None /\ t = SkillTier THEN skill[i].pre
        ELSE IF target[i] = t THEN why[i] ELSE None]

Meets(t) == [Store(t)!Next]_(Store(t)!vars)

\* A step that changes nothing of the tier is a stuttering step of its store.
LEMMA NothingMeets ==
    ASSUME NEW t \in Tiers,
           candidate'[t] = candidate[t], live'[t] = live[t], archive'[t] = archive[t],
           promotions'[t] = promotions[t], WhyOf(t)' = WhyOf(t)
    PROVE  Meets(t)
  BY DEF Meets, Store!vars, WhyOf

\* A candidate that is written is a call of write_candidate.
LEMMA WriteMeets ==
    ASSUME NEW t \in Tiers, NEW id \in EntryIds, NEW i \in Iterations, NEW stamp \in {i, None},
           candidate'[t] = Overwrite(candidate[t], [k \in {id} |-> [content |-> i, trust |-> CANDIDATE,
                                                     writer |-> stamp, reason |-> None]]),
           live'[t] = live[t], archive'[t] = archive[t],
           promotions'[t] = promotions[t], WhyOf(t)' = WhyOf(t)
    PROVE  Meets(t)
  <1> DEFINE new == [k \in {id} |-> [content |-> i, trust |-> CANDIDATE, writer |-> stamp, reason |-> None]]
  <1>1. new \in [{id} -> [content : Contents, trust : {CANDIDATE}, writer : Writers \cup {None}, reason : {None}]]
    BY CoordinatorParameters
  <1>2. new \in Store(t)!NewEntries({id})
    BY <1>1 DEF Store!NewEntries
  <1>3. Store(t)!WriteCandidates(new)
    BY DEF Store!WriteCandidates, Store!Overwrite, Overwrite, WhyOf
  <1>4. {id} \in SUBSET EntryIds
    OBVIOUS
  <1>5. Store(t)!Next
    BY <1>2, <1>3, <1>4 DEF Store!Next
  <1>6. QED
    BY <1>5 DEF Meets

\* A signature is a call of live_snapshot.
LEMMA SignMeets ==
    ASSUME NEW t \in Tiers, NEW i \in Iterations,
           candidate'[t] = candidate[t], live'[t] = live[t], archive'[t] = archive[t],
           promotions'[t] = promotions[t], WhyOf(t)' = [WhyOf(t) EXCEPT ![i] = live[t]]
    PROVE  Meets(t)
  <1>1. Store(t)!Sign(i)
    BY DEF Store!Sign, WhyOf
  <1>2. QED
    BY <1>1 DEF Meets, Store!Next

\* A candidate that is marked is a call of mark_verified.
LEMMA MarkMeets ==
    ASSUME NEW t \in Tiers, NEW id \in EntryIds, VerifyAccepts(candidate[t], <<id>>),
           candidate'[t] = MarkedVerified(candidate[t], <<id>>), live'[t] = live[t], archive'[t] = archive[t],
           promotions'[t] = promotions[t], WhyOf(t)' = WhyOf(t)
    PROVE  Meets(t)
  <1>1. Store(t)!VerifyAccepts(candidate[t], <<id>>)
    BY DEF Store!VerifyAccepts, VerifyAccepts, Store!Named, Named, Store!ValidPromotion, ValidPromotion,
           Store!VERIFIED, VERIFIED, Store!DEPRECATED, DEPRECATED
  <1>2. candidate'[t] = Store(t)!MarkedVerified(candidate[t], <<id>>)
    BY DEF Store!MarkedVerified, MarkedVerified, Store!Named, Named, Store!VERIFIED, VERIFIED
  <1>3. Store(t)!MarkVerified(<<id>>)
    BY <1>1, <1>2 DEF Store!MarkVerified, WhyOf
  <1>4. <<id>> \in {<<k>> : k \in EntryIds}
    OBVIOUS
  <1>5. Store(t)!Next
    BY <1>3, <1>4 DEF Store!Next
  <1>6. QED
    BY <1>5 DEF Meets

\* The store's checks of a promotion are the hierarchy's.
LEMMA SameChecks ==
    ASSUME NEW t, NEW cand, NEW l, NEW batch, NEW pres, NEW role
    PROVE  Store(t)!PromoteAccepts(cand, l, batch, pres, role, t) <=> PromoteAccepts(cand, l, batch, pres, role, t)
  <1>1. \A current, to : Store(t)!ValidPromotion(current, to) <=> ValidPromotion(current, to)
    BY DEF Store!ValidPromotion, ValidPromotion, Store!DEPRECATED, DEPRECATED
  <1>2. Store(t)!MayWriteTier(role, t) <=> MayWriteTier(role, t)
    BY DEF Store!MayWriteTier, MayWriteTier, Store!Ceiling, Ceiling, Store!ConsumerTier, ConsumerTier
  <1>3. Store(t)!Named(batch) = Named(batch) /\ Store(t)!PROMOTED = PROMOTED
    BY DEF Store!Named, Named, Store!PROMOTED, PROMOTED
  <1>4. \A id : Store(t)!EntryPromotable(cand, l, id) <=> EntryPromotable(cand, l, id)
    BY <1>1, <1>3 DEF Store!EntryPromotable, EntryPromotable
  <1>5. QED
    BY <1>2, <1>3, <1>4 DEF Store!PromoteAccepts, PromoteAccepts

\* An entry that goes live is an accepted call of promote().
LEMMA PromoteMeets ==
    ASSUME NEW t \in Tiers, NEW i \in Iterations, NEW id \in EntryIds, NEW role \in {"librarian", "builder"},
           WhyOf(t)[i] # None, PromoteAccepts(candidate[t], live[t], <<id>>, WhyOf(t)[i], role, t),
           candidate'[t] = Remove(candidate[t], {id}), live'[t] = Promoted(candidate[t], live[t], <<id>>),
           archive'[t] = archive[t] \cup {[id |-> id, content |-> candidate[t][id].content]},
           promotions'[t] = Append(promotions[t], [pre |-> WhyOf(t)[i], ids |-> {id}]),
           WhyOf(t)' = WhyOf(t)
    PROVE  Meets(t)
  <1>1. Store(t)!PromoteAccepts(candidate[t], live[t], <<id>>, WhyOf(t)[i], role, t)
    BY SameChecks
  <1>2. Store(t)!Named(<<id>>) = {id}
    BY DEF Store!Named
  <1>3. Store(t)!ArchiveOf({id}) = {[id |-> id, content |-> candidate[t][id].content]}
    BY DEF Store!ArchiveOf
  <1>4. /\ candidate'[t] = Store(t)!Remove(candidate[t], {id})
        /\ live'[t] = Store(t)!Promoted(candidate[t], live[t], <<id>>)
    BY DEF Store!Remove, Remove, Store!Promoted, Promoted, Store!Named, Named, Store!PROMOTED, PROMOTED
  <1>5. Store(t)!Promote(i, <<id>>, role)
    BY <1>1, <1>2, <1>3, <1>4 DEF Store!Promote, Store!NoWhy, WhyOf
  <1>6. <<id>> \in {<<k>> : k \in EntryIds}
    OBVIOUS
  <1>7. Store(t)!Next
    BY <1>5, <1>6 DEF Store!Next
  <1>8. QED
    BY <1>7 DEF Meets

\* A why-doc that is dropped is a rejected call of promote().
LEMMA RejectMeets ==
    ASSUME NEW t \in Tiers, NEW i \in Iterations, NEW id \in EntryIds, NEW role \in {"librarian", "builder"},
           WhyOf(t)[i] # None, ~PromoteAccepts(candidate[t], live[t], <<id>>, WhyOf(t)[i], role, t),
           candidate'[t] = candidate[t], live'[t] = live[t], archive'[t] = archive[t],
           promotions'[t] = promotions[t], WhyOf(t)' = [WhyOf(t) EXCEPT ![i] = None]
    PROVE  Meets(t)
  <1>1. ~Store(t)!PromoteAccepts(candidate[t], live[t], <<id>>, WhyOf(t)[i], role, t)
    BY SameChecks
  <1>2. Store(t)!PromoteRejected(i, <<id>>, role)
    BY <1>1 DEF Store!PromoteRejected, Store!NoWhy, WhyOf
  <1>3. <<id>> \in {<<k>> : k \in EntryIds}
    OBVIOUS
  <1>4. Store(t)!Next
    BY <1>2, <1>3 DEF Store!Next
  <1>5. QED
    BY <1>4 DEF Meets

\* A candidate that is discarded is a call of discard_candidate.
LEMMA DiscardMeets ==
    ASSUME NEW t \in Tiers, NEW id \in EntryIds, candidate[t][id] # Absent,
           candidate'[t] = Remove(candidate[t], {id}), live'[t] = live[t],
           archive'[t] = archive[t] \cup {[id |-> id, content |-> candidate[t][id].content]},
           promotions'[t] = promotions[t], WhyOf(t)' = WhyOf(t)
    PROVE  Meets(t)
  <1>1. Store(t)!ArchiveOf({id}) = {[id |-> id, content |-> candidate[t][id].content]}
    BY DEF Store!ArchiveOf
  <1>2. candidate'[t] = Store(t)!Remove(candidate[t], {id})
    BY DEF Store!Remove, Remove
  <1>3. Store(t)!DiscardCandidate(id)
    BY <1>1, <1>2 DEF Store!DiscardCandidate, WhyOf
  <1>4. QED
    BY <1>3 DEF Meets, Store!Next

\* Most steps touch no store.
LEMMA IdleMeets ==
    ASSUME UNCHANGED <<candidate, live, archive, promotions, target, why, skill>>, NEW t \in Tiers
    PROVE  Meets(t)
  <1>1. WhyOf(t)' = WhyOf(t)
    BY DEF WhyOf
  <1>2. QED
    BY <1>1, NothingMeets

\* Before its skill path an iteration has no skill.
LEMMA NoSkillYet ==
    ASSUME Shape, NEW i \in Iterations, pc[i] \in OnTheWay \cup {"skill"}
    PROVE  skill[i].id = None /\ skill[i].pre = None
  <1>1. skill[i] = NoSkill
    BY DEF Shape, Fitting, Fits, OnTheWay, Sealed, WithSkill
  <1>2. NoSkill.id = None /\ NoSkill.pre = None
    BY DEF NoSkill
  <1>3. QED
    BY <1>1, <1>2

\* The Librarian writes a candidate, to one tier.
LEMMA LibrarianMeets ==
    ASSUME Shape, NEW i \in Iterations, Consolidate(i) \/ ConsolidateBuggy(i), NEW t \in Tiers
    PROVE  Meets(t)
  <1>1. PICK id, tier, claimed, stamp, librarian : Wrote(i, id, tier, claimed, stamp, librarian)
    BY LibrarianWrites
  <1> DEFINE new == [k \in {id} |-> [content |-> i, trust |-> CANDIDATE, writer |-> stamp, reason |-> None]]
  <1>2. /\ id \in EntryIds /\ tier \in Tiers /\ stamp \in {i, None}
        /\ candidate' = [candidate EXCEPT ![tier] = Overwrite(candidate[tier], new)]
        /\ UNCHANGED <<live, archive, promotions, target, why, skill>>
    BY <1>1 DEF Wrote, Shape, Typed
  <1>3. WhyOf(t)' = WhyOf(t)
    BY <1>2 DEF WhyOf
  <1>4. CASE t = tier
    <2>1. candidate'[t] = Overwrite(candidate[t], new)
      BY <1>2, <1>4 DEF Shape, Typed
    <2>2. live'[t] = live[t] /\ archive'[t] = archive[t] /\ promotions'[t] = promotions[t]
      BY <1>2
    <2>3. QED
      BY <1>2, <1>3, <2>1, <2>2, WriteMeets
  <1>5. CASE t # tier
    <2>1. candidate'[t] = candidate[t]
      BY <1>2, <1>5 DEF Shape, Typed
    <2>2. live'[t] = live[t] /\ archive'[t] = archive[t] /\ promotions'[t] = promotions[t]
      BY <1>2
    <2>3. QED
      BY <1>3, <2>1, <2>2, NothingMeets
  <1>6. QED
    BY <1>4, <1>5

\* The Auditor takes the snapshot of the target tier.
LEMMA AuditorMeets ==
    ASSUME Shape, NEW i \in Iterations, Sign(i), NEW t \in Tiers
    PROVE  Meets(t)
  <1>1. /\ pc[i] = "sign" /\ why' = [why EXCEPT ![i] = live[target[i]]]
        /\ UNCHANGED <<candidate, live, archive, promotions, target, skill>>
    BY DEF Sign, stores
  <1>2. skill[i].id = None /\ DOMAIN why = Iterations
    BY <1>1, NoSkillYet DEF Shape, Typed, OnTheWay
  <1>3. CASE t = target[i]
    <2>1. WhyOf(t)' = [WhyOf(t) EXCEPT ![i] = live[t]]
      BY <1>1, <1>2, <1>3 DEF WhyOf
    <2>2. QED
      BY <1>1, <2>1, SignMeets
  <1>4. CASE t # target[i]
    <2>1. WhyOf(t)' = WhyOf(t)
      BY <1>1, <1>2, <1>4 DEF WhyOf
    <2>2. QED
      BY <1>1, <2>1, NothingMeets
  <1>5. QED
    BY <1>3, <1>4

\* A candidate is marked, in one tier.
LEMMA MarkedMeets ==
    ASSUME Shape, NEW i \in Iterations, MarkVerified(i) \/ MarkSkill(i), NEW t \in Tiers
    PROVE  Meets(t)
  <1>1. PICK tier, id, from, to : tier \in Tiers /\ id \in EntryIds /\ Marked(i, tier, id, from, to)
    <2>1. CASE MarkVerified(i)
      <3>1. target[i] \in Tiers /\ entry[i].id \in EntryIds
        BY <2>1 DEF MarkVerified, Shape, Typed, Fitting, Fits, OnTheWay, Sealed
      <3>2. QED
        BY <2>1, <3>1, Marks
    <2>2. CASE MarkSkill(i)
      <3>1. SkillTier \in Tiers /\ skill[i].id \in EntryIds
        BY <2>2, SkillTierExists DEF MarkSkill, Shape, Fitting, Fits, WithSkill
      <3>2. QED
        BY <2>2, <3>1, Marks
    <2>3. QED
      BY <2>1, <2>2
  <1>2. /\ VerifyAccepts(candidate[tier], <<id>>)
        /\ candidate' = [candidate EXCEPT ![tier] = MarkedVerified(candidate[tier], <<id>>)]
        /\ UNCHANGED <<live, archive, promotions, target, why, skill>>
    BY <1>1 DEF Marked
  <1>3. WhyOf(t)' = WhyOf(t)
    BY <1>2 DEF WhyOf
  <1>4. live'[t] = live[t] /\ archive'[t] = archive[t] /\ promotions'[t] = promotions[t]
    BY <1>2
  <1>5. CASE t = tier
    <2>1. candidate'[t] = MarkedVerified(candidate[t], <<id>>)
      BY <1>2, <1>5 DEF Shape, Typed
    <2>2. QED
      BY <1>1, <1>2, <1>3, <1>4, <1>5, <2>1, MarkMeets
  <1>6. CASE t # tier
    <2>1. candidate'[t] = candidate[t]
      BY <1>2, <1>6 DEF Shape, Typed
    <2>2. QED
      BY <1>3, <1>4, <2>1, NothingMeets
  <1>7. QED
    BY <1>5, <1>6

\* A promotion of an entry is a promotion of its tier's store.
LEMMA MovedMeets ==
    ASSUME Shape, NEW i \in Iterations, NEW tier \in Tiers, NEW id \in EntryIds, NEW pres,
           NEW role \in {"librarian", "builder"},
           Moved(i, tier, id, pres), PromoteAccepts(candidate[tier], live[tier], <<id>>, pres, role, tier),
           pres # None, WhyOf(tier)[i] = pres, NEW t \in Tiers
    PROVE  Meets(t)
  <1>1. UNCHANGED <<target, why, skill>>
    BY DEF Moved
  <1>2. WhyOf(t)' = WhyOf(t)
    BY <1>1 DEF WhyOf
  <1>3. CASE t = tier
    <2>1. candidate'[t] = Remove(candidate[t], {id}) /\ live'[t] = Promoted(candidate[t], live[t], <<id>>)
      BY <1>3 DEF Moved, Shape, Typed
    <2>2. archive'[t] = archive[t] \cup {[id |-> id, content |-> candidate[t][id].content]}
      BY <1>3 DEF Moved, Shape, Typed
    <2>3. promotions'[t] = Append(promotions[t], [pre |-> pres, ids |-> {id}])
      BY <1>3 DEF Moved, Shape, Typed
    <2>4. QED
      BY <1>2, <1>3, <2>1, <2>2, <2>3, PromoteMeets
  <1>4. CASE t # tier
    <2>1. /\ candidate'[t] = candidate[t] /\ live'[t] = live[t] /\ archive'[t] = archive[t]
          /\ promotions'[t] = promotions[t]
      BY <1>4 DEF Moved, Shape, Typed
    <2>2. QED
      BY <1>2, <2>1, NothingMeets
  <1>5. QED
    BY <1>3, <1>4

\* An entry or a skill goes live, in one tier.
LEMMA PromotionMeets ==
    ASSUME Shape, NEW i \in Iterations, Promotions(i), NEW t \in Tiers
    PROVE  Meets(t)
  <1>1. CASE Promote(i)
    <2>1. /\ Moved(i, target[i], entry[i].id, why[i]) /\ pc[i] = "promoting"
          /\ PromoteAccepts(candidate[target[i]], live[target[i]], <<entry[i].id>>, why[i], "librarian", target[i])
      BY <1>1, Promotes DEF Promote, Promotable, Batch, Precondition
    <2>2. /\ target[i] \in Tiers /\ entry[i].id \in EntryIds /\ why[i] \in Dict /\ skill[i].id = None
      BY <2>1, NoSkillYet DEF Shape, Typed, Fitting, Fits, OnTheWay, Sealed
    <2>3. why[i] # None /\ WhyOf(target[i])[i] = why[i]
      BY <2>2, NoneIsNoDict DEF WhyOf
    <2>4. QED
      BY <2>1, <2>2, <2>3, MovedMeets
  <1>2. CASE PromoteSkill(i)
    <2>1. /\ Moved(i, SkillTier, skill[i].id, skill[i].pre) /\ pc[i] = "skill-hashed"
          /\ PromoteAccepts(candidate[SkillTier], live[SkillTier], <<skill[i].id>>, skill[i].pre, "builder", SkillTier)
      BY <1>2, Promotes DEF PromoteSkill, SkillPromotable, SkillBatch
    <2>2. SkillTier \in Tiers /\ skill[i].id \in EntryIds /\ skill[i].pre \in Dict
      BY <2>1, SkillTierExists DEF Shape, Fitting, Fits, WithSkill
    <2>3. skill[i].pre # None /\ WhyOf(SkillTier)[i] = skill[i].pre
      BY <2>2, NoneIsNoDict, CoordinatorParameters DEF WhyOf
    <2>4. QED
      BY <2>1, <2>2, <2>3, MovedMeets
  <1>3. QED
    BY <1>1, <1>2 DEF Promotions

\* A rejected promotion drops the why-doc of the target tier.
LEMMA PromoteFailsMeets ==
    ASSUME Shape, NEW i \in Iterations, PromoteFails(i), NEW t \in Tiers
    PROVE  Meets(t)
  <1>1. /\ pc[i] = "promoting" /\ why' = [why EXCEPT ![i] = None]
        /\ ~PromoteAccepts(candidate[target[i]], live[target[i]], <<entry[i].id>>, why[i], "librarian", target[i])
        /\ UNCHANGED <<candidate, live, archive, promotions, target, skill>>
    BY DEF PromoteFails, Promotable, Batch, Precondition, stores
  <1>2. /\ target[i] \in Tiers /\ entry[i].id \in EntryIds /\ why[i] \in Dict /\ skill[i].id = None
        /\ DOMAIN why = Iterations
    BY <1>1, NoSkillYet DEF Shape, Typed, Fitting, Fits, OnTheWay, Sealed
  <1>3. CASE t = target[i]
    <2>1. WhyOf(t)[i] = why[i] /\ WhyOf(t)[i] # None
      BY <1>2, <1>3, NoneIsNoDict DEF WhyOf
    <2>2. WhyOf(t)' = [WhyOf(t) EXCEPT ![i] = None]
      BY <1>1, <1>2, <1>3 DEF WhyOf
    <2>3. ~PromoteAccepts(candidate[t], live[t], <<entry[i].id>>, WhyOf(t)[i], "librarian", t)
      BY <1>1, <1>3, <2>1
    <2>4. QED
      BY <1>1, <1>2, <2>1, <2>2, <2>3, RejectMeets
  <1>4. CASE t # target[i]
    <2>1. WhyOf(t)' = WhyOf(t)
      BY <1>1, <1>2, <1>4 DEF WhyOf
    <2>2. QED
      BY <1>1, <2>1, NothingMeets
  <1>5. QED
    BY <1>3, <1>4

\* The cleanup discards a candidate, or finds it gone.
LEMMA CleanupMeets ==
    ASSUME Shape, NEW i \in Iterations, CleanupDiscard(i), NEW t \in Tiers
    PROVE  Meets(t)
  <1>1. PICK tier \in Tiers, id \in EntryIds : Discards(i, tier, id)
    BY CleanupDiscards
  <1>2. /\ candidate' = [candidate EXCEPT ![tier] = Remove(candidate[tier], {id})]
        /\ UNCHANGED <<live, promotions, target, why, skill>>
    BY <1>1 DEF Discards
  <1>3. WhyOf(t)' = WhyOf(t)
    BY <1>2 DEF WhyOf
  <1>4. live'[t] = live[t] /\ promotions'[t] = promotions[t]
    BY <1>2
  <1>5. CASE t = tier /\ candidate[tier][id] # Absent
    <2>1. candidate'[t] = Remove(candidate[t], {id})
      BY <1>2, <1>5 DEF Shape, Typed
    <2>2. archive'[t] = archive[t] \cup {[id |-> id, content |-> candidate[t][id].content]}
      BY <1>1, <1>5 DEF Discards, Shape, Typed
    <2>3. QED
      BY <1>3, <1>4, <1>5, <2>1, <2>2, DiscardMeets
  <1>6. CASE t = tier /\ candidate[tier][id] = Absent
    <2>1. Remove(candidate[t], {id}) = candidate[t]
      BY <1>6 DEF Remove, Shape, Typed, Dict
    <2>2. candidate'[t] = candidate[t] /\ archive'[t] = archive[t]
      BY <1>1, <1>2, <1>6, <2>1 DEF Discards, Shape, Typed
    <2>3. QED
      BY <1>3, <1>4, <2>2, NothingMeets
  <1>7. CASE t # tier
    <2>1. candidate'[t] = candidate[t]
      BY <1>2, <1>7 DEF Shape, Typed
    <2>2. archive'[t] = archive[t]
      BY <1>1, <1>7 DEF Discards, Shape, Typed
    <2>3. QED
      BY <1>3, <1>4, <2>1, <2>2, NothingMeets
  <1>8. QED
    BY <1>5, <1>6, <1>7

\* The tier of skills is not one that the Librarian may write.
LEMMA SkillsAreApart ==
    ASSUME Shape, NEW i \in Iterations, pc[i] \in {"skill"} \cup WithSkill
    PROVE  target[i] # SkillTier /\ SkillTier \in Tiers
  <1>1. MayWriteTier("librarian", target[i]) /\ i \in SkillMakers
    BY DEF Shape, Fitting, Fits, WithSkill
  <1>2. ~MayWriteTier("librarian", SkillTier)
    BY DEF MayWriteTier, Ceiling, ConsumerTier, SkillTier
  <1>3. QED
    BY <1>1, <1>2, SkillTierExists

\* A skill is written to its tier, where its iteration has no other why-doc.
LEMMA SkillWriteMeets ==
    ASSUME Shape, NEW i \in Iterations, WriteSkill(i), NEW t \in Tiers
    PROVE  Meets(t)
  <1>1. PICK id : SkillWritten(i, id)
    BY SkillWrites
  <1> DEFINE new == [k \in {id} |-> [content |-> i, trust |-> CANDIDATE, writer |-> None, reason |-> None]]
  <1>2. /\ pc[i] = "skill" /\ id \in EntryIds
        /\ candidate' = [candidate EXCEPT ![SkillTier] = Overwrite(candidate[SkillTier], new)]
        /\ skill' = [skill EXCEPT ![i].id = id]
        /\ UNCHANGED <<live, archive, promotions, target, why>>
    BY <1>1 DEF SkillWritten, Shape, Typed
  <1>3. target[i] # SkillTier /\ SkillTier \in Tiers /\ skill[i].id = None /\ skill[i].pre = None
    BY <1>2, SkillsAreApart, NoSkillYet
  <1>4. skill'[i].pre = None /\ \A k \in Iterations : k # i => skill'[k] = skill[k]
    BY <1>2, <1>3 DEF Shape, Typed, SkillRecords
  <1>5. \A k \in Iterations : WhyOf(t)'[k] = WhyOf(t)[k]
    BY <1>2, <1>3, <1>4 DEF WhyOf
  <1>6. WhyOf(t)' = WhyOf(t)
    BY <1>5 DEF WhyOf
  <1>7. live'[t] = live[t] /\ archive'[t] = archive[t] /\ promotions'[t] = promotions[t]
    BY <1>2
  <1>8. CASE t = SkillTier
    <2>1. candidate'[t] = Overwrite(candidate[t], new)
      BY <1>2, <1>8 DEF Shape, Typed
    <2>2. None \in {i, None}
      OBVIOUS
    <2>3. QED
      BY <1>2, <1>6, <1>7, <2>1, <2>2, WriteMeets
  <1>9. CASE t # SkillTier
    <2>1. candidate'[t] = candidate[t]
      BY <1>2, <1>9 DEF Shape, Typed
    <2>2. QED
      BY <1>6, <1>7, <2>1, NothingMeets
  <1>10. QED
    BY <1>8, <1>9

\* The hash the skill path takes is a signature of its own.
LEMMA SkillHashMeets ==
    ASSUME Shape, NEW i \in Iterations, HashSkill(i), NEW t \in Tiers
    PROVE  Meets(t)
  <1>1. PreSet(i, {"skill-marked"}, "skill-hashed", live[SkillTier])
    BY PresSet
  <1>2. /\ pc[i] = "skill-marked" /\ skill' = [skill EXCEPT ![i].pre = live[SkillTier]]
        /\ UNCHANGED <<candidate, live, archive, promotions, target, why>>
    BY <1>1 DEF PreSet
  <1>3. skill[i].id \in EntryIds /\ skill[i].id # None
    BY <1>2, CoordinatorParameters DEF Shape, Fitting, Fits, WithSkill
  <1>4. /\ skill'[i].pre = live[SkillTier] /\ skill'[i].id = skill[i].id
        /\ \A k \in Iterations : k # i => skill'[k] = skill[k]
    BY <1>2 DEF Shape, Typed, SkillRecords
  <1>5. CASE t = SkillTier
    <2>1. \A k \in Iterations : WhyOf(t)'[k] = IF k = i THEN live[t] ELSE WhyOf(t)[k]
      BY <1>2, <1>3, <1>4, <1>5 DEF WhyOf
    <2>2. WhyOf(t)' = [WhyOf(t) EXCEPT ![i] = live[t]]
      BY <2>1 DEF WhyOf
    <2>3. QED
      BY <1>2, <2>2, SignMeets
  <1>6. CASE t # SkillTier
    <2>1. WhyOf(t)' = WhyOf(t)
      BY <1>2, <1>6 DEF WhyOf
    <2>2. QED
      BY <1>2, <2>1, NothingMeets
  <1>7. QED
    BY <1>5, <1>6

\* A skill path that fails drops its precondition, as a rejected promotion does.
LEMMA SkillFailsMeets ==
    ASSUME Shape, NEW i \in Iterations, SkillFails(i), NEW t \in Tiers
    PROVE  Meets(t)
  <1>1. PreSet(i, {"skill"} \cup WithSkill, "unskilled", None)
    BY PresSet
  <1>2. /\ pc[i] \in {"skill"} \cup WithSkill /\ skill' = [skill EXCEPT ![i].pre = None]
        /\ UNCHANGED <<candidate, live, archive, promotions, target, why>>
    BY <1>1 DEF PreSet
  <1>3. target[i] # SkillTier /\ SkillTier \in Tiers
    BY <1>2, SkillsAreApart
  <1>4. /\ skill'[i].pre = None /\ skill'[i].id = skill[i].id
        /\ \A k \in Iterations : k # i => skill'[k] = skill[k]
    BY <1>2 DEF Shape, Typed, SkillRecords
  <1>5. CASE t = SkillTier /\ skill[i].id # None /\ skill[i].pre # None
    <2>1. skill[i].id \in EntryIds
      BY <1>5 DEF Shape, Typed, SkillRecords
    <2>2. WhyOf(t)[i] = skill[i].pre
      BY <1>5 DEF WhyOf
    <2>3. \A k \in Iterations : WhyOf(t)'[k] = IF k = i THEN None ELSE WhyOf(t)[k]
      BY <1>2, <1>4, <1>5 DEF WhyOf
    <2>4. WhyOf(t)' = [WhyOf(t) EXCEPT ![i] = None]
      BY <2>3 DEF WhyOf
    <2>5. ~MayWriteTier("librarian", t)
      BY <1>5 DEF MayWriteTier, Ceiling, ConsumerTier, SkillTier
    <2>6. "librarian" # None
      BY ConstantsDisjoint DEF Roles
    <2>7. ~PromoteAccepts(candidate[t], live[t], <<skill[i].id>>, WhyOf(t)[i], "librarian", t)
      BY <2>5, <2>6 DEF PromoteAccepts
    <2>8. QED
      BY <1>2, <1>5, <2>1, <2>2, <2>4, <2>7, RejectMeets
  <1>6. CASE ~(t = SkillTier /\ skill[i].id # None /\ skill[i].pre # None)
    <2>1. \A k \in Iterations : WhyOf(t)'[k] = WhyOf(t)[k]
      BY <1>2, <1>3, <1>4, <1>6 DEF WhyOf
    <2>2. WhyOf(t)' = WhyOf(t)
      BY <2>1 DEF WhyOf
    <2>3. QED
      BY <1>2, <2>2, NothingMeets
  <1>7. QED
    BY <1>5, <1>6

\* Every step is, of every tier, a call of its store or nothing.
LEMMA StoreStep == Shape /\ [Next]_vars => \A t \in Tiers : Meets(t)
  <1> SUFFICES ASSUME Shape, [Next]_vars, NEW t \in Tiers
               PROVE  Meets(t)
    OBVIOUS
  <1>1. CASE Halt \/ EditGraders \/ UNCHANGED vars
    BY <1>1, IdleMeets DEF Halt, EditGraders, vars, stores, facts
  <1>2. ASSUME NEW i \in Iterations, Iterate(i)
        PROVE  Meets(t)
    <2>1. CASE \/ Frontier(i) \/ Research(i) \/ Build(i) \/ Signed(i) \/ CheckPins(i) \/ VerifyRaises(i)
               \/ ConsolidateBlocked(i) \/ SignFails(i) \/ MarkFails(i) \/ Start(i) \/ Verify(i)
               \/ CheckClaim(i) \/ SignMismatch(i) \/ Announce(i) \/ CleanupEnd(i)
      <3>1. PICK to : Walks(i, to)
        BY <2>1, GatesWalk
      <3>2. QED
        BY <3>1, IdleMeets DEF Walks, stores
    <2>2. CASE SnapshotIds(i) \/ Raise(i) \/ TakePromotionLock(i) \/ CleanupLook(i) \/ CleanupNextTier(i)
      BY <2>2, IdleMeets DEF SnapshotIds, Raise, TakePromotionLock, CleanupLook, CleanupNextTier, stores, facts
    <2>3. CASE Consolidate(i) \/ ConsolidateBuggy(i) \/ Sign(i)
      BY <2>3, LibrarianMeets, AuditorMeets
    <2>4. CASE MarkVerified(i) \/ MarkSkill(i)
      BY <2>4, MarkedMeets
    <2>5. CASE Promote(i) \/ PromoteSkill(i)
      BY <2>5, PromotionMeets DEF Promotions
    <2>6. CASE PromoteFails(i) \/ CleanupDiscard(i)
      BY <2>6, PromoteFailsMeets, CleanupMeets
    <2>7. CASE WriteSkill(i) \/ HashSkill(i) \/ SkillFails(i)
      BY <2>7, SkillWriteMeets, SkillHashMeets, SkillFailsMeets
    <2>8. QED
      BY <1>2, <2>1, <2>2, <2>3, <2>4, <2>5, <2>6, <2>7 DEF Iterate
  <1>3. QED
    BY <1>1, <1>2 DEF Next

\* Every tier starts as an empty store.
LEMMA StoreInit == Init => \A t \in Tiers : Store(t)!Init
  <1> SUFFICES ASSUME Init, NEW t \in Tiers
               PROVE  Store(t)!Init
    OBVIOUS
  <1>1. NoSkill.id = None
    BY DEF NoSkill
  <1>2. WhyOf(t) = [i \in Iterations |-> None]
    BY <1>1 DEF Init, WhyOf
  <1>3. candidate[t] = EmptyDict /\ live[t] = EmptyDict /\ archive[t] = {} /\ promotions[t] = <<>>
    BY DEF Init
  <1>4. QED
    BY <1>2, <1>3 DEF Store!Init, Store!NoWhy, Store!EmptyDict, EmptyDict, WhyOf

\* Every tier of the hierarchy is a memory store of which the iterations, and the
\* daemon's skill paths, are the clients: whatever they do to it is a call of the
\* store with a why-doc that the caller signed, or nothing.
THEOREM TiersAreStores == Spec => StoreSpec
  <1>1. Shape /\ [Next]_vars => \A t \in Tiers : [Store(t)!Next]_(Store(t)!vars)
    BY StoreStep DEF Meets
  <1>2. Shape /\ [Next]_vars => [\A t \in Tiers : [Store(t)!Next]_(Store(t)!vars)]_vars
    BY <1>1
  <1>3. QED
    BY <1>2, StoreInit, PlacesInvariant, PTL DEF Spec, StoreSpec

=============================================================================
