-------------------------- MODULE MemoryStoreProofs --------------------------
(***************************************************************************)
(* The properties of MemoryStore, for every set of entries, clients,       *)
(* batches and roles.  The argument: an id that is live cannot be promoted *)
(* again, because a live entry is PROMOTED or DEPRECATED and neither may   *)
(* rise to PROMOTED (LiveTrust).  So each promotion adds ids that were not *)
(* live in the snapshot it is fenced by, every later promotion is fenced   *)
(* by a snapshot in which they are live (HistoryOrdered), and no two       *)
(* promotions can have the same snapshot.                                  *)
(***************************************************************************)
EXTENDS MemoryStore, SequenceTheorems, TLAPS

LiveTrust ==
    \A id \in EntryIds :
        live[id] # Absent => live[id].trust \in {PROMOTED, DEPRECATED}

\* The promotions so far: each one added at least one id, absent before it and
\* live now.
HistoryAdds ==
    \A i \in DOMAIN promotions :
        /\ promotions[i].ids # {}
        /\ \A id \in promotions[i].ids :
              promotions[i].pre[id] = Absent /\ live[id] # Absent

HistoryOrdered ==
    \A i, j \in DOMAIN promotions : i < j =>
        \A id \in promotions[i].ids : promotions[j].pre[id] # Absent

LiveExplained ==
    \A id \in EntryIds : live[id] # Absent =>
        \E i \in DOMAIN promotions : id \in promotions[i].ids

IInv ==
    /\ TypeOK
    /\ LiveTrust
    /\ HistoryAdds
    /\ HistoryOrdered
    /\ LiveExplained
    /\ LiveIsArchived

\* What a snapshot can be: the dictionaries are typed and None is not one.
LEMMA DictFacts ==
    ASSUME NEW d \in Dict, NEW id \in EntryIds
    PROVE  d[id] # Absent => d[id] \in Entry
  BY DEF Dict

\* The ids of a batch.
LEMMA NamedIds ==
    ASSUME NEW batch \in Batches
    PROVE  /\ Named(batch) \subseteq EntryIds
           /\ batch # <<>> => Named(batch) # {}
  <1>1. batch \in Seq(EntryIds)
    BY StoreParameters
  <1>2. ASSUME batch # <<>>
        PROVE  1 \in DOMAIN batch
    BY <1>1, <1>2, EmptySeq
  <1>3. QED
    BY <1>1, <1>2 DEF Named

\* An accepted promotion names ids that were not live: the live entries are at
\* levels from which PROMOTED cannot be reached.
LEMMA PromoteAddsIds ==
    ASSUME IInv, NEW batch \in Batches, NEW pre, NEW role,
           PromoteAccepts(candidate, live, batch, pre, role, Tier)
    PROVE  \A id \in Named(batch) :
              /\ id \in EntryIds
              /\ live[id] = Absent
              /\ candidate[id] \in Entry
  <1> SUFFICES ASSUME NEW id \in Named(batch)
               PROVE  id \in EntryIds /\ live[id] = Absent /\ candidate[id] \in Entry
    OBVIOUS
  <1>1. id \in EntryIds
    BY NamedIds
  <1>2. EntryPromotable(candidate, live, id)
    BY DEF PromoteAccepts
  <1>3. candidate[id] \in Entry
    BY <1>1, <1>2 DEF EntryPromotable, IInv, TypeOK, Dict
  <1>4. live[id] = Absent
    BY <1>1, <1>2 DEF EntryPromotable, ValidPromotion, IInv, LiveTrust, PROMOTED, DEPRECATED
  <1>5. QED
    BY <1>1, <1>3, <1>4

\* The invariant holds at the start.
LEMMA InitIInv == Init => IInv
  <1> SUFFICES ASSUME Init PROVE IInv
    OBVIOUS
  <1>1. TypeOK
    BY DEF Init, TypeOK, Dict, EmptyDict, NoWhy
  <1>2. LiveTrust /\ LiveExplained /\ LiveIsArchived
    BY DEF Init, EmptyDict, LiveTrust, LiveExplained, LiveIsArchived
  <1>3. HistoryAdds /\ HistoryOrdered
    BY DEF Init, HistoryAdds, HistoryOrdered
  <1>4. QED
    BY <1>1, <1>2, <1>3 DEF IInv

-----------------------------------------------------------------------------
(* One lemma per operation of the store.                                   *)

\* write_candidate keeps the invariant.
LEMMA WriteCandidatesIInv ==
    ASSUME IInv, NEW ids \in SUBSET EntryIds, NEW new \in NewEntries(ids),
           WriteCandidates(new)
    PROVE  IInv'
  <1>1. \A id \in ids : new[id] \in Entry
    BY StoreParameters DEF NewEntries, Entry
  <1>2. candidate' \in Dict
    BY <1>1 DEF WriteCandidates, Overwrite, IInv, TypeOK, Dict, NewEntries
  <1>3. UNCHANGED <<live, archive, why, promotions>>
    BY DEF WriteCandidates
  <1>4. TypeOK'
    BY <1>2, <1>3 DEF IInv, TypeOK
  <1>5. QED
    BY <1>3, <1>4 DEF IInv, LiveTrust, HistoryAdds, HistoryOrdered, LiveExplained,
                      LiveIsArchived

\* sign keeps it.
LEMMA SignIInv ==
    ASSUME IInv, NEW c \in Clients, Sign(c)
    PROVE  IInv'
  <1>1. TypeOK'
    BY DEF Sign, IInv, TypeOK
  <1>2. QED
    BY <1>1 DEF Sign, IInv, LiveTrust, HistoryAdds, HistoryOrdered, LiveExplained,
                LiveIsArchived

\* mark_verified keeps it.
LEMMA MarkVerifiedIInv ==
    ASSUME IInv, NEW batch \in Batches, MarkVerified(batch)
    PROVE  IInv'
  <1>1. ASSUME NEW id \in EntryIds
        PROVE  MarkedVerified(candidate, batch)[id] \in Entry \cup {Absent}
    <2>1. candidate[id] \in Entry \cup {Absent}
      BY DEF IInv, TypeOK, Dict
    <2>2. CASE id \in Named(batch) /\ candidate[id].trust < VERIFIED
      <3>1. candidate[id] \in Entry
        BY <2>1, <2>2 DEF MarkVerified, VerifyAccepts
      <3>2. [candidate[id] EXCEPT !.trust = VERIFIED] \in Entry
        BY <3>1 DEF Entry, TrustLevels, VERIFIED, PROMOTED, DEPRECATED
      <3>3. QED
        BY <2>2, <3>2 DEF MarkedVerified
    <2>3. CASE ~(id \in Named(batch) /\ candidate[id].trust < VERIFIED)
      BY <2>1, <2>3 DEF MarkedVerified
    <2>4. QED
      BY <2>2, <2>3
  <1>2. candidate' \in Dict
    BY <1>1 DEF MarkVerified, MarkedVerified, Dict
  <1>3. TypeOK'
    BY <1>2 DEF MarkVerified, IInv, TypeOK
  <1>4. QED
    BY <1>3 DEF MarkVerified, IInv, LiveTrust, HistoryAdds, HistoryOrdered, LiveExplained,
                LiveIsArchived

\* What is archived is a set of entries.
LEMMA ArchiveTyped ==
    ASSUME TypeOK, NEW ids \in SUBSET EntryIds, \A id \in ids : candidate[id] \in Entry
    PROVE  ArchiveOf(ids) \subseteq [id : EntryIds, content : Contents]
  BY DEF ArchiveOf, Entry

\* discard_candidate keeps it.
LEMMA DiscardIInv ==
    ASSUME IInv, NEW id \in EntryIds, DiscardCandidate(id)
    PROVE  IInv'
  <1>1. candidate[id] \in Entry
    BY DEF DiscardCandidate, IInv, TypeOK, Dict
  <1>2. ArchiveOf({id}) \subseteq [id : EntryIds, content : Contents]
    BY <1>1, ArchiveTyped DEF IInv
  <1>3. candidate' \in Dict
    BY DEF DiscardCandidate, Remove, IInv, TypeOK, Dict
  <1>4. TypeOK'
    BY <1>2, <1>3 DEF DiscardCandidate, IInv, TypeOK
  <1>5. LiveIsArchived'
    BY DEF DiscardCandidate, IInv, LiveIsArchived
  <1>6. QED
    BY <1>4, <1>5 DEF DiscardCandidate, IInv, LiveTrust, HistoryAdds, HistoryOrdered,
                      LiveExplained

\* The history of promotions is a sequence of records.
LEMMA PromotionsTyped ==
    ASSUME TypeOK, NEW i \in DOMAIN promotions
    PROVE  /\ promotions[i].pre \in Dict
           /\ promotions[i].ids \subseteq EntryIds
           /\ i \in Nat
  <1>1. promotions \in Seq(Promotion)
    BY DEF TypeOK
  <1>2. promotions[i] \in Promotion /\ i \in Nat
    BY <1>1
  <1>3. QED
    BY <1>2 DEF Promotion

\* deprecate_live keeps it.
LEMMA DeprecateIInv ==
    ASSUME IInv, NEW id \in EntryIds, NEW reason \in Reasons, DeprecateLive(id, reason)
    PROVE  IInv'
  <1>1. live[id] \in Entry
    BY DEF DeprecateLive, IInv, TypeOK, Dict
  <1>2. /\ live'[id] = [content |-> live[id].content, trust |-> DEPRECATED,
                        writer |-> live[id].writer, reason |-> reason]
        /\ \A other \in EntryIds : other # id => live'[other] = live[other]
    BY DEF DeprecateLive, Deprecated, IInv, TypeOK, Dict
  <1>3. /\ live'[id] \in Entry
        /\ live'[id].trust = DEPRECATED
        /\ live'[id].content = live[id].content
    BY <1>1, <1>2 DEF Entry, TrustLevels, DEPRECATED, PROMOTED
  <1>4. \A other \in EntryIds : live'[other] # Absent <=> live[other] # Absent
    BY <1>1, <1>2, <1>3, AbsentIsNoEntry
  <1>5. live' \in Dict
    BY <1>2, <1>3 DEF DeprecateLive, Deprecated, IInv, TypeOK, Dict
  <1>6. TypeOK'
    BY <1>5 DEF DeprecateLive, IInv, TypeOK
  <1>7. LiveTrust'
    BY <1>2, <1>3 DEF IInv, LiveTrust
  <1>8. LiveExplained' /\ HistoryOrdered'
    BY <1>4 DEF DeprecateLive, IInv, LiveExplained, HistoryOrdered
  <1>9. HistoryAdds'
    <2>1. \A i \in DOMAIN promotions : promotions[i].ids \subseteq EntryIds
      BY PromotionsTyped DEF IInv
    <2>2. QED
      BY <1>4, <2>1 DEF DeprecateLive, IInv, HistoryAdds
  <1>10. LiveIsArchived'
    BY <1>2, <1>3, <1>4 DEF DeprecateLive, IInv, LiveIsArchived
  <1>11. QED
    BY <1>6, <1>7, <1>8, <1>9, <1>10 DEF IInv

\* promote keeps it: an id it moves was not live before.
LEMMA PromoteIInv ==
    ASSUME IInv, NEW c \in Clients, NEW batch \in Batches, NEW role \in ProducerRoles,
           Promote(c, batch, role)
    PROVE  IInv'
  <1> DEFINE ids == Named(batch)
             step == [pre |-> why[c], ids |-> ids]
  <1>1. /\ ids \subseteq EntryIds
        /\ batch # <<>> => ids # {}
    BY NamedIds
  <1>2. \A id \in ids : /\ live[id] = Absent
                        /\ candidate[id] \in Entry
    BY PromoteAddsIds DEF Promote
  <1>3. /\ why[c] = live
        /\ UNCHANGED why
    BY DEF Promote, PromoteAccepts
  <1>4. \A id \in EntryIds :
            live'[id] = IF id \in ids THEN [candidate[id] EXCEPT !.trust = PROMOTED]
                                      ELSE live[id]
    BY DEF Promote, Promoted
  <1>5. \A id \in ids : /\ live'[id] \in Entry
                        /\ live'[id].trust = PROMOTED
                        /\ live'[id].content = candidate[id].content
    <2> SUFFICES ASSUME NEW id \in ids
                 PROVE  /\ live'[id] \in Entry
                        /\ live'[id].trust = PROMOTED
                        /\ live'[id].content = candidate[id].content
      OBVIOUS
    <2>1. live'[id] = [candidate[id] EXCEPT !.trust = PROMOTED]
      BY <1>1, <1>4
    <2>2. candidate[id] \in Entry
      BY <1>2
    <2>3. [candidate[id] EXCEPT !.trust = PROMOTED] \in Entry
      BY <2>2 DEF Entry, TrustLevels, PROMOTED, DEPRECATED
    <2>4. QED
      BY <2>1, <2>2, <2>3 DEF Entry
  <1>6. \A id \in EntryIds : live'[id] # Absent <=> id \in ids \/ live[id] # Absent
    BY <1>1, <1>4, <1>5, AbsentIsNoEntry
  <1>7. live' \in Dict /\ candidate' \in Dict
    <2>1. live' \in Dict
      BY <1>4, <1>5 DEF Promote, Promoted, IInv, TypeOK, Dict
    <2>2. candidate' \in Dict
      BY DEF Promote, Remove, IInv, TypeOK, Dict
    <2>3. QED
      BY <2>1, <2>2
  <1>8. step \in Promotion
    BY <1>1, <1>3 DEF IInv, TypeOK, Promotion
  <1>9. promotions' = IF batch = <<>> THEN promotions ELSE Append(promotions, step)
    BY DEF Promote
  <1>10. TypeOK'
    <2>1. archive' \subseteq [id : EntryIds, content : Contents]
      BY <1>1, <1>2, ArchiveTyped DEF Promote, IInv, TypeOK
    <2>2. promotions' \in Seq(Promotion)
      <3>1. promotions \in Seq(Promotion)
        BY DEF IInv, TypeOK
      <3>2. QED
        BY <1>8, <1>9, <3>1, AppendProperties
    <2>3. QED
      BY <1>3, <1>7, <2>1, <2>2 DEF IInv, TypeOK
  <1>11. LiveTrust'
    BY <1>4, <1>5 DEF IInv, LiveTrust
  <1>12. LiveIsArchived'
    <2>1. \A id \in ids : [id |-> id, content |-> live'[id].content] \in archive'
      BY <1>5 DEF Promote, ArchiveOf
    <2>2. QED
      BY <1>4, <2>1 DEF Promote, IInv, LiveIsArchived
  <1>13. HistoryAdds' /\ HistoryOrdered' /\ LiveExplained'
    <2>1. CASE batch = <<>>
      <3>1. ids = {}
        BY <2>1 DEF Named
      <3>2. \A id \in EntryIds : live'[id] = live[id]
        BY <1>4, <3>1
      <3>3. \A i \in DOMAIN promotions : promotions[i].ids \subseteq EntryIds
        BY PromotionsTyped DEF IInv
      <3>4. QED
        BY <1>9, <2>1, <3>2, <3>3 DEF IInv, HistoryAdds, HistoryOrdered, LiveExplained
    <2>2. CASE batch # <<>>
      <3> DEFINE n == Len(promotions)
      <3>1. /\ n \in Nat
            /\ DOMAIN promotions = 1 .. n
            /\ DOMAIN promotions' = 1 .. n + 1
            /\ \A i \in 1 .. n : promotions'[i] = promotions[i]
            /\ promotions'[n + 1] = step
        <4>1. promotions \in Seq(Promotion)
          BY DEF IInv, TypeOK
        <4>2. promotions' = Append(promotions, step)
          BY <1>9, <2>2
        <4>3. QED
          BY <1>8, <4>1, <4>2, LenProperties, AppendProperties
      <3>2. \A i \in 1 .. n : promotions[i].ids \subseteq EntryIds
        BY <3>1, PromotionsTyped DEF IInv
      <3>3. step.pre = live /\ step.ids = ids
        BY <1>3
      <3>4. HistoryAdds'
        <4>1. ASSUME NEW i \in 1 .. n
              PROVE  /\ promotions'[i].ids # {}
                     /\ \A id \in promotions'[i].ids :
                           promotions'[i].pre[id] = Absent /\ live'[id] # Absent
          BY <1>6, <3>1, <3>2 DEF IInv, HistoryAdds
        <4>2. /\ step.ids # {}
              /\ \A id \in step.ids : step.pre[id] = Absent /\ live'[id] # Absent
          BY <1>1, <1>2, <1>6, <2>2, <3>3
        <4>3. \A i \in 1 .. n + 1 : i \in 1 .. n \/ i = n + 1
          BY <3>1
        <4>4. QED
          BY <3>1, <4>1, <4>2, <4>3 DEF HistoryAdds
      <3>5. HistoryOrdered'
        <4>1. ASSUME NEW i \in 1 .. n + 1, NEW j \in 1 .. n + 1, i < j,
                     NEW id \in promotions'[i].ids
              PROVE  promotions'[j].pre[id] # Absent
          <5>1. i \in 1 .. n
            BY <3>1, <4>1
          <5>2. id \in promotions[i].ids
            BY <3>1, <4>1, <5>1
          <5>3. CASE j \in 1 .. n
            BY <3>1, <4>1, <5>1, <5>2, <5>3 DEF IInv, HistoryOrdered
          <5>4. CASE j = n + 1
            BY <3>1, <3>3, <5>1, <5>2, <5>4 DEF IInv, HistoryAdds
          <5>5. QED
            BY <3>1, <5>3, <5>4
        <4>2. QED
          BY <3>1, <4>1 DEF HistoryOrdered
      <3>6. LiveExplained'
        <4>1. ASSUME NEW id \in EntryIds, live'[id] # Absent
              PROVE  \E i \in 1 .. n + 1 : id \in promotions'[i].ids
          <5>1. CASE id \in ids
            BY <3>1, <3>3, <5>1
          <5>2. CASE id \notin ids
            <6>1. PICK i \in 1 .. n : id \in promotions[i].ids
              BY <1>6, <3>1, <4>1, <5>2 DEF IInv, LiveExplained
            <6>2. QED
              BY <3>1, <6>1
          <5>3. QED
            BY <5>1, <5>2
        <4>2. QED
          BY <3>1, <4>1 DEF LiveExplained
      <3>7. QED
        BY <3>4, <3>5, <3>6
    <2>3. QED
      BY <2>1, <2>2
  <1>14. QED
    BY <1>10, <1>11, <1>12, <1>13 DEF IInv

-----------------------------------------------------------------------------
(* The theorems.                                                           *)

\* Every step keeps the invariant.
LEMMA NextIInv == IInv /\ [Next]_vars => IInv'
  <1> SUFFICES ASSUME IInv, [Next]_vars
               PROVE  IInv'
    OBVIOUS
  <1>1. CASE \E ids \in SUBSET EntryIds : \E new \in NewEntries(ids) : WriteCandidates(new)
    BY <1>1, WriteCandidatesIInv
  <1>2. CASE \E batch \in Batches : MarkVerified(batch)
    BY <1>2, MarkVerifiedIInv
  <1>3. CASE \E c \in Clients : Sign(c)
    BY <1>3, SignIInv
  <1>4. CASE \E c \in Clients, batch \in Batches, role \in ProducerRoles :
                Promote(c, batch, role)
    BY <1>4, PromoteIInv
  <1>5. CASE \E c \in Clients, batch \in Batches, role \in ProducerRoles :
                PromoteRejected(c, batch, role)
    <2>1. UNCHANGED <<candidate, live, archive, promotions>>
      BY <1>5 DEF PromoteRejected
    <2>2. why' \in [Clients -> Dict \cup {NoWhy}]
      BY <1>5 DEF PromoteRejected, IInv, TypeOK
    <2>3. TypeOK'
      BY <2>1, <2>2 DEF IInv, TypeOK
    <2>4. QED
      BY <2>1, <2>3 DEF IInv, LiveTrust, HistoryAdds, HistoryOrdered, LiveExplained,
                        LiveIsArchived
  <1>6. CASE \E id \in EntryIds : DiscardCandidate(id)
    BY <1>6, DiscardIInv
  <1>7. CASE \E id \in EntryIds, reason \in Reasons : DeprecateLive(id, reason)
    BY <1>7, DeprecateIInv
  <1>8. CASE UNCHANGED vars
    <2>1. UNCHANGED <<candidate, live, archive, why, promotions>>
      BY <1>8 DEF vars
    <2>2. TypeOK'
      BY <2>1 DEF IInv, TypeOK
    <2>3. QED
      BY <2>1, <2>2 DEF IInv, LiveTrust, HistoryAdds, HistoryOrdered, LiveExplained,
                        LiveIsArchived
  <1>9. QED
    BY <1>1, <1>2, <1>3, <1>4, <1>5, <1>6, <1>7, <1>8 DEF Next

\* The inductive invariant holds in every reachable state of one tier's store,
\* for any interleaving of its methods.
THEOREM Invariance == Spec => []IInv
  BY InitIInv, NextIInv, PTL DEF Spec

\* The dictionaries, the archive and the outstanding why-docs of a store keep
\* their types under every interleaving of its methods.
THEOREM TypeCorrectness == Spec => []TypeOK
  <1>1. IInv => TypeOK
    BY DEF IInv
  <1>2. QED
    BY <1>1, Invariance, PTL

\* The hash precondition of promote() is a fence: of all the why-docs signed
\* against one state of the live store, at most one is ever promoted.
THEOREM OneWinner == Spec => []OneWinnerPerPrecondition
  <1>1. IInv => OneWinnerPerPrecondition
    <2> SUFFICES ASSUME IInv, NEW i \in DOMAIN promotions, NEW j \in DOMAIN promotions,
                        promotions[i].pre = promotions[j].pre
                 PROVE  i = j
      BY DEF OneWinnerPerPrecondition
    <2>1. i \in Nat /\ j \in Nat
      BY PromotionsTyped DEF IInv
    <2>2. ASSUME NEW a \in DOMAIN promotions, NEW b \in DOMAIN promotions, a < b
          PROVE  promotions[a].pre # promotions[b].pre
      <3>1. PICK id \in promotions[a].ids : promotions[a].pre[id] = Absent
        BY DEF IInv, HistoryAdds
      <3>2. promotions[b].pre[id] # Absent
        BY <2>2 DEF IInv, HistoryOrdered
      <3>3. QED
        BY <3>1, <3>2
    <2>3. ~(i < j) /\ ~(j < i)
      BY <2>2
    <2>4. QED
      BY <2>1, <2>3
  <1>2. QED
    BY <1>1, Invariance, PTL

\* Exactly one promotion accounts for each live entry.
THEOREM OneWhyPerLiveEntry == Spec => []LiveHasOneWhy
  <1>1. IInv => LiveHasOneWhy
    <2> SUFFICES ASSUME IInv, NEW id \in EntryIds
                 PROVE  live[id] # Absent <=>
                            \E i \in DOMAIN promotions :
                                /\ id \in promotions[i].ids
                                /\ \A j \in DOMAIN promotions :
                                      id \in promotions[j].ids => j = i
      BY DEF LiveHasOneWhy
    <2>1. ASSUME NEW i \in DOMAIN promotions, NEW j \in DOMAIN promotions,
                 id \in promotions[i].ids, id \in promotions[j].ids
          PROVE  j = i
      <3>1. i \in Nat /\ j \in Nat
        BY PromotionsTyped DEF IInv
      <3>2. promotions[i].pre[id] = Absent /\ promotions[j].pre[id] = Absent
        BY <2>1 DEF IInv, HistoryAdds
      <3>3. ~(i < j) /\ ~(j < i)
        BY <2>1, <3>2 DEF IInv, HistoryOrdered
      <3>4. QED
        BY <3>1, <3>3
    <2>2. ASSUME live[id] # Absent
          PROVE  \E i \in DOMAIN promotions : id \in promotions[i].ids
      BY <2>2 DEF IInv, LiveExplained
    <2>3. ASSUME NEW i \in DOMAIN promotions, id \in promotions[i].ids
          PROVE  live[id] # Absent
      BY <2>3 DEF IInv, HistoryAdds
    <2>4. QED
      BY <2>1, <2>2, <2>3
  <1>2. QED
    BY <1>1, Invariance, PTL

\* No promotion replaces an entry that was live when its why-doc was signed.
THEOREM AddOnly == Spec => []PromotionsOnlyAdd
  <1>1. IInv => PromotionsOnlyAdd
    BY DEF IInv, HistoryAdds, PromotionsOnlyAdd
  <1>2. QED
    BY <1>1, Invariance, PTL

\* The archive holds the candidate of every live entry.
THEOREM ArchivedBeforeLive == Spec => []LiveIsArchived
  <1>1. IInv => LiveIsArchived
    BY DEF IInv
  <1>2. QED
    BY <1>1, Invariance, PTL

\* No step of any client removes, rewrites or resurrects a live entry.
THEOREM Finality == Spec => LiveIsFinal
  <1> DEFINE Final(id) ==
        live[id] # Absent =>
          /\ live'[id] # Absent
          /\ live'[id].content = live[id].content
          /\ live'[id].writer = live[id].writer
          /\ live[id].trust = DEPRECATED => live'[id].trust = DEPRECATED
  <1>1. ASSUME IInv, [Next]_vars, NEW id \in EntryIds
        PROVE  Final(id)
    <2>1. CASE UNCHANGED live
      BY <2>1
    <2>2. CASE \E c \in Clients, batch \in Batches, role \in ProducerRoles :
                  Promote(c, batch, role)
      <3>1. PICK batch \in Batches :
                /\ \A x \in Named(batch) : live[x] = Absent
                /\ live' = Promoted(candidate, live, batch)
        BY <1>1, <2>2, PromoteAddsIds DEF Promote
      <3>2. CASE id \in Named(batch)
        BY <3>1, <3>2
      <3>3. CASE id \notin Named(batch)
        BY <3>1, <3>3 DEF Promoted
      <3>4. QED
        BY <3>2, <3>3
    <2>3. CASE \E x \in EntryIds, reason \in Reasons : DeprecateLive(x, reason)
      <3>1. PICK x \in EntryIds, reason \in Reasons : DeprecateLive(x, reason)
        BY <2>3
      <3>2. CASE id = x
        <4>1. live'[id] = [content |-> live[id].content, trust |-> DEPRECATED,
                           writer |-> live[id].writer, reason |-> reason]
          BY <1>1, <3>1, <3>2 DEF DeprecateLive, Deprecated, IInv, TypeOK, Dict
        <4>2. live'[id] # Absent
          BY <1>1, DeprecateIInv, <3>1, <3>2, <4>1, AbsentIsNoEntry DEF IInv, TypeOK, Dict,
             Entry, TrustLevels, DEPRECATED, PROMOTED, DeprecateLive
        <4>3. QED
          BY <4>1, <4>2
      <3>3. CASE id # x
        BY <1>1, <3>1, <3>3 DEF DeprecateLive, Deprecated, IInv, TypeOK, Dict
      <3>4. QED
        BY <3>2, <3>3
    <2>4. QED
      BY <1>1, <2>1, <2>2, <2>3 DEF Next, vars, WriteCandidates, MarkVerified, Sign,
                                    PromoteRejected, DiscardCandidate
  <1>2. IInv /\ [Next]_vars => [\A id \in EntryIds : Final(id)]_vars
    BY <1>1
  <1>3. QED
    BY <1>2, Invariance, PTL DEF Spec, LiveIsFinal

=============================================================================
