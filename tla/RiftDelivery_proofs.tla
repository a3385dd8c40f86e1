-------------------------- MODULE RiftDelivery_proofs --------------------------
(***************************************************************************)
(* Proofs about Rift delivery: an event is acted on once, an outbox row is *)
(* acknowledged only after publication, and publication respects the order *)
(* of transactions, for any number of events, queue sizes and crashes.     *)
(***************************************************************************)
EXTENDS RiftDelivery, FiniteSetTheorems, SequenceTheorems, TLAPS

\* What the ledger and the guards in memory tell about past effects.
AdmissionOK ==
  \A e \in Events :
    /\ ledger[e] = "absent" => guards[e] = "none" /\ acts[e] = 0
    /\ guards[e] = "admitted" => acts[e] = 0
    /\ guards[e] # "none" => ledger[e] = "processing"
    /\ acts[e] <= 1

\* A row exists once its transaction committed, and the dispatcher's row is pending.
RowsOK ==
  /\ \A e \in Events : writer[e] = "committed" <=> outbox[e] # "absent"
  /\ \A e \in Events : writer[e] # "idle" => e \in Range(began)
  /\ dispatch.step # "idle" => outbox[dispatch.event] = "pending"
  /\ dispatch.step = "published" => dispatch.event \in Range(published)
  /\ Range(published) \subseteq Range(began)

\* Messages committed before a transaction began are older rows.
PrecededOK ==
  \A e \in Events : \A d \in preceded[e] :
    /\ outbox[d] # "absent"
    /\ e \in Range(began) /\ Before(d, e)

\* Before the dispatcher publishes a row, everything older was published.
ClaimOK ==
  dispatch.step # "idle" => preceded[dispatch.event] \subseteq Range(published)

---------------------------------------------------------------------------
(* Sequences *)

LEMMA RangeAppend ==
  ASSUME NEW S, NEW s \in Seq(S), NEW e \in S
  PROVE  Range(Append(s, e)) = Range(s) \cup {e}
<1>1. DOMAIN Append(s, e) = 1..(Len(s) + 1) /\ DOMAIN s = 1..Len(s) /\ Len(s) \in Nat
  OBVIOUS
<1>2. \A i \in 1..Len(s) : Append(s, e)[i] = s[i]
  OBVIOUS
<1>3. Append(s, e)[Len(s) + 1] = e
  OBVIOUS
<1>4. ASSUME NEW x PROVE x \in Range(Append(s, e)) <=> x \in Range(s) \cup {e}
  BY <1>1, <1>2, <1>3 DEF Range
<1> QED BY <1>4

LEMMA RangeIndex ==
  ASSUME NEW S, NEW s \in Seq(S), NEW e
  PROVE  e \in Range(s) <=> \E i \in 1..Len(s) : s[i] = e
BY DEF Range

\* The order of transactions is only extended.
LEMMA BeforeAppend ==
  ASSUME began \in Seq(Events), NEW d \in Events, NEW e \in Events, NEW n \in Events,
         began' = Append(began, n)
  PROVE  /\ Before(d, e) => Before(d, e)'
         /\ d \in Range(began) /\ e = n => Before(d, e)'
<1>1. Len(began') = Len(began) + 1 /\ Len(began) \in Nat
      /\ \A i \in 1..Len(began) : began'[i] = began[i]
  OBVIOUS
<1>2. began'[Len(began) + 1] = n
  OBVIOUS
<1>3. Before(d, e) => Before(d, e)'
  BY <1>1 DEF Before
<1>4. d \in Range(began) /\ e = n => Before(d, e)'
  <2> SUFFICES ASSUME d \in Range(began), e = n PROVE Before(d, e)'
    OBVIOUS
  <2>1. PICK i \in 1..Len(began) : began[i] = d
    BY RangeIndex
  <2>2. i < Len(began) + 1 /\ i \in 1..Len(began') /\ Len(began) + 1 \in 1..Len(began')
    BY <1>1
  <2> QED BY <1>1, <1>2, <2>1, <2>2 DEF Before
<1> QED BY <1>3, <1>4

---------------------------------------------------------------------------
(* Types *)

LEMMA TypeInit == DeliveryInit => DeliveryTypeOK
BY DeliveryConstants DEF DeliveryInit, DeliveryTypeOK, Idle

LEMMA TypeStep == DeliveryTypeOK /\ [DeliveryNext]_vars => DeliveryTypeOK'
<1> SUFFICES ASSUME DeliveryTypeOK, [DeliveryNext]_vars PROVE DeliveryTypeOK'
  OBVIOUS
<1> USE DeliveryConstants DEF DeliveryTypeOK, serverVars, linkVars, ledgerVars, roomVars
<1>1. CASE \E e \in Events : BeginPost(e)
  BY <1>1 DEF BeginPost
<1>2. CASE \E e \in Events : CommitPost(e)
  BY <1>2 DEF CommitPost
<1>3. CASE \E e \in Events : Claim(e)
  BY <1>3 DEF Claim
<1>4. CASE Publish
  <2>1. dispatch.event \in Events
    BY <1>4 DEF Publish
  <2>2. \A n \in 0..Len(wire) + 1 : SubSeq(Append(wire, dispatch.event), 1, n) \in Seq(Events)
    <3>1. Append(wire, dispatch.event) \in Seq(Events) /\ Len(Append(wire, dispatch.event)) = Len(wire) + 1
      BY <2>1
    <3> SUFFICES ASSUME NEW n \in 0..Len(wire) + 1
                 PROVE  SubSeq(Append(wire, dispatch.event), 1, n) \in Seq(Events)
      OBVIOUS
    <3> DEFINE w == Append(wire, dispatch.event)
    <3>2. \A i \in 1..n : w[i] \in Events
      BY <3>1
    <3> HIDE DEF w
    <3> QED BY <3>2, <3>1 DEF w
  <2>3. wire' \in Seq(Events) /\ link' \in {"none", "live", "deaf"}
    <3>1. Append(wire, dispatch.event) \in Seq(Events)
      BY <2>1
    <3>2. Deliver(dispatch.event)
      BY <1>4 DEF Publish
    <3>3. CASE wire' = Append(wire, dispatch.event) /\ link' = link
      BY <3>1, <3>3
    <3>4. CASE \E n \in 0..Len(wire) + 1 : wire' = SubSeq(Append(wire, dispatch.event), 1, n)
      <4>1. PICK n \in 0..Len(wire) + 1 : wire' = SubSeq(Append(wire, dispatch.event), 1, n)
        BY <3>4
      <4>2. wire' \in Seq(Events)
        BY <4>1, <2>2, Zenon
      <4> QED BY <3>2, <4>2 DEF Deliver, AfterDrop
    <3>5. CASE UNCHANGED <<wire, link>>
      BY <3>5
    <3> QED BY <3>2, <3>3, <3>4, <3>5, Zenon DEF Deliver
  <2>4. dispatch' \in [event : Events, step : {"published"}]
    BY <1>4, <2>1 DEF Publish
  <2>5. published' \in Seq(Events) /\ since' \in Seq(Events)
    BY <1>4, <2>1 DEF Publish
  <2> QED BY <1>4, <2>3, <2>4, <2>5 DEF Publish
<1>5. CASE Acknowledge
  BY <1>5 DEF Acknowledge, Idle
<1>6. CASE \E e \in Events : Cleanup(e)
  BY <1>6 DEF Cleanup
<1>7. CASE ServerCrash
  BY <1>7 DEF ServerCrash, Idle
<1>8. CASE Connect
  BY <1>8 DEF Connect
<1>9. CASE Disconnect
  BY <1>9 DEF Disconnect
<1>10. CASE Forward
  BY <1>10 DEF Forward
<1>11. CASE AdmitFresh
  BY <1>11 DEF AdmitFresh
<1>12. CASE AdmitDuplicate
  BY <1>12 DEF AdmitDuplicate
<1>13. CASE AdmitFull
  BY <1>13 DEF AdmitFull, BridgeStops
<1>14. CASE \E e \in Events : Act(e)
  BY <1>14 DEF Act
<1>15. CASE \E e \in Events : Complete(e)
  BY <1>15 DEF Complete
<1>16. CASE CompleteAll
  BY <1>16 DEF CompleteAll
<1>17. CASE CascadeFails
  BY <1>17 DEF CascadeFails
<1>18. CASE BridgeCrash
  BY <1>18 DEF BridgeCrash, BridgeStops
<1>19. CASE BridgeStart
  BY <1>19 DEF BridgeStart
<1>20. CASE UNCHANGED vars
  BY <1>20 DEF vars
<1> QED
  BY <1>1, <1>2, <1>3, <1>4, <1>5, <1>6, <1>7, <1>8, <1>9, <1>10, <1>11, <1>12, <1>13,
     <1>14, <1>15, <1>16, <1>17, <1>18, <1>19, <1>20 DEF DeliveryNext

---------------------------------------------------------------------------
(* The ledger *)

LEMMA AdmissionStep ==
  DeliveryTypeOK /\ AdmissionOK /\ [DeliveryNext]_vars => AdmissionOK'
<1> SUFFICES ASSUME DeliveryTypeOK, AdmissionOK, [DeliveryNext]_vars PROVE AdmissionOK'
  OBVIOUS
<1> USE DEF DeliveryTypeOK, AdmissionOK
<1>1. CASE AdmitFresh
  <2>1. Head(inbox) \in Events
    BY <1>1 DEF AdmitFresh
  <2> QED BY <1>1, <2>1 DEF AdmitFresh, Known
<1>2. CASE AdmitFull
  BY <1>2 DEF AdmitFull, BridgeStops, ledgerVars
<1>3. CASE \E e \in Events : Act(e)
  BY <1>3 DEF Act, ledgerVars
<1>4. CASE \E e \in Events : Complete(e)
  BY <1>4 DEF Complete
<1>5. CASE CompleteAll
  BY <1>5 DEF CompleteAll
<1>6. CASE CascadeFails
  BY <1>6 DEF CascadeFails, ledgerVars
<1>7. CASE BridgeCrash
  BY <1>7 DEF BridgeCrash, BridgeStops, ledgerVars
<1>8. CASE UNCHANGED <<ledger, guards, acts>>
  BY <1>8
<1> QED
  BY <1>1, <1>2, <1>3, <1>4, <1>5, <1>6, <1>7, <1>8
  DEF DeliveryNext, vars, ledgerVars, roomVars, BeginPost, CommitPost, Claim, Publish,
      Acknowledge, Cleanup, ServerCrash, Connect, Disconnect, Forward, AdmitDuplicate,
      BridgeStart

LEMMA ClaimsStep ==
  DeliveryTypeOK /\ AdmissionOK /\ [DeliveryNext]_vars =>
    \A e \in Events :
       /\ ledger[e] = "completed" => ledger'[e] = "completed"
       /\ ledger[e] = "processing" => ledger'[e] # "absent"
<1> SUFFICES ASSUME DeliveryTypeOK, AdmissionOK, [DeliveryNext]_vars, NEW e \in Events
             PROVE  /\ ledger[e] = "completed" => ledger'[e] = "completed"
                    /\ ledger[e] = "processing" => ledger'[e] # "absent"
  OBVIOUS
<1> USE DEF DeliveryTypeOK, AdmissionOK
<1>1. CASE AdmitFresh
  BY <1>1 DEF AdmitFresh, Known
<1>2. CASE \E d \in Events : Complete(d)
  BY <1>2 DEF Complete
<1>3. CASE CompleteAll
  BY <1>3 DEF CompleteAll
<1>4. CASE UNCHANGED ledger
  BY <1>4
<1> QED
  BY <1>1, <1>2, <1>3, <1>4
  DEF DeliveryNext, vars, ledgerVars, roomVars, BeginPost, CommitPost, Claim, Publish,
      Acknowledge, Cleanup, ServerCrash, Connect, Disconnect, Forward, AdmitDuplicate,
      AdmitFull, Act, CascadeFails, BridgeCrash, BridgeStart

LEMMA LedgerStep ==
  DeliveryTypeOK /\ AdmissionOK /\ LedgerOpens /\ [DeliveryNext]_vars => LedgerOpens'
<1> SUFFICES ASSUME DeliveryTypeOK, AdmissionOK, LedgerOpens, [DeliveryNext]_vars
             PROVE  LedgerOpens'
  OBVIOUS
<1> DEFINE Rows == {e \in Events : ledger[e] # "absent"}
<1>0. IsFiniteSet(Rows)
  BY DeliveryConstants, FS_Subset
<1>1. CASE AdmitFresh
  <2>1. Head(inbox) \in Events /\ Head(inbox) \notin Rows
    BY <1>1 DEF AdmitFresh, Known, DeliveryTypeOK
  <2>2. Rows' = Rows \cup {Head(inbox)}
    BY <1>1, <2>1 DEF AdmitFresh, DeliveryTypeOK
  <2>3. Cardinality(Rows \cup {Head(inbox)}) = Cardinality(Rows) + 1
    BY <1>0, <2>1, FS_AddElement
  <2> QED BY <1>1, <2>2, <2>3 DEF AdmitFresh, LedgerOpens
<1>2. CASE \E d \in Events : Complete(d)
  <2>1. Rows' = Rows /\ retained' = retained
    BY <1>2 DEF Complete, DeliveryTypeOK, AdmissionOK
  <2> QED BY <2>1 DEF LedgerOpens
<1>3. CASE CompleteAll
  <2>1. Rows' = Rows /\ retained' = retained
    BY <1>3 DEF CompleteAll, DeliveryTypeOK, AdmissionOK
  <2> QED BY <2>1 DEF LedgerOpens
<1>4. CASE UNCHANGED <<ledger, retained>>
  BY <1>4 DEF LedgerOpens
<1> QED
  BY <1>1, <1>2, <1>3, <1>4
  DEF DeliveryNext, vars, ledgerVars, roomVars, BeginPost, CommitPost, Claim, Publish,
      Acknowledge, Cleanup, ServerCrash, Connect, Disconnect, Forward, AdmitDuplicate,
      AdmitFull, Act, CascadeFails, BridgeCrash, BridgeStart

---------------------------------------------------------------------------
(* The outbox *)

OutboxInv == RowsOK /\ PrecededOK /\ ClaimOK /\ DeliveredWasPublished /\ PublishedInOrder

\* Publication keeps what was published, in place.
LEMMA PublishGrows ==
  ASSUME DeliveryTypeOK, Publish
  PROVE  /\ dispatch.event \in Events
         /\ Range(published') = Range(published) \cup {dispatch.event}
         /\ Len(published') = Len(published) + 1 /\ Len(published) \in Nat
         /\ \A i \in 1..Len(published) : published'[i] = published[i]
         /\ published'[Len(published) + 1] = dispatch.event
<1>1. dispatch.event \in Events /\ published \in Seq(Events) /\ published' = Append(published, dispatch.event)
  BY DEF DeliveryTypeOK, Publish
<1> QED BY <1>1, RangeAppend

LEMMA PublishOrder ==
  ASSUME DeliveryTypeOK, OutboxInv, Publish
  PROVE  PublishedInOrder'
<1> USE DEF OutboxInv
<1>1. preceded' = preceded
  BY DEF Publish
<1>2. SUFFICES ASSUME NEW i \in 1..(Len(published) + 1), NEW d \in preceded[published'[i]]
               PROVE  \E j \in 1..(i - 1) : published'[j] = d
  BY <1>1, PublishGrows DEF PublishedInOrder
<1>3. CASE i <= Len(published)
  <2>1. i \in 1..Len(published) /\ d \in preceded[published[i]]
    BY <1>3, PublishGrows
  <2>2. PICK j \in 1..(i - 1) : published[j] = d
    BY <2>1 DEF PublishedInOrder
  <2>3. j \in 1..Len(published)
    BY <2>1, <2>2, PublishGrows
  <2> QED BY <2>2, <2>3, PublishGrows
<1>4. CASE i = Len(published) + 1
  <2>1. d \in preceded[dispatch.event]
    BY <1>4, PublishGrows
  <2>2. d \in Range(published)
    BY <2>1 DEF ClaimOK, Publish
  <2>3. PICK j \in 1..Len(published) : published[j] = d
    BY <2>2, RangeIndex DEF DeliveryTypeOK
  <2>4. j \in 1..(i - 1)
    BY <1>4, PublishGrows
  <2> QED BY <2>3, <2>4, PublishGrows
<1> QED BY <1>3, <1>4, PublishGrows

LEMMA PublishStep ==
  ASSUME DeliveryTypeOK, OutboxInv, Publish
  PROVE  OutboxInv'
<1> USE DEF OutboxInv
<1>1. /\ UNCHANGED <<writer, began, preceded, outbox>>
      /\ dispatch.step = "claimed"
      /\ dispatch'.event = dispatch.event /\ dispatch'.step = "published"
  BY DEF Publish, DeliveryTypeOK
<1>2. RowsOK'
  <2>1. writer[dispatch.event] = "committed"
    BY <1>1, PublishGrows DEF RowsOK
  <2>2. dispatch.event \in Range(began)
    BY <2>1, PublishGrows DEF RowsOK
  <2> QED BY <1>1, <2>2, PublishGrows DEF RowsOK
<1>3. PrecededOK'
  BY <1>1 DEF PrecededOK, Before
<1>4. ClaimOK'
  BY <1>1, PublishGrows DEF ClaimOK
<1>5. DeliveredWasPublished'
  BY <1>1, PublishGrows DEF DeliveredWasPublished
<1> QED BY <1>2, <1>3, <1>4, <1>5, PublishOrder

LEMMA BeginStep ==
  ASSUME DeliveryTypeOK, OutboxInv, NEW n \in Events, BeginPost(n)
  PROVE  OutboxInv'
<1> USE DEF OutboxInv
<1>1. /\ UNCHANGED <<outbox, dispatch, published>>
      /\ n \notin Range(began) /\ writer[n] = "idle"
      /\ began \in Seq(Events) /\ began' = Append(began, n)
      /\ writer' = [writer EXCEPT ![n] = "open"]
      /\ preceded' = [preceded EXCEPT ![n] = {d \in Events : writer[d] = "committed"}]
  BY DEF BeginPost, DeliveryTypeOK
<1>2. Range(began') = Range(began) \cup {n}
  BY <1>1, RangeAppend
<1>3. RowsOK'
  BY <1>1, <1>2 DEF RowsOK, DeliveryTypeOK
<1>4. PrecededOK'
  <2> SUFFICES ASSUME NEW e \in Events, NEW d \in preceded'[e]
               PROVE  outbox[d] # "absent" /\ e \in Range(began') /\ Before(d, e)'
    BY <1>1 DEF PrecededOK
  <2>1. CASE e = n
    <3>1. d \in Events /\ writer[d] = "committed"
      BY <1>1, <2>1 DEF DeliveryTypeOK
    <3>2. outbox[d] # "absent" /\ d \in Range(began)
      BY <3>1 DEF RowsOK
    <3>3. Before(d, e)'
      BY <1>1, <2>1, <3>1, <3>2, BeforeAppend
    <3> QED BY <1>2, <2>1, <3>2, <3>3
  <2>2. CASE e # n
    <3>1. d \in preceded[e] /\ d \in Events
      BY <1>1, <2>2 DEF DeliveryTypeOK
    <3>2. outbox[d] # "absent" /\ e \in Range(began) /\ Before(d, e)
      BY <3>1 DEF PrecededOK
    <3>3. Before(d, e)'
      BY <1>1, <3>1, <3>2, BeforeAppend
    <3> QED BY <1>2, <3>2, <3>3
  <2> QED BY <2>1, <2>2
<1>5. \A e \in Range(began) : preceded'[e] = preceded[e]
  BY <1>1 DEF DeliveryTypeOK
<1>6. ClaimOK'
  <2>1. dispatch.step # "idle" => dispatch.event \in Range(began)
    BY DEF RowsOK, DeliveryTypeOK
  <2> QED BY <1>1, <1>5, <2>1 DEF ClaimOK
<1>7. DeliveredWasPublished'
  BY <1>1 DEF DeliveredWasPublished
<1>8. PublishedInOrder'
  <2>1. \A i \in 1..Len(published) : published[i] \in Range(began)
    BY RangeIndex DEF RowsOK, DeliveryTypeOK
  <2>2. published' = published
    BY <1>1
  <2> SUFFICES ASSUME NEW i \in 1..Len(published), NEW d \in preceded'[published[i]]
               PROVE  \E j \in 1..(i - 1) : published[j] = d
    BY <2>2 DEF PublishedInOrder
  <2>3. d \in preceded[published[i]]
    BY <1>5, <2>1
  <2> QED BY <2>3 DEF PublishedInOrder
<1> QED BY <1>3, <1>4, <1>6, <1>7, <1>8

LEMMA ClaimStep ==
  ASSUME DeliveryTypeOK, OutboxInv, NEW n \in Events, Claim(n)
  PROVE  OutboxInv'
<1> USE DEF OutboxInv
<1>1. /\ UNCHANGED <<writer, began, preceded, outbox, published>>
      /\ outbox[n] = "pending" /\ dispatch' = [event |-> n, step |-> "claimed"]
      /\ \A d \in Events : outbox[d] = "pending" => ~Before(d, n)
  BY DEF Claim, IsOldestPending
<1>2. preceded[n] \subseteq Range(published)
  <2> SUFFICES ASSUME NEW d \in preceded[n] PROVE d \in Range(published)
    OBVIOUS
  <2>1. d \in Events /\ outbox[d] # "absent" /\ outbox[d] # "pending"
    BY <1>1 DEF PrecededOK, DeliveryTypeOK
  <2> QED BY <2>1 DEF DeliveredWasPublished, DeliveryTypeOK
<1>3. RowsOK'
  BY <1>1 DEF RowsOK
<1>4. PrecededOK'
  BY <1>1 DEF PrecededOK, Before
<1>5. ClaimOK' /\ DeliveredWasPublished' /\ PublishedInOrder'
  BY <1>1, <1>2 DEF ClaimOK, DeliveredWasPublished, PublishedInOrder
<1> QED BY <1>3, <1>4, <1>5

\* Steps that publish nothing and begin nothing.
LEMMA RowStep ==
  ASSUME DeliveryTypeOK, OutboxInv, UNCHANGED <<began, preceded, published>>,
         RowsOK', ClaimOK', DeliveredWasPublished',
         \A e \in Events : outbox[e] # "absent" => outbox'[e] # "absent"
  PROVE  OutboxInv'
<1>1. PrecededOK'
  BY DEF OutboxInv, PrecededOK, Before, DeliveryTypeOK
<1>2. PublishedInOrder'
  BY DEF OutboxInv, PublishedInOrder
<1> QED BY <1>1, <1>2 DEF OutboxInv

LEMMA OutboxStep == DeliveryTypeOK /\ OutboxInv /\ [DeliveryNext]_vars => OutboxInv'
<1> SUFFICES ASSUME DeliveryTypeOK, OutboxInv, [DeliveryNext]_vars PROVE OutboxInv'
  OBVIOUS
<1>1. CASE \E e \in Events : BeginPost(e)
  BY <1>1, BeginStep
<1>2. CASE \E e \in Events : CommitPost(e)
  <2>1. PICK n \in Events : CommitPost(n)
    BY <1>2
  <2>2. RowsOK' /\ ClaimOK' /\ DeliveredWasPublished'
    BY <2>1 DEF CommitPost, RowsOK, ClaimOK, DeliveredWasPublished, OutboxInv, DeliveryTypeOK
  <2> QED BY <2>1, <2>2, RowStep DEF CommitPost, DeliveryTypeOK
<1>3. CASE \E e \in Events : Claim(e)
  BY <1>3, ClaimStep
<1>4. CASE Publish
  BY <1>4, PublishStep
<1>5. CASE Acknowledge
  <2>1. RowsOK' /\ ClaimOK' /\ DeliveredWasPublished'
    BY <1>5 DEF Acknowledge, Idle, RowsOK, ClaimOK, DeliveredWasPublished, OutboxInv, DeliveryTypeOK
  <2> QED BY <1>5, <2>1, RowStep DEF Acknowledge, DeliveryTypeOK
<1>6. CASE \E e \in Events : Cleanup(e)
  <2>1. PICK n \in Events : Cleanup(n)
    BY <1>6
  <2>2. RowsOK' /\ ClaimOK' /\ DeliveredWasPublished'
    BY <2>1 DEF Cleanup, RowsOK, ClaimOK, DeliveredWasPublished, OutboxInv, DeliveryTypeOK
  <2> QED BY <2>1, <2>2, RowStep DEF Cleanup, DeliveryTypeOK
<1>7. CASE ServerCrash
  <2>1. RowsOK' /\ ClaimOK' /\ DeliveredWasPublished'
    BY <1>7 DEF ServerCrash, Idle, RowsOK, ClaimOK, DeliveredWasPublished, OutboxInv, DeliveryTypeOK
  <2> QED BY <1>7, <2>1, RowStep DEF ServerCrash
<1>8. CASE UNCHANGED serverVars
  <2>1. RowsOK' /\ ClaimOK' /\ DeliveredWasPublished'
    BY <1>8 DEF serverVars, RowsOK, ClaimOK, DeliveredWasPublished, OutboxInv
  <2> QED BY <1>8, <2>1, RowStep DEF serverVars
<1> QED
  BY <1>1, <1>2, <1>3, <1>4, <1>5, <1>6, <1>7, <1>8
  DEF DeliveryNext, vars, serverVars, Connect, Disconnect, Forward, AdmitFresh, AdmitDuplicate,
      AdmitFull, BridgeStops, Act, Complete, CompleteAll, CascadeFails, BridgeCrash, BridgeStart

---------------------------------------------------------------------------
LEMMA InvInit == DeliveryInit => DeliveryTypeOK /\ AdmissionOK /\ OutboxInv /\ LedgerOpens
<1> SUFFICES ASSUME DeliveryInit PROVE DeliveryTypeOK /\ AdmissionOK /\ OutboxInv /\ LedgerOpens
  OBVIOUS
<1>1. AdmissionOK
  BY DEF DeliveryInit, AdmissionOK
<1>2. OutboxInv
  BY DEF DeliveryInit, OutboxInv, RowsOK, PrecededOK, ClaimOK, DeliveredWasPublished,
         PublishedInOrder, Idle, Range
<1>3. LedgerOpens
  <2>1. {e \in Events : ledger[e] # "absent"} = {}
    BY DEF DeliveryInit
  <2> QED BY <2>1, FS_EmptySet DEF DeliveryInit, LedgerOpens
<1> QED BY <1>1, <1>2, <1>3, TypeInit

LEMMA InvStep ==
  DeliveryTypeOK /\ AdmissionOK /\ OutboxInv /\ LedgerOpens /\ [DeliveryNext]_vars
    => (DeliveryTypeOK /\ AdmissionOK /\ OutboxInv /\ LedgerOpens)'
BY TypeStep, AdmissionStep, OutboxStep, LedgerStep

LEMMA Invariance == DeliverySpec => [](DeliveryTypeOK /\ AdmissionOK /\ OutboxInv /\ LedgerOpens)
BY InvInit, InvStep, PTL DEF DeliverySpec

\* The room acts on an event at most once, whatever is redelivered and whenever
\* server and bridge stop (event_dedupe.rs).
THEOREM ActedOnceTheorem == DeliverySpec => []ActedOnce
<1>1. AdmissionOK => ActedOnce
  BY DEF AdmissionOK, ActedOnce
<1> QED BY <1>1, Invariance, PTL

\* An outbox row is acknowledged only after its event was published (outbox.rs).
THEOREM DeliveredTheorem == DeliverySpec => []DeliveredWasPublished
<1>1. OutboxInv => DeliveredWasPublished
  BY DEF OutboxInv
<1> QED BY <1>1, Invariance, PTL

\* A message is published after every message committed before it began (outbox.rs).
THEOREM OrderTheorem == DeliverySpec => []PublishedInOrder
<1>1. OutboxInv => PublishedInOrder
  BY DEF OutboxInv
<1> QED BY <1>1, Invariance, PTL

\* The ledger's counter always equals its rows, so it can be reopened (event_dedupe.rs).
THEOREM ReopenTheorem == DeliverySpec => []LedgerReopens
<1>1. LedgerOpens => LedgerReopens
  BY DEF LedgerReopens
<1> QED BY <1>1, Invariance, PTL

\* Claims are never lost or reopened (event_dedupe.rs).
THEOREM ClaimsTheorem == DeliverySpec => ClaimsMonotone
<1>1. DeliveryTypeOK /\ AdmissionOK /\ [DeliveryNext]_vars =>
        [\A e \in Events :
           /\ ledger[e] = "completed" => ledger'[e] = "completed"
           /\ ledger[e] = "processing" => ledger'[e] # "absent"]_vars
  BY ClaimsStep
<1> QED BY <1>1, Invariance, PTL DEF DeliverySpec, ClaimsMonotone

---------------------------------------------------------------------------
(* The connection *)

\* What the bridge has not yet heard continues what it has heard; a forwarder
\* that still listens has lost nothing, and a new connection starts from nothing.
StreamOK ==
  /\ heard + Len(wire) <= Len(since)
  /\ \A i \in 1..Len(wire) : wire[i] = since[heard + i]
  /\ link = "live" => heard + Len(wire) = Len(since)
  /\ link = "none" => since = <<>> /\ wire = <<>> /\ heard = 0

\* A publication extends what was published; the queue keeps a prefix of its
\* extension, and the whole of it while the forwarder listens.
LEMMA PublishStream ==
  ASSUME DeliveryTypeOK, StreamOK, Publish
  PROVE  StreamOK'
<1>1. /\ heard' = heard /\ heard \in Nat /\ dispatch.event \in Events
      /\ link \in {"none", "live", "deaf"}
      /\ wire \in Seq(Events) /\ since \in Seq(Events) /\ Len(wire) \in Nat /\ Len(since) \in Nat
  BY DEF Publish, DeliveryTypeOK
<1>4. /\ heard + Len(wire) <= Len(since)
      /\ \A i \in 1..Len(wire) : wire[i] = since[heard + i]
  BY DEF StreamOK
<1>2. CASE link = "none"
  BY <1>1, <1>2 DEF Publish, Deliver, StreamOK
<1>3. CASE link # "none"
  <2> DEFINE queue == Append(wire, dispatch.event)
  <2>1. since' = Append(since, dispatch.event)
    BY <1>3 DEF Publish
  <2>2. /\ Len(since') = Len(since) + 1 /\ Len(since) \in Nat
        /\ \A i \in 1..Len(since) : since'[i] = since[i]
        /\ since'[Len(since) + 1] = dispatch.event
    BY <1>1, <2>1
  <2>3. /\ queue \in Seq(Events) /\ Len(queue) = Len(wire) + 1 /\ Len(wire) \in Nat
        /\ \A i \in 1..Len(wire) : queue[i] = wire[i]
        /\ queue[Len(wire) + 1] = dispatch.event
    BY <1>1
  <2>4. CASE link = "deaf"
    <3>1. wire' = wire /\ link' = "deaf"
      BY <2>4 DEF Publish, Deliver
    <3>2. \A i \in 1..Len(wire) : wire[i] = since'[heard + i]
      <4> SUFFICES ASSUME NEW i \in 1..Len(wire) PROVE wire[i] = since'[heard + i]
        OBVIOUS
      <4>1. heard + i \in 1..Len(since)
        BY <1>1, <1>4
      <4> QED BY <1>4, <2>2, <4>1
    <3>3. heard + Len(wire) <= Len(since')
      BY <1>1, <1>4, <2>2
    <3> QED BY <1>1, <3>1, <3>2, <3>3 DEF StreamOK
  <2>5. CASE link = "live"
    <3> HIDE DEF queue
    <3>5. heard + Len(wire) = Len(since)
      BY <2>5 DEF StreamOK
    <3>1. \A i \in 1..Len(queue) : queue[i] = since'[heard + i]
      <4> SUFFICES ASSUME NEW i \in 1..Len(queue) PROVE queue[i] = since'[heard + i]
        OBVIOUS
      <4>1. CASE i <= Len(wire)
        <5>1. i \in 1..Len(wire) /\ heard + i \in 1..Len(since)
          BY <1>1, <1>4, <2>3, <4>1
        <5> QED BY <1>4, <2>2, <2>3, <5>1
      <4>2. CASE i = Len(wire) + 1
        <5>1. heard + i = Len(since) + 1
          BY <1>1, <3>5, <4>2
        <5> QED BY <2>2, <2>3, <4>2, <5>1
      <4> QED BY <2>3, <4>1, <4>2
    <3>2. heard + Len(queue) = Len(since')
      BY <1>1, <2>2, <2>3, <3>5
    <3>3. CASE wire' = queue /\ link' = "live"
      BY <1>1, <3>1, <3>2, <3>3 DEF StreamOK
    <3>4. ASSUME NEW n \in 0..Len(queue), wire' = SubSeq(queue, 1, n), link' = "deaf"
          PROVE  StreamOK'
      <4>1. \A i \in 1..n : queue[i] \in Events
        BY <2>3, ElementOfSeq
      <4>2. Len(wire') = n /\ \A i \in 1..n : wire'[i] = queue[i]
        BY <2>3, <3>4, <4>1, SubSeqProperties
      <4>3. heard + Len(wire') <= Len(since') /\ \A i \in 1..n : i \in 1..Len(queue)
        BY <1>1, <2>3, <3>2, <3>4, <4>2
      <4> QED BY <1>1, <3>1, <3>4, <4>2, <4>3 DEF StreamOK
    <3> QED
      BY <2>3, <2>5, <3>3, <3>4 DEF Publish, Deliver, AfterDrop, queue
  <2> QED BY <1>1, <1>3, <2>4, <2>5
<1> QED BY <1>2, <1>3

\* The bridge hears the head of the queue.
LEMMA ForwardStream ==
  ASSUME DeliveryTypeOK, StreamOK, Forward
  PROVE  StreamOK'
<1>1. /\ wire \in Seq(Events) /\ wire # <<>> /\ heard \in Nat /\ Len(since) \in Nat
      /\ wire' = Tail(wire) /\ heard' = heard + 1 /\ UNCHANGED <<since, link>>
  BY DEF DeliveryTypeOK, Forward
<1>2. /\ Len(wire) \in Nat \ {0} /\ Len(wire') = Len(wire) - 1
      /\ \A i \in 1..Len(wire') : wire'[i] = wire[i + 1]
  BY <1>1
<1>3. \A i \in 1..Len(wire') : wire'[i] = since'[heard' + i]
  <2> SUFFICES ASSUME NEW i \in 1..Len(wire') PROVE wire'[i] = since'[heard' + i]
    OBVIOUS
  <2>1. i + 1 \in 1..Len(wire) /\ heard' + i = heard + (i + 1)
    BY <1>1, <1>2
  <2> QED BY <1>1, <1>2, <2>1 DEF StreamOK
<1>4. link # "none"
  BY <1>1 DEF StreamOK
<1> QED BY <1>1, <1>2, <1>3, <1>4 DEF StreamOK

LEMMA StreamStep == DeliveryTypeOK /\ StreamOK /\ [DeliveryNext]_vars => StreamOK'
<1> SUFFICES ASSUME DeliveryTypeOK, StreamOK, [DeliveryNext]_vars PROVE StreamOK'
  OBVIOUS
<1>1. CASE ServerCrash \/ Disconnect \/ AdmitFull \/ BridgeCrash
  BY <1>1 DEF ServerCrash, Disconnect, AdmitFull, BridgeCrash, BridgeStops, StreamOK
<1>2. CASE Connect
  BY <1>2 DEF Connect, StreamOK
<1>3. CASE UNCHANGED linkVars
  BY <1>3 DEF linkVars, StreamOK
<1> QED
  BY <1>1, <1>2, <1>3, PublishStream, ForwardStream
  DEF DeliveryNext, vars, linkVars, BeginPost, CommitPost, Claim, Acknowledge, Cleanup,
      AdmitFresh, AdmitDuplicate, Act, Complete, CompleteAll, CascadeFails, BridgeStart

\* Within one connection the bridge hears a gap-free prefix of what was published
\* since it subscribed, however the queue overflows or the socket breaks (gateway.rs).
THEOREM GapFreeTheorem == DeliverySpec => []GapFree
<1>1. DeliveryInit => StreamOK
  BY DEF DeliveryInit, StreamOK
<1>2. ASSUME DeliveryTypeOK, StreamOK PROVE GapFree
  <2> DEFINE span == SubSeq(since, heard + 1, heard + Len(wire))
  <2>1. heard \in Nat /\ Len(wire) \in Nat /\ wire \in Seq(Events) /\ since \in Seq(Events)
    BY <1>2 DEF DeliveryTypeOK
  <2>2. \A i \in (heard + 1)..(heard + Len(wire)) : since[i] \in Events
    BY <1>2, <2>1, ElementOfSeq DEF StreamOK
  <2>3. /\ span \in Seq(Events)
        /\ Len(span) = IF heard + 1 <= heard + Len(wire)
                       THEN (heard + Len(wire)) - (heard + 1) + 1 ELSE 0
        /\ \A i \in 1..((heard + Len(wire)) - (heard + 1) + 1) : span[i] = since[(heard + 1) + i - 1]
    BY <2>1, <2>2, SubSeqProperties
  <2> HIDE DEF span
  <2>4. Len(span) = Len(wire) /\ \A i \in 1..Len(wire) : span[i] = since[heard + i]
    BY <2>1, <2>3
  <2>5. wire = span
    BY <1>2, <2>1, <2>3, <2>4, SeqEqual DEF StreamOK
  <2> QED BY <1>2, <2>5 DEF StreamOK, GapFree, span
<1>3. DeliverySpec => []StreamOK
  BY <1>1, StreamStep, Invariance, PTL DEF DeliverySpec
<1> QED BY <1>2, <1>3, Invariance, PTL
=============================================================================
