---------------------------- MODULE Stores_proofs ----------------------------
(***************************************************************************)
(* Proofs about the approval table, for every supply of requests, actors   *)
(* and row identifiers, every lifetime and every clock lag below it, and   *)
(* about the audit store, for every set of requests, slots, actors and     *)
(* results and for logs of every length.                                   *)
(***************************************************************************)
EXTENDS ApprovalStore, AuditStore, TLAPS

-----------------------------------------------------------------------------
(* The approval table.                                                     *)

\* The expiry UPDATE keeps the table well formed: it expires overdue rows only.
LEMMA ExpireOverdueFacts ==
    ASSUME ApprovalInv, NEW t \in Nat, t <= now
    PROVE  LET table == ExpireOverdue(t) IN
           /\ table \in [DOMAIN approvals -> Approval]
           /\ DOMAIN table = DOMAIN approvals
           /\ \A i \in DOMAIN approvals :
                 /\ table[i].request = approvals[i].request
                 /\ table[i].created = approvals[i].created
                 /\ table[i].expires = approvals[i].expires
                 /\ table[i].actor = approvals[i].actor
                 /\ \/ table[i].status = approvals[i].status
                    \/ /\ table[i].status = "expired"
                       /\ approvals[i].expires <= t
                       /\ approvals[i].status \in {"pending", "approved"}
  BY ApprovalConstants, RequestConstants
  DEF ApprovalInv, ApprovalTypeOK, ExpireOverdue, IsOverdue, IsActive, Approval, ApprovalStatus

\* When create_or_get_pending finds nothing to return, every row of the request
\* has expired: a live row would be the latest one.
LEMMA NothingToAnswer ==
    ASSUME ApprovalInv, NEW t \in Nat, t <= now, NEW r \in Requests,
           Answers(ExpireOverdue(t), r) = {}
    PROVE  \A i \in DOMAIN approvals :
              approvals[i].request = r => ExpireOverdue(t)[i].status = "expired"
<1> DEFINE table == ExpireOverdue(t)
<1>1. /\ table \in [DOMAIN approvals -> Approval]
      /\ DOMAIN table = DOMAIN approvals
      /\ \A i \in DOMAIN approvals :
            /\ table[i].request = approvals[i].request
            /\ table[i].created = approvals[i].created
            /\ \/ table[i].status = approvals[i].status
               \/ table[i].status = "expired"
  BY ExpireOverdueFacts
<1>2. \A i \in DOMAIN table : ~ReusesLatest(table, r, i)
  BY DEF Answers
<1> HIDE DEF table
<1>3. SUFFICES ASSUME NEW i \in DOMAIN approvals, approvals[i].request = r,
                      table[i].status # "expired"
               PROVE  FALSE
  BY DEF table
<1>4. \A j \in DOMAIN approvals : approvals[j].request = r => NoOlder(table, i, j)
  <2> SUFFICES ASSUME NEW j \in DOMAIN approvals, approvals[j].request = r, j # i
               PROVE  table[i].created > table[j].created
    BY <1>1, <1>3, RequestConstants DEF NoOlder, NoApproval, ApprovalInv, ApprovalTypeOK, Approval
  <2>1. approvals[i].status # "expired"
    BY <1>1, <1>3
  <2>2. approvals[j].expires <= approvals[i].created + MaxLag
    BY <1>3, <2>1 DEF ApprovalInv, GenerationsOrdered
  <2>3. approvals[j].expires = approvals[j].created + ApprovalTtl
    BY DEF ApprovalInv, RowHistory
  <2>4. approvals[i].created \in Nat /\ approvals[j].created \in Nat
    BY DEF ApprovalInv, ApprovalTypeOK, Approval
  <2> QED
    BY <1>1, <2>2, <2>3, <2>4, ApprovalConstants
<1>5. ReusesLatest(table, r, i)
  BY <1>1, <1>3, <1>4 DEF ReusesLatest, IsLatest, RowsOf
<1> QED
  BY <1>1, <1>2, <1>5

\* The initial, empty table satisfies the invariant.
LEMMA ApprovalInit_Inv == ApprovalInit => ApprovalInv
  BY ApprovalConstants, RequestConstants
  DEF ApprovalInit, ApprovalInv, ApprovalTypeOK, RowHistory, GenerationsOrdered, NoRows

\* Every operation of the table preserves the invariant.
LEMMA ApprovalNext_Inv == ApprovalInv /\ [ApprovalNext]_approvalVars => ApprovalInv'
<1> SUFFICES ASSUME ApprovalInv, [ApprovalNext]_approvalVars
             PROVE  ApprovalInv'
  OBVIOUS
<1> USE ApprovalConstants, RequestConstants
<1>1. CASE UNCHANGED approvalVars
  BY <1>1 DEF approvalVars, ApprovalInv, ApprovalTypeOK, RowHistory, GenerationsOrdered
<1>2. CASE Tick
  BY <1>2 DEF Tick, ApprovalInv, ApprovalTypeOK, RowHistory, GenerationsOrdered, Approval
<1>3. ASSUME NEW t \in ClockReadings, Expire(t)
      PROVE  ApprovalInv'
  <2>1. t \in Nat /\ t <= now
    BY DEF ClockReadings, ApprovalInv, ApprovalTypeOK
  <2>2. ApprovalTypeOK'
    BY <1>3, <2>1, ExpireOverdueFacts DEF Expire, ApprovalInv, ApprovalTypeOK
  <2>3. RowHistory'
    BY <1>3, <2>1, ExpireOverdueFacts DEF Expire, ApprovalInv, ApprovalTypeOK, RowHistory, Approval
  <2>4. GenerationsOrdered'
    BY <1>3, <2>1, ExpireOverdueFacts DEF Expire, ApprovalInv, GenerationsOrdered
  <2> QED
    BY <2>2, <2>3, <2>4 DEF ApprovalInv
<1>4. ASSUME NEW t \in ClockReadings, NEW r \in Requests, NEW i \in ApprovalIds,
             CreateOrGetPending(r, t, i)
      PROVE  ApprovalInv'
  <2> DEFINE table == ExpireOverdue(t)
  <2>1. t \in Nat /\ t <= now /\ now <= t + MaxLag
    BY DEF ClockReadings, ApprovalInv, ApprovalTypeOK
  <2>2. CASE approvals' = table
    BY <1>4, <2>1, <2>2, ExpireOverdueFacts
    DEF CreateOrGetPending, ApprovalInv, ApprovalTypeOK, RowHistory, GenerationsOrdered, Approval
  <2>3. CASE /\ Answers(table, r) = {}
             /\ i \in ApprovalIds \ DOMAIN table
             /\ approvals' = WithRow(table, i, NewApproval(r, t))
    <3>1. /\ table \in [DOMAIN approvals -> Approval]
          /\ DOMAIN table = DOMAIN approvals
          /\ \A k \in DOMAIN approvals :
                /\ table[k].request = approvals[k].request
                /\ table[k].created = approvals[k].created
                /\ table[k].expires = approvals[k].expires
                /\ table[k].actor = approvals[k].actor
                /\ \/ table[k].status = approvals[k].status
                   \/ /\ table[k].status = "expired"
                      /\ approvals[k].expires <= t
                      /\ approvals[k].status \in {"pending", "approved"}
      BY <2>1, ExpireOverdueFacts
    <3>2. \A k \in DOMAIN approvals : approvals[k].request = r => table[k].status = "expired"
      BY <2>1, <2>3, NothingToAnswer
    <3>3. NewApproval(r, t) \in Approval
      BY <2>1 DEF NewApproval, Approval, ApprovalStatus
    <3> HIDE DEF table
    <3>4. /\ DOMAIN approvals' = DOMAIN approvals \union {i}
          /\ i \notin DOMAIN approvals
          /\ approvals'[i] = NewApproval(r, t)
          /\ \A k \in DOMAIN approvals : approvals'[k] = table[k]
          /\ approvals' \in [DOMAIN approvals' -> Approval]
      BY <2>3, <3>1, <3>3 DEF WithRow
    <3>5. now' = now
      BY <1>4 DEF CreateOrGetPending
    <3>6. ApprovalTypeOK'
      BY <3>4, <3>5 DEF ApprovalInv, ApprovalTypeOK
    <3>7. \A k \in DOMAIN approvals : table[k].status = "expired" => table[k].expires <= now
      BY <2>1, <3>1 DEF ApprovalInv, ApprovalTypeOK, RowHistory, Approval
    <3>8. RowHistory'
      BY <2>1, <3>1, <3>4, <3>5, <3>7 DEF ApprovalInv, RowHistory, NewApproval
    <3>9. GenerationsOrdered'
      <4> SUFFICES ASSUME NEW j \in DOMAIN approvals', NEW k \in DOMAIN approvals', j # k,
                          approvals'[j].request = approvals'[k].request
                   PROVE  \/ /\ approvals'[j].expires <= approvals'[k].created + MaxLag
                             /\ approvals'[j].status = "expired"
                          \/ /\ approvals'[k].expires <= approvals'[j].created + MaxLag
                             /\ approvals'[k].status = "expired"
        BY DEF GenerationsOrdered
      <4>1. CASE j # i /\ k # i
        BY <4>1, <3>1, <3>4 DEF ApprovalInv, GenerationsOrdered
      <4>2. ASSUME NEW o \in DOMAIN approvals, approvals[o].request = r
            PROVE  approvals'[o].expires <= approvals'[i].created + MaxLag /\ approvals'[o].status = "expired"
        BY <4>2, <2>1, <3>1, <3>2, <3>4, <3>7
        DEF NewApproval, ApprovalInv, ApprovalTypeOK, Approval
      <4>3. CASE j = i
        BY <4>2, <4>3, <3>1, <3>4 DEF NewApproval
      <4>4. CASE k = i
        BY <4>2, <4>4, <3>1, <3>4 DEF NewApproval
      <4> QED
        BY <4>1, <4>3, <4>4
    <3> QED
      BY <3>6, <3>8, <3>9 DEF ApprovalInv
  <2> QED
    BY <1>4, <2>2, <2>3 DEF CreateOrGetPending
<1>5. ASSUME NEW t \in ClockReadings, NEW i \in ApprovalIds, NEW r \in Requests,
             ConsumeApproved(i, r, t)
      PROVE  ApprovalInv'
  BY <1>5
  DEF ConsumeApproved, Consumable, ApprovalInv, ApprovalTypeOK, RowHistory, GenerationsOrdered,
      Approval, ApprovalStatus
<1>6. ASSUME NEW t \in ClockReadings, NEW i \in ApprovalIds, NEW r \in Requests,
             RefuseConsumption(i, r, t)
      PROVE  ApprovalInv'
  <2>1. t \in Nat /\ t <= now
    BY DEF ClockReadings, ApprovalInv, ApprovalTypeOK
  <2> QED
    BY <1>6, <2>1
    DEF RefuseConsumption, ApprovalInv, ApprovalTypeOK, RowHistory, GenerationsOrdered,
        Approval, ApprovalStatus
<1>7. ASSUME NEW t \in ClockReadings, NEW i \in ApprovalIds,
             NEW verdict \in {"approved", "denied"}, NEW actor \in Actors,
             Decide(i, verdict, actor, t)
      PROVE  ApprovalInv'
  <2>1. t \in Nat /\ t <= now
    BY DEF ClockReadings, ApprovalInv, ApprovalTypeOK
  <2> QED
    BY <1>7, <2>1
    DEF Decide, IsOverdue, IsActive, ApprovalInv, ApprovalTypeOK, RowHistory, GenerationsOrdered,
        Approval, ApprovalStatus
<1> QED
  BY <1>1, <1>2, <1>3, <1>4, <1>5, <1>6, <1>7 DEF ApprovalNext

-----------------------------------------------------------------------------

\* The invariant of the approval table holds in every reachable state.
THEOREM ApprovalInvariant == ApprovalSpec => []ApprovalInv
  BY ApprovalInit_Inv, ApprovalNext_Inv, PTL DEF ApprovalSpec

\* Rows of one request are successive generations, only the latest of them live.
THEOREM GenerationsTheorem == ApprovalSpec => []GenerationsOrdered
<1>1. ApprovalInv => GenerationsOrdered
  BY DEF ApprovalInv
<1> QED
  BY <1>1, ApprovalInvariant, PTL

\* A denied or consumed approval leaves no live approval for its request.
THEOREM DecisionIsFinalTheorem == ApprovalSpec => []DecisionIsFinal
<1>1. ApprovalInv => DecisionIsFinal
  BY DEF ApprovalInv, GenerationsOrdered, DecisionIsFinal
<1> QED
  BY <1>1, ApprovalInvariant, PTL

\* Every step of the table is a legal step of each row's lifecycle.
LEMMA LifecycleLemma == ApprovalInv /\ ApprovalInv' /\ [ApprovalNext]_approvalVars => LifecycleStep
<1> SUFFICES ASSUME ApprovalInv, ApprovalInv', [ApprovalNext]_approvalVars
             PROVE  LifecycleStep
  OBVIOUS
<1> USE ApprovalConstants, RequestConstants DEF LifecycleStep
<1>0. \A i \in DOMAIN approvals' :
         approvals'[i].status \in {"approved", "consumed"} => approvals'[i].actor # NoActor
  BY DEF ApprovalInv, RowHistory
<1>1. CASE UNCHANGED approvals
  BY <1>0, <1>1
<1>2. ASSUME NEW t \in ClockReadings, approvals' = ExpireOverdue(t)
      PROVE  LifecycleStep
  <2>1. t \in Nat /\ t <= now
    BY DEF ClockReadings, ApprovalInv, ApprovalTypeOK
  <2> QED
    BY <1>0, <1>2, <2>1, ExpireOverdueFacts
<1>3. ASSUME NEW t \in ClockReadings, NEW r \in Requests, NEW i \in ApprovalIds,
             i \notin DOMAIN ExpireOverdue(t),
             approvals' = WithRow(ExpireOverdue(t), i, NewApproval(r, t))
      PROVE  LifecycleStep
  <2>1. t \in Nat /\ t <= now
    BY DEF ClockReadings, ApprovalInv, ApprovalTypeOK
  <2>2. \A k \in DOMAIN approvals : k \in DOMAIN approvals' /\ approvals'[k] = ExpireOverdue(t)[k]
    BY <1>3, <2>1, ExpireOverdueFacts DEF WithRow
  <2> QED
    BY <1>0, <2>1, <2>2, ExpireOverdueFacts
<1>4. ASSUME NEW t \in ClockReadings, NEW i \in ApprovalIds, NEW r \in Requests,
             ConsumeApproved(i, r, t) \/ RefuseConsumption(i, r, t)
      PROVE  LifecycleStep
  BY <1>0, <1>4
  DEF ConsumeApproved, RefuseConsumption, Consumable, ApprovalInv, ApprovalTypeOK, Approval
<1>5. ASSUME NEW t \in ClockReadings, NEW i \in ApprovalIds,
             NEW verdict \in {"approved", "denied"}, NEW actor \in Actors,
             Decide(i, verdict, actor, t)
      PROVE  LifecycleStep
  BY <1>0, <1>5 DEF Decide, ApprovalInv, ApprovalTypeOK, Approval
<1> QED
  BY <1>1, <1>2, <1>3, <1>4, <1>5
  DEF ApprovalNext, approvalVars, Tick, Expire, CreateOrGetPending

\* Rows are never deleted, rebound or prolonged, and terminal statuses are final.
THEOREM LifecycleTheorem == ApprovalSpec => ApprovalLifecycle
<1>1. ApprovalInv /\ ApprovalInv' /\ [ApprovalNext]_approvalVars => [LifecycleStep]_approvalVars
  BY LifecycleLemma
<1> QED
  BY <1>1, ApprovalInvariant, PTL DEF ApprovalSpec, ApprovalLifecycle

\* A decision or a consumption by a caller with an old clock reading: the row was
\* alive at that reading, so its deadline is at most the reading's age behind.
LEMMA InTimeLemma == ApprovalInv /\ [ApprovalNext]_approvalVars => InTimeStep
<1> SUFFICES ASSUME ApprovalInv, [ApprovalNext]_approvalVars, NEW i \in DOMAIN approvals,
                    approvals'[i].status # approvals[i].status,
                    approvals'[i].status # "expired"
             PROVE  now < approvals[i].expires + MaxLag
  BY DEF InTimeStep
<1> USE ApprovalConstants
<1>1. /\ now \in Nat /\ approvals[i].expires \in Nat
      /\ \A t \in ClockReadings : t \in Nat /\ t <= now /\ now <= t + MaxLag
  BY DEF ApprovalInv, ApprovalTypeOK, Approval, ClockReadings
<1>2. CASE UNCHANGED approvals
  BY <1>2
<1>3. ASSUME NEW t \in ClockReadings,
             \/ approvals' = ExpireOverdue(t)
             \/ \E j \in ApprovalIds \ DOMAIN approvals : \E row :
                  approvals' = WithRow(ExpireOverdue(t), j, row)
      PROVE  FALSE
  <2>1. approvals'[i] = ExpireOverdue(t)[i]
    BY <1>3 DEF WithRow, ExpireOverdue
  <2> QED
    BY <2>1 DEF ExpireOverdue, ApprovalInv, ApprovalTypeOK, Approval
<1>4. ASSUME NEW j \in ApprovalIds, NEW verdict \in {"approved", "denied"}, NEW actor \in Actors,
             NEW t \in ClockReadings, Decide(j, verdict, actor, t)
      PROVE  now < approvals[i].expires + MaxLag
  <2>1. i = j
    BY <1>4 DEF Decide
  <2>2. ~IsOverdue(approvals[i], t) /\ approvals[i].status = "pending"
    BY <1>4, <2>1 DEF Decide, ApprovalInv, ApprovalTypeOK, Approval
  <2> QED
    BY <1>1, <2>2 DEF IsOverdue, IsActive
<1>5. ASSUME NEW j \in ApprovalIds, NEW r \in Requests, NEW t \in ClockReadings,
             ConsumeApproved(j, r, t)
      PROVE  now < approvals[i].expires + MaxLag
  <2>1. i = j
    BY <1>5 DEF ConsumeApproved
  <2> QED
    BY <1>1, <1>5, <2>1 DEF ConsumeApproved, Consumable
<1>6. ASSUME NEW j \in ApprovalIds, NEW r \in Requests, NEW t \in ClockReadings,
             RefuseConsumption(j, r, t)
      PROVE  FALSE
  BY <1>6 DEF RefuseConsumption, ApprovalInv, ApprovalTypeOK, Approval
<1>7. ASSUME NEW r \in Requests, NEW t \in ClockReadings, NEW j \in ApprovalIds,
             CreateOrGetPending(r, t, j)
      PROVE  FALSE
  <2>1. DOMAIN ExpireOverdue(t) = DOMAIN approvals
    BY DEF ExpireOverdue
  <2> QED
    BY <1>3, <1>7, <2>1 DEF CreateOrGetPending
<1> QED
  BY <1>2, <1>3, <1>4, <1>5, <1>6, <1>7 DEF ApprovalNext, approvalVars, Tick, Expire

\* An approval is decided and consumed only in its lifetime, give or take the age
\* of the clock reading that the caller of the store brought along.
THEOREM DecidedInTimeTheorem == ApprovalSpec => DecidedInTime
<1>1. ApprovalInv /\ [ApprovalNext]_approvalVars => [InTimeStep]_approvalVars
  BY InTimeLemma
<1> QED
  BY <1>1, ApprovalInvariant, PTL DEF ApprovalSpec, DecidedInTime

-----------------------------------------------------------------------------
(* The audit store.                                                        *)

\* The events the pipeline writes are events.
LEMMA EventTypes ==
    ASSUME AuditTypeOK
    PROVE  /\ \A r \in Requests, a \in ApprovalIds \union {NoApproval} : IntentEvent(r, a) \in Event
           /\ \A r \in Requests, v \in {"succeeded", "failed"} : OutcomeEvent(r, v) \in Event
           /\ \A s \in DOMAIN ledger, o \in Actors, c \in Conclusions :
                 ResolutionEvent(s, o, c) \in Event
  BY AuditConstants, RequestConstants
  DEF AuditTypeOK, IntentEvent, OutcomeEvent, ResolutionEvent, Event, EventKey, Conclusions,
      ExecutionRecord, NoApproval

\* What an append does to the log: existing rows stay, the event is on the row
\* returned, and no other row has its phase and key.
LEMMA AppendFacts ==
    ASSUME AuditTypeOK, EventsUnique, NEW e \in Event, CanAppend(e)
    PROVE  /\ LogWith(e) \in Seq(Event)
           /\ Len(log) <= Len(LogWith(e))
           /\ DOMAIN log \subseteq DOMAIN LogWith(e)
           /\ \A n \in DOMAIN log : LogWith(e)[n] = log[n]
           /\ RowFor(e) \in DOMAIN LogWith(e)
           /\ RowFor(e) \in Nat
           /\ LogWith(e)[RowFor(e)] = e
           /\ \A m, n \in DOMAIN LogWith(e) :
                 LogWith(e)[m].phase = LogWith(e)[n].phase /\ LogWith(e)[m].key = LogWith(e)[n].key
                 => m = n
<1> USE DEF AuditTypeOK
<1>1. CASE RowsKeyed(e) = {}
  <2>1. LogWith(e) = Append(log, e) /\ RowFor(e) = Len(log) + 1
    BY <1>1 DEF LogWith, RowFor
  <2>2. \A n \in DOMAIN log : ~(log[n].phase = e.phase /\ log[n].key = e.key)
    BY <1>1 DEF RowsKeyed
  <2>3. /\ Append(log, e) \in Seq(Event)
        /\ Len(Append(log, e)) = Len(log) + 1
        /\ DOMAIN Append(log, e) = 1..(Len(log) + 1)
        /\ DOMAIN log = 1..Len(log)
        /\ Append(log, e)[Len(log) + 1] = e
        /\ \A n \in 1..Len(log) : Append(log, e)[n] = log[n]
    OBVIOUS
  <2>4. \A m, n \in 1..(Len(log) + 1) :
           Append(log, e)[m].phase = Append(log, e)[n].phase
              /\ Append(log, e)[m].key = Append(log, e)[n].key
           => m = n
    BY <2>2, <2>3 DEF EventsUnique
  <2> QED
    BY <2>1, <2>3, <2>4
<1>2. CASE RowsKeyed(e) # {}
  <2>1. LogWith(e) = log /\ RowFor(e) \in RowsKeyed(e)
    BY <1>2 DEF LogWith, RowFor
  <2> QED
    BY <2>1 DEF RowsKeyed, CanAppend, EventsUnique
<1> QED
  BY <1>1, <1>2

\* The empty store satisfies the invariant.
LEMMA AuditInit_Inv == AuditInit => AuditInv
  BY DEF AuditInit, AuditInv, AuditTypeOK, EventsUnique, LedgerOnLog, ConclusionsOnLog, Event

\* A longer log still carries whatever ledger and conclusions rest on.
LEMMA LongerLog ==
    ASSUME AuditInv, NEW e \in Event, CanAppend(e), log' = LogWith(e),
           UNCHANGED <<attached, stream>>
    PROVE  /\ log' \in Seq(Event)
           /\ attached' \subseteq DOMAIN log'
           /\ EventsUnique'
           /\ LogStep
           /\ \A n \in DOMAIN log : n \in DOMAIN log' /\ log'[n] = log[n]
           /\ RowFor(e) \in DOMAIN log' /\ RowFor(e) \in Nat /\ log'[RowFor(e)] = e
<1>1. AuditTypeOK /\ EventsUnique
  BY DEF AuditInv
<1>2. stream # "blocked"
  BY DEF CanAppend, IsWritable
<1> QED
  BY <1>1, <1>2, AppendFacts DEF AuditTypeOK, EventsUnique, LogStep

\* Rows that are on the log stay there.
RowsKept == \A n \in DOMAIN log : n \in DOMAIN log' /\ log'[n] = log[n]

\* An execution record whose request and intent stay, and which is not newly
\* completed, keeps its rows.
LEMMA KeepExecution ==
    ASSUME AuditInv, RowsKept, NEW s \in DOMAIN ledger, s \in DOMAIN ledger',
           ledger'[s].request = ledger[s].request,
           ledger'[s].intent = ledger[s].intent,
           ledger'[s].state = "completed" => ledger'[s] = ledger[s]
    PROVE  ExecutionOnLog(s)'
<1>1. ExecutionOnLog(s)
  BY DEF AuditInv, LedgerOnLog
<1>2. \E a \in ApprovalIds \union {NoApproval} :
         log'[ledger'[s].intent] = IntentEvent(ledger'[s].request, a)
  BY <1>1 DEF ExecutionOnLog, RowsKept
<1>3. ledger'[s].state = "completed" =>
          /\ ledger'[s].result # NoResult
          /\ \E n \in DOMAIN log' : log'[n] = OutcomeEvent(ledger'[s].request, "succeeded")
  BY <1>1 DEF ExecutionOnLog, RowsKept
<1> QED
  BY <1>1, <1>2, <1>3 DEF ExecutionOnLog, RowsKept, IntentEvent, OutcomeEvent

\* A conclusion whose execution and event stay remains grounded.
LEMMA KeepConclusion ==
    ASSUME AuditInv, RowsKept, NEW s \in DOMAIN resolutions, s \in DOMAIN resolutions',
           resolutions'[s].row = resolutions[s].row,
           resolutions'[s].by = resolutions[s].by,
           resolutions'[s].conclusion = resolutions[s].conclusion,
           s \in DOMAIN ledger => s \in DOMAIN ledger' /\ ledger'[s] = ledger[s]
    PROVE  ConclusionOnLog(s)'
<1>1. ConclusionOnLog(s)
  BY DEF AuditInv, ConclusionsOnLog
<1>2. ledger'[s].request = ledger[s].request
  BY <1>1 DEF ConclusionOnLog
<1> QED
  BY <1>1, <1>2 DEF ConclusionOnLog, RowsKept, ResolutionEvent

\* append preserves the invariant.
LEMMA AppendEvent_Inv ==
    ASSUME AuditInv, NEW e \in Event, AppendEvent(e)
    PROVE  AuditInv' /\ LedgerStep /\ LogStep
<1>1. /\ CanAppend(e) /\ log' = LogWith(e)
      /\ UNCHANGED <<attached, ledger, resolutions, stream>>
  BY DEF AppendEvent
<1>2. /\ log' \in Seq(Event) /\ attached' \subseteq DOMAIN log'
      /\ EventsUnique' /\ LogStep /\ RowsKept
  BY <1>1, LongerLog DEF RowsKept
<1>3. AuditTypeOK'
  BY <1>1, <1>2 DEF AuditInv, AuditTypeOK
<1>4. LedgerOnLog'
  BY <1>1, <1>2, KeepExecution DEF LedgerOnLog
<1>5. ConclusionsOnLog'
  BY <1>1, <1>2, KeepConclusion DEF ConclusionsOnLog
<1> QED
  BY <1>1, <1>2, <1>3, <1>4, <1>5 DEF AuditInv, LedgerStep

\* claim_execution preserves the invariant.
LEMMA ClaimExecution_Inv ==
    ASSUME AuditInv, NEW r \in Requests, NEW a \in ApprovalIds \union {NoApproval},
           ClaimExecution(r, a)
    PROVE  AuditInv' /\ LedgerStep /\ LogStep
<1> DEFINE e == IntentEvent(r, a)
<1>0. e \in Event
  BY EventTypes DEF AuditInv
<1>1. /\ CanAppend(e) /\ log' = LogWith(e)
      /\ UNCHANGED <<attached, stream>> /\ UNCHANGED resolutions
      /\ SlotOf[r] \notin DOMAIN ledger
      /\ SlotOf[r] \in Slots
  BY AuditConstants DEF ClaimExecution, CanClaim, IsUnclaimed
<1>2. /\ log' \in Seq(Event)
      /\ attached' \subseteq DOMAIN log'
      /\ EventsUnique'
      /\ LogStep
      /\ RowsKept
      /\ RowFor(e) \in DOMAIN log' /\ RowFor(e) \in Nat /\ log'[RowFor(e)] = e
  BY <1>0, <1>1, LongerLog DEF RowsKept
<1> DEFINE row == [request |-> r, state |-> "claimed", result |-> NoResult, intent |-> RowFor(e)]
<1>3. /\ DOMAIN ledger' = DOMAIN ledger \union {SlotOf[r]}
      /\ ledger'[SlotOf[r]] = row
      /\ \A s \in DOMAIN ledger : ledger'[s] = ledger[s]
      /\ row \in ExecutionRecord
      /\ ledger' \in [DOMAIN ledger' -> ExecutionRecord]
  BY <1>1, <1>2
  DEF ClaimExecution, WithEntry, AuditInv, AuditTypeOK, ExecutionRecord, ExecutionState
<1>4. AuditTypeOK'
  BY <1>1, <1>2, <1>3 DEF AuditInv, AuditTypeOK
<1>5. LedgerOnLog'
  <2> SUFFICES ASSUME NEW s \in DOMAIN ledger'
               PROVE  ExecutionOnLog(s)'
    BY DEF LedgerOnLog
  <2>1. CASE s \in DOMAIN ledger
    BY <2>1, <1>2, <1>3, KeepExecution
  <2>2. CASE s = SlotOf[r]
    <3>1. /\ ledger'[s].request = r
          /\ ledger'[s].intent = RowFor(e)
          /\ ledger'[s].state = "claimed"
      BY <2>2, <1>3
    <3>2. log'[ledger'[s].intent] = IntentEvent(ledger'[s].request, a)
      BY <3>1, <1>2
    <3>3. ledger'[s].intent \in DOMAIN log'
      BY <3>1, <1>2
    <3> HIDE DEF e, row
    <3>4. \E b \in ApprovalIds \union {NoApproval} :
             log'[ledger'[s].intent] = IntentEvent(ledger'[s].request, b)
      BY <3>2
    <3> QED
      BY <2>2, <3>1, <3>3, <3>4 DEF ExecutionOnLog, IntentEvent
  <2> QED
    BY <2>1, <2>2, <1>3
<1>6. ConclusionsOnLog'
  BY <1>1, <1>2, <1>3, KeepConclusion DEF ConclusionsOnLog
<1>7. LedgerStep
  BY <1>1, <1>3 DEF LedgerStep
<1> QED
  BY <1>2, <1>4, <1>5, <1>6, <1>7 DEF AuditInv

\* complete_execution preserves the invariant.
LEMMA CompleteExecution_Inv ==
    ASSUME AuditInv, NEW r \in Requests, NEW v \in Results, CompleteExecution(r, v)
    PROVE  AuditInv' /\ LedgerStep /\ LogStep
<1> DEFINE e == OutcomeEvent(r, "succeeded")
<1>0. e \in Event
  BY EventTypes DEF AuditInv
<1>1. /\ CanAppend(e) /\ log' = LogWith(e)
      /\ UNCHANGED <<attached, stream>> /\ UNCHANGED resolutions
      /\ SlotOf[r] \in DOMAIN ledger
      /\ ledger[SlotOf[r]].state = "claimed"
      /\ ledger[SlotOf[r]].request = r
  BY DEF CompleteExecution, CanComplete, IsClaimedBy, HoldsRequest
<1>2. /\ log' \in Seq(Event)
      /\ attached' \subseteq DOMAIN log'
      /\ EventsUnique'
      /\ LogStep
      /\ RowsKept
      /\ RowFor(e) \in DOMAIN log' /\ log'[RowFor(e)] = e
  BY <1>0, <1>1, LongerLog DEF RowsKept
<1>3. /\ DOMAIN ledger' = DOMAIN ledger
      /\ ledger'[SlotOf[r]] = [request |-> r, state |-> "completed", result |-> v,
                               intent |-> ledger[SlotOf[r]].intent]
      /\ \A s \in DOMAIN ledger : s # SlotOf[r] => ledger'[s] = ledger[s]
  BY <1>1 DEF CompleteExecution, AuditInv, AuditTypeOK
<1>4. /\ ledger'[SlotOf[r]].request = r
      /\ ledger'[SlotOf[r]].intent = ledger[SlotOf[r]].intent
      /\ ledger'[SlotOf[r]].result # NoResult
      /\ ledger'[SlotOf[r]] \in ExecutionRecord
  BY <1>1, <1>3, AuditConstants DEF AuditInv, AuditTypeOK, ExecutionRecord, ExecutionState
<1>4a. ledger' \in [DOMAIN ledger' -> ExecutionRecord]
  BY <1>1, <1>3, <1>4 DEF CompleteExecution, AuditInv, AuditTypeOK
<1>5. AuditTypeOK'
  BY <1>1, <1>2, <1>3, <1>4a DEF AuditInv, AuditTypeOK
<1>6. LedgerOnLog'
  <2> SUFFICES ASSUME NEW s \in DOMAIN ledger'
               PROVE  ExecutionOnLog(s)'
    BY DEF LedgerOnLog
  <2>1. CASE s # SlotOf[r]
    BY <2>1, <1>2, <1>3, KeepExecution
  <2>2. CASE s = SlotOf[r]
    <3>1. ExecutionOnLog(s)
      BY <2>2, <1>1 DEF AuditInv, LedgerOnLog
    <3>2. \E a \in ApprovalIds \union {NoApproval} :
             log'[ledger'[s].intent] = IntentEvent(ledger'[s].request, a)
      BY <2>2, <3>1, <1>1, <1>2, <1>4 DEF ExecutionOnLog, RowsKept
    <3>3. \E n \in DOMAIN log' : log'[n] = OutcomeEvent(ledger'[s].request, "succeeded")
      BY <2>2, <1>2, <1>4
    <3> QED
      BY <2>2, <3>1, <3>2, <3>3, <1>1, <1>2, <1>4
      DEF ExecutionOnLog, RowsKept, IntentEvent, OutcomeEvent
  <2> QED
    BY <2>1, <2>2
<1>7. ConclusionsOnLog'
  <2>1. \A s \in DOMAIN resolutions : s # SlotOf[r]
    BY <1>1 DEF AuditInv, ConclusionsOnLog, ConclusionOnLog
  <2> QED
    BY <2>1, <1>1, <1>2, <1>3, KeepConclusion DEF ConclusionsOnLog
<1>8. LedgerStep
  BY <1>1, <1>3, <1>4 DEF LedgerStep
<1> QED
  BY <1>2, <1>5, <1>6, <1>7, <1>8 DEF AuditInv

\* mark_execution_indeterminate preserves the invariant.
LEMMA MarkIndeterminate_Inv ==
    ASSUME AuditInv, NEW r \in Requests, MarkIndeterminate(r)
    PROVE  AuditInv' /\ LedgerStep /\ LogStep
<1>1. /\ UNCHANGED <<log, attached, resolutions, stream>>
      /\ SlotOf[r] \in DOMAIN ledger
      /\ ledger[SlotOf[r]].state = "claimed"
      /\ DOMAIN ledger' = DOMAIN ledger
      /\ ledger'[SlotOf[r]] = [ledger[SlotOf[r]] EXCEPT !.state = "indeterminate"]
      /\ \A s \in DOMAIN ledger : s # SlotOf[r] => ledger'[s] = ledger[s]
      /\ ledger' \in [DOMAIN ledger' -> ExecutionRecord]
  BY DEF MarkIndeterminate, IsClaimedBy, HoldsRequest, AuditInv, AuditTypeOK, ExecutionRecord,
         ExecutionState
<1>2. \A s \in DOMAIN ledger : /\ ledger'[s].request = ledger[s].request
                               /\ ledger'[s].intent = ledger[s].intent
                               /\ ledger'[s].state = "completed" => ledger'[s] = ledger[s]
  <2>1. ledger[SlotOf[r]] \in ExecutionRecord
    BY <1>1 DEF AuditInv, AuditTypeOK
  <2>2. /\ ledger'[SlotOf[r]].request = ledger[SlotOf[r]].request
        /\ ledger'[SlotOf[r]].intent = ledger[SlotOf[r]].intent
        /\ ledger'[SlotOf[r]].state = "indeterminate"
    BY <1>1, <2>1 DEF ExecutionRecord
  <2> QED
    BY <1>1, <2>2
<1>3. AuditTypeOK' /\ EventsUnique'
  BY <1>1 DEF AuditInv, AuditTypeOK, EventsUnique
<1>4. RowsKept
  BY <1>1 DEF RowsKept
<1>5. LedgerOnLog'
  BY <1>1, <1>2, <1>4, KeepExecution DEF LedgerOnLog
<1>6. ConclusionsOnLog'
  <2>1. \A s \in DOMAIN resolutions : s # SlotOf[r]
    BY <1>1 DEF AuditInv, ConclusionsOnLog, ConclusionOnLog
  <2> QED
    BY <2>1, <1>1, <1>4, KeepConclusion DEF ConclusionsOnLog
<1> QED
  BY <1>1, <1>2, <1>3, <1>5, <1>6 DEF AuditInv, LedgerStep, LogStep, AuditTypeOK

\* begin_execution_resolution preserves the invariant.
LEMMA BeginResolution_Inv ==
    ASSUME AuditInv, NEW s \in Slots, NEW o \in Actors, NEW c \in Conclusions,
           BeginResolution(s, o, c)
    PROVE  AuditInv' /\ LedgerStep /\ LogStep
<1> DEFINE e == ResolutionEvent(s, o, c)
<1>1. /\ CanAppend(e) /\ log' = LogWith(e)
      /\ UNCHANGED <<attached, stream>> /\ UNCHANGED ledger
      /\ s \notin DOMAIN resolutions
      /\ s \in DOMAIN ledger
      /\ ledger[s].state = "indeterminate"
  BY DEF BeginResolution, CanResolve, IsConcludable
<1>2. e \in Event
  BY <1>1, EventTypes DEF AuditInv
<1>3. /\ log' \in Seq(Event)
      /\ attached' \subseteq DOMAIN log'
      /\ EventsUnique'
      /\ LogStep
      /\ RowsKept
      /\ RowFor(e) \in DOMAIN log' /\ RowFor(e) \in Nat /\ log'[RowFor(e)] = e
  BY <1>1, <1>2, LongerLog DEF RowsKept
<1> DEFINE row == [conclusion |-> c, by |-> o, row |-> RowFor(e), finalized |-> FALSE]
<1>4. /\ DOMAIN resolutions' = DOMAIN resolutions \union {s}
      /\ resolutions'[s] = row
      /\ \A q \in DOMAIN resolutions : resolutions'[q] = resolutions[q]
      /\ resolutions' \in [DOMAIN resolutions' -> ExecutionResolution]
  BY <1>1, <1>3 DEF BeginResolution, WithEntry, AuditInv, AuditTypeOK, ExecutionResolution
<1>5. AuditTypeOK'
  BY <1>1, <1>3, <1>4 DEF AuditInv, AuditTypeOK
<1>6. LedgerOnLog'
  BY <1>1, <1>3, KeepExecution DEF LedgerOnLog
<1>7. ConclusionsOnLog'
  <2> SUFFICES ASSUME NEW q \in DOMAIN resolutions'
               PROVE  ConclusionOnLog(q)'
    BY DEF ConclusionsOnLog
  <2>1. CASE q \in DOMAIN resolutions
    BY <2>1, <1>1, <1>3, <1>4, KeepConclusion
  <2>2. CASE q = s
    BY <2>2, <1>1, <1>3, <1>4 DEF ConclusionOnLog, ResolutionEvent
  <2> QED
    BY <2>1, <2>2, <1>4
<1> QED
  BY <1>1, <1>3, <1>4, <1>5, <1>6, <1>7 DEF AuditInv, LedgerStep

\* The remaining operations change neither the log nor the ledger.
LEMMA OtherOps_Inv ==
    ASSUME AuditInv,
           \/ \E s \in Slots, o \in Actors, c \in Conclusions, w \in BOOLEAN :
                 FinalizeResolution(s, o, c, w)
           \/ MarkStreamAmbiguous
           \/ \E n \in DOMAIN log : AttachWitnessReceipt(n) \/ RecoverWitnessedStream(n)
           \/ UNCHANGED auditVars
    PROVE  AuditInv' /\ LedgerStep /\ LogStep
<1>1. log' = log /\ ledger' = ledger
  BY DEF FinalizeResolution, MarkStreamAmbiguous, AttachWitnessReceipt, RecoverWitnessedStream,
         auditVars
<1>2. /\ DOMAIN resolutions' = DOMAIN resolutions
      /\ \A s \in DOMAIN resolutions :
            /\ resolutions'[s].conclusion = resolutions[s].conclusion
            /\ resolutions'[s].by = resolutions[s].by
            /\ resolutions'[s].row = resolutions[s].row
            /\ resolutions[s].finalized => resolutions'[s] = resolutions[s]
      /\ resolutions' \in [DOMAIN resolutions' -> ExecutionResolution]
  <2>1. ASSUME NEW q \in Slots, NEW o \in Actors, NEW c \in Conclusions, NEW w \in BOOLEAN,
               FinalizeResolution(q, o, c, w)
        PROVE  <1>2!1 /\ <1>2!2 /\ <1>2!3
    <3>1. /\ q \in DOMAIN resolutions
          /\ resolutions' = [resolutions EXCEPT ![q] = [resolutions[q] EXCEPT !.finalized = TRUE]]
      BY <2>1 DEF FinalizeResolution, CanFinalize, ResolvedAs
    <3>2. resolutions \in [DOMAIN resolutions -> ExecutionResolution]
      BY DEF AuditInv, AuditTypeOK
    <3>3. [resolutions[q] EXCEPT !.finalized = TRUE] \in ExecutionResolution
      BY <3>1, <3>2 DEF ExecutionResolution
    <3>4. resolutions[q].finalized => [resolutions[q] EXCEPT !.finalized = TRUE] = resolutions[q]
      BY <3>1, <3>2 DEF ExecutionResolution
    <3> QED
      BY <3>1, <3>2, <3>3, <3>4 DEF ExecutionResolution
  <2>2. CASE UNCHANGED resolutions
    BY <2>2 DEF AuditInv, AuditTypeOK
  <2> QED
    BY <2>1, <2>2 DEF MarkStreamAmbiguous, AttachWitnessReceipt, RecoverWitnessedStream, auditVars
<1>3. attached' \subseteq DOMAIN log' /\ stream' \in {"unset", "blocked", "open"}
  BY <1>1 DEF FinalizeResolution, MarkStreamAmbiguous, AttachWitnessReceipt,
         RecoverWitnessedStream, auditVars, AuditInv, AuditTypeOK
<1>4. AuditTypeOK' /\ EventsUnique'
  BY <1>1, <1>2, <1>3 DEF AuditInv, AuditTypeOK, EventsUnique
<1>5. LedgerOnLog'
  BY <1>1, KeepExecution DEF LedgerOnLog, RowsKept
<1>6. ConclusionsOnLog'
  BY <1>1, <1>2, KeepConclusion DEF ConclusionsOnLog, RowsKept
<1> QED
  BY <1>1, <1>2, <1>4, <1>5, <1>6 DEF AuditInv, AuditTypeOK, LedgerStep, LogStep

\* Every step of the store preserves its invariant, its settled rows and its log.
LEMMA AuditNext_Inv == AuditInv /\ [AuditNext]_auditVars => AuditInv' /\ LedgerStep /\ LogStep
<1> SUFFICES ASSUME AuditInv, [AuditNext]_auditVars
             PROVE  AuditInv' /\ LedgerStep /\ LogStep
  OBVIOUS
<1>1. /\ \A r \in Requests, a \in ApprovalIds \union {NoApproval} : IntentEvent(r, a) \in Event
      /\ \A r \in Requests, v \in {"succeeded", "failed"} : OutcomeEvent(r, v) \in Event
  BY EventTypes DEF AuditInv
<1> QED
  BY <1>1, AppendEvent_Inv, ClaimExecution_Inv, CompleteExecution_Inv, MarkIndeterminate_Inv,
     BeginResolution_Inv, OtherOps_Inv
  DEF AuditNext

-----------------------------------------------------------------------------

\* The invariant of the audit store holds in every reachable state.
THEOREM AuditInvariant == AuditSpec => []AuditInv
  BY AuditInit_Inv, AuditNext_Inv, PTL DEF AuditSpec

\* No event is ever written twice.
THEOREM EventsUniqueTheorem == AuditSpec => []EventsUnique
<1>1. AuditInv => EventsUnique
  BY DEF AuditInv
<1> QED
  BY <1>1, AuditInvariant, PTL

\* The ledger never says more than the log.
THEOREM LedgerOnLogTheorem == AuditSpec => []LedgerOnLog
<1>1. AuditInv => LedgerOnLog
  BY DEF AuditInv
<1> QED
  BY <1>1, AuditInvariant, PTL

\* Settled executions and conclusions never change.
THEOREM LedgerMonotoneTheorem == AuditSpec => LedgerMonotone
<1>1. AuditInv /\ [AuditNext]_auditVars => [LedgerStep]_auditVars
  BY AuditNext_Inv
<1> QED
  BY <1>1, AuditInvariant, PTL DEF AuditSpec, LedgerMonotone

\* The log only grows, and not while the stream is blocked.
THEOREM LogAppendOnlyTheorem == AuditSpec => LogAppendOnly
<1>1. AuditInv /\ [AuditNext]_auditVars => [LogStep]_auditVars
  BY AuditNext_Inv
<1> QED
  BY <1>1, AuditInvariant, PTL DEF AuditSpec, LogAppendOnly
=============================================================================
