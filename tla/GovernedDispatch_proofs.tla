---------------------- MODULE GovernedDispatch_proofs ----------------------
(***************************************************************************)
(* Proofs about the governed pipeline, for any number of handlers,         *)
(* requests, slots, approvals and operators, with and without a witness.   *)
(***************************************************************************)
EXTENDS GovernedDispatch, Stores_proofs

-----------------------------------------------------------------------------
(* How a step changes the handlers.                                        *)

\* Advance moves one handler, which goes on serving the same request.
LEMMA AdvanceFacts ==
    ASSUME PipelineTypeOK, NEW p \in Tasks, NEW next \in Pcs, NEW row \in Nat,
           NEW wire \in {"none", "sent", "accepted", "refused"},
           NEW result \in Results \union {NoResult}, Advance(p, next, row, wire, result)
    PROVE  \E t \in Task : /\ task' = [task EXCEPT ![p] = t]
                           /\ t.pc = next
                           /\ t.row = row
                           /\ t.wire = wire
                           /\ t.result = result
                           /\ t.request = task[p].request
                           /\ t.approval = task[p].approval
<1> DEFINE t == [pc |-> next, request |-> task[p].request, approval |-> task[p].approval,
                 row |-> row, wire |-> wire, result |-> result, actor |-> task[p].actor,
                 conclusion |-> task[p].conclusion]
<1>1. task[p] \in Task
  BY DEF PipelineTypeOK
<1>2. t \in Task
  BY <1>1 DEF Task
<1>3. task' = [task EXCEPT ![p] = t]
  BY DEF Advance
<1> QED
  BY <1>2, <1>3

\* A handler that has ended serves nothing.
LEMMA IdleFacts ==
    /\ IdleTask \in Task
    /\ IdleTask.pc = "idle"
    /\ IdleTask.wire = "none"
    /\ IdleTask.row = 0
  BY DEF IdleTask, Serving, Task, Pcs, NoApproval

\* A handler that starts to serve.
LEMMA ServingFacts ==
    ASSUME NEW r \in Requests, NEW a \in ApprovalIds \union {NoApproval}
    PROVE  /\ Serving("human", r, a) \in Task
           /\ Serving("human", r, a).pc = "human"
           /\ Serving("human", r, a).wire = "none"
           /\ Serving("human", r, a).request = r
           /\ Serving("human", r, a).row = 0
  BY DEF Serving, Task, Pcs

-----------------------------------------------------------------------------
(* The claim invariant.                                                    *)

\* A handler that moves keeps the invariant when the ledger stays the same and
\* it does not become an owner by itself.
LEMMA HandlerMoves ==
    ASSUME ClaimInv, NEW p \in Tasks, NEW t \in Task, task' = [task EXCEPT ![p] = t],
           UNCHANGED <<ledger, effects>>, HandlerOK(t),
           t.pc \in OwnerPcs => /\ task[p].pc \in OwnerPcs
                                /\ t.request = task[p].request
                                /\ OwnerOK(t)
    PROVE  ClaimInv'
<1>1. /\ task'[p] = t
      /\ \A q \in Tasks \ {p} : task'[q] = task[q]
      /\ task' \in [Tasks -> Task]
  BY DEF ClaimInv, PipelineTypeOK
<1>2. PipelineTypeOK'
  BY <1>1 DEF ClaimInv, PipelineTypeOK
<1>3. ASSUME NEW q \in Tasks
      PROVE  (HandlerOK(task[q]) /\ OwnerOK(task[q]))'
  <2>1. CASE q = p
    BY <1>1, <2>1 DEF HandlerOK, OwnerOK, IsClaimedBy, HoldsRequest
  <2>2. CASE q # p
    BY <1>1, <2>2 DEF ClaimInv, HandlerOK, OwnerOK, IsClaimedBy, HoldsRequest
  <2> QED
    BY <2>1, <2>2
<1>4. OneOwner'
  <2> SUFFICES ASSUME NEW a \in Tasks, NEW b \in Tasks,
                      task'[a].pc \in OwnerPcs, task'[b].pc \in OwnerPcs,
                      SlotOf[task'[a].request] = SlotOf[task'[b].request]
               PROVE  a = b
    BY DEF OneOwner, SlotAt
  <2>1. \A c \in Tasks : task'[c].pc \in OwnerPcs =>
           task[c].pc \in OwnerPcs /\ task'[c].request = task[c].request
    BY <1>1
  <2> QED
    BY <2>1 DEF ClaimInv, OneOwner, SlotAt
<1>5. ResultsKept' /\ EffectsHeld'
  BY DEF ClaimInv, ResultsKept, EffectsHeld, HoldsRequest
<1> QED
  BY <1>2, <1>3, <1>4, <1>5 DEF ClaimInv

\* A handler that ends keeps it.
LEMMA HandlerEnds ==
    ASSUME ClaimInv, NEW p \in Tasks, Finish(p), UNCHANGED <<ledger, effects>>
    PROVE  ClaimInv'
<1>1. HandlerOK(IdleTask) /\ IdleTask.pc \notin OwnerPcs
  BY IdleFacts DEF HandlerOK, OwnerPcs, ServingPcs
<1> QED
  BY <1>1, IdleFacts, HandlerMoves DEF Finish

\* So does one that goes on to a call that needs no claim, or to one that its
\* claim permits.
LEMMA HandlerAdvances ==
    ASSUME ClaimInv, NEW p \in Tasks, NEW next \in Pcs, NEW row \in Nat,
           NEW wire \in {"none", "sent", "accepted", "refused"},
           NEW result \in Results \union {NoResult}, Advance(p, next, row, wire, result),
           UNCHANGED <<ledger, effects>>,
           wire # "none" => next \in AwaitPcs,
           next \in ServingPcs => task[p].pc \in ServingPcs,
           next \in OwnerPcs => task[p].pc \in OwnerPcs,
           next \in {"consume", "execute"} => effects[task[p].request] = 0,
           next \in {"append_outcome", "await_outcome", "complete"} =>
              effects[task[p].request] = 1 /\ result \in Results
    PROVE  ClaimInv'
<1> PipelineTypeOK /\ HandlerOK(task[p]) /\ OwnerOK(task[p])
  BY DEF ClaimInv
<1>1. PICK t \in Task : /\ task' = [task EXCEPT ![p] = t]
                        /\ t.pc = next
                        /\ t.wire = wire
                        /\ t.result = result
                        /\ t.request = task[p].request
  BY AdvanceFacts
<1>2. HandlerOK(t)
  BY <1>1 DEF HandlerOK
<1>3. next \in OwnerPcs => OwnerOK(t)
  BY <1>1 DEF OwnerOK
<1> QED
  BY <1>1, <1>2, <1>3, HandlerMoves

\* Errors lead an owner to closing its claim, and end any other handler.
LEMMA HandlerFails ==
    ASSUME ClaimInv, NEW p \in Tasks, Fail(p), UNCHANGED <<ledger, effects>>
    PROVE  ClaimInv'
<1>1. CASE OnError(task[p].pc) = "idle"
  BY <1>1, HandlerEnds DEF Fail
<1>2. CASE OnError(task[p].pc) # "idle"
  <2>1. /\ task[p].pc \in OwnerPcs \intersect ServingPcs
        /\ OnError(task[p].pc) \in {"block", "mark"}
    BY <1>2 DEF OnError, OwnerPcs, ServingPcs
  <2>2. Advance(p, OnError(task[p].pc), 0, "none", task[p].result)
    BY <1>2 DEF Fail, Goto
  <2>3. task[p].result \in Results \union {NoResult} /\ OnError(task[p].pc) \in Pcs
    BY <2>1 DEF ClaimInv, PipelineTypeOK, Task, Pcs, StorePcs
  <2> QED
    BY <2>1, <2>2, <2>3, HandlerAdvances
<1> QED
  BY <1>1, <1>2

\* A row that is sent to the witness, or has its receipt already.
LEMMA HandlerCheckpoints ==
    ASSUME ClaimInv, NEW p \in Tasks, NEW n \in Nat, UNCHANGED <<ledger, effects>>,
           NEW waiting \in AwaitPcs, NEW done \in Pcs, Checkpointed(p, n, waiting, done),
           \A next \in {waiting, done} :
              /\ next \in ServingPcs => task[p].pc \in ServingPcs
              /\ next \in OwnerPcs => task[p].pc \in OwnerPcs
              /\ next \notin {"consume", "execute", "append_outcome"}
              /\ next \in {"await_outcome", "complete"} =>
                    effects[task[p].request] = 1 /\ task[p].result \in Results
    PROVE  ClaimInv'
<1>1. task[p].result \in Results \union {NoResult} /\ waiting \in Pcs
  BY DEF ClaimInv, PipelineTypeOK, Task, Pcs
<1>2. \/ Advance(p, done, n, "none", task[p].result)
      \/ Advance(p, waiting, n, "sent", task[p].result)
  BY DEF Checkpointed
<1> QED
  BY <1>1, <1>2, HandlerAdvances

-----------------------------------------------------------------------------
(* Steps that leave the ledger and the effects alone.                      *)

\* A new dispatch owns nothing yet.
LEMMA StartDispatch_Claim ==
    ASSUME ClaimInv, NEW p \in Tasks, NEW r \in Requests,
           NEW a \in ApprovalIds \union {NoApproval}, StartDispatch(p, r, a)
    PROVE  ClaimInv'
<1> DEFINE t == Serving("human", r, a)
<1>1. HandlerOK(t) /\ t.pc \notin OwnerPcs /\ t \in Task
  BY ServingFacts DEF HandlerOK, OwnerPcs
<1>2. task' = [task EXCEPT ![p] = t] /\ UNCHANGED <<ledger, effects>>
  BY DEF StartDispatch, auditVars
<1> HIDE DEF t
<1> QED
  BY <1>1, <1>2, HandlerMoves

\* The human gate changes approvals only.
LEMMA HumanGate_Claim ==
    ASSUME ClaimInv, NEW p \in Tasks, HumanGate(p)
    PROVE  ClaimInv'
<1>1. UNCHANGED <<ledger, effects>> /\ task[p].pc = "human"
  BY DEF HumanGate, auditVars
<1>2. CASE Finish(p)
  BY <1>1, <1>2, HandlerEnds
<1>3. CASE Goto(p, IF Witnessed THEN "lookup" ELSE "acquire")
  <2>1. \E next \in {"lookup", "acquire"} : Advance(p, next, 0, "none", task[p].result)
    BY <1>3 DEF Goto
  <2>2. task[p].result \in Results \union {NoResult}
    BY DEF ClaimInv, PipelineTypeOK, Task
  <2> QED
    BY <1>1, <2>1, <2>2, HandlerAdvances DEF Pcs, StorePcs, ServingPcs, OwnerPcs
<1> QED
  BY <1>2, <1>3 DEF HumanGate

\* Looking for a record changes nothing but the handler.
LEMMA LookUp_Claim ==
    ASSUME ClaimInv, NEW p \in Tasks, LookUp(p)
    PROVE  ClaimInv'
<1>1. /\ UNCHANGED <<ledger, effects>>
      /\ task[p].pc = "lookup"
      /\ \E next \in {"append_intent", "acquire"} : Advance(p, next, 0, "none", task[p].result)
  BY DEF LookUp, auditVars, Goto
<1>2. task[p].result \in Results \union {NoResult}
  BY DEF ClaimInv, PipelineTypeOK, Task
<1> QED
  BY <1>1, <1>2, HandlerAdvances DEF Pcs, StorePcs, ServingPcs, OwnerPcs

\* Appending an intent claims nothing.
LEMMA AppendIntent_Claim ==
    ASSUME ClaimInv, AuditInv, NEW p \in Tasks, AppendIntent(p)
    PROVE  ClaimInv'
<1> DEFINE e == IntentEvent(task[p].request, task[p].approval)
<1>1. UNCHANGED <<ledger, effects>> /\ task[p].pc = "append_intent"
  BY DEF AppendIntent, AppendEvent, auditVars
<1>2. CASE CanAppend(e)
  <2>1. e \in Event
    BY <1>1, EventTypes DEF AuditInv, ClaimInv, PipelineTypeOK, Task, HandlerOK, ServingPcs
  <2>2. RowFor(e) \in Nat
    BY <1>2, <2>1, AppendFacts DEF AuditInv
  <2>3. Checkpointed(p, RowFor(e), "await_intent", "acquire")
    BY <1>2 DEF AppendIntent
  <2> HIDE DEF e
  <2> QED
    BY <1>1, <2>2, <2>3, HandlerCheckpoints DEF Pcs, StorePcs, AwaitPcs, ServingPcs, OwnerPcs
<1>3. CASE ~CanAppend(e)
  BY <1>1, <1>3, HandlerFails DEF AppendIntent
<1> QED
  BY <1>2, <1>3

\* Appending an outcome leaves the claim to its owner.
LEMMA AppendOutcome_Claim ==
    ASSUME ClaimInv, AuditInv, NEW p \in Tasks, AppendOutcome(p)
    PROVE  ClaimInv'
<1> DEFINE e == OutcomeEvent(task[p].request, "succeeded")
<1>1. UNCHANGED <<ledger, effects>> /\ task[p].pc = "append_outcome"
  BY DEF AppendOutcome, AppendEvent, auditVars
<1>2. effects[task[p].request] = 1 /\ task[p].result \in Results
  BY <1>1 DEF ClaimInv, OwnerOK, OwnerPcs
<1>3. CASE IsClaimedBy(task[p].request) /\ CanAppend(e)
  <2>1. e \in Event
    BY <1>1, EventTypes DEF AuditInv, ClaimInv, HandlerOK, ServingPcs, OwnerPcs
  <2>2. RowFor(e) \in Nat
    BY <1>3, <2>1, AppendFacts DEF AuditInv
  <2>3. Checkpointed(p, RowFor(e), "await_outcome", "complete")
    BY <1>3 DEF AppendOutcome
  <2> HIDE DEF e
  <2> QED
    BY <1>1, <1>2, <2>2, <2>3, HandlerCheckpoints DEF Pcs, StorePcs, AwaitPcs, ServingPcs, OwnerPcs
<1>4. CASE ~(IsClaimedBy(task[p].request) /\ CanAppend(e))
  BY <1>1, <1>4, HandlerFails DEF AppendOutcome
<1> QED
  BY <1>3, <1>4

\* Appending a failure leaves the claim to its owner.
LEMMA AppendFailure_Claim ==
    ASSUME ClaimInv, AuditInv, NEW p \in Tasks, AppendFailure(p)
    PROVE  ClaimInv'
<1> DEFINE e == OutcomeEvent(task[p].request, "failed")
<1>1. UNCHANGED <<ledger, effects>> /\ task[p].pc = "append_failure"
  BY DEF AppendFailure, AppendEvent, auditVars
<1>2. CASE CanAppend(e) /\ Witnessed
  <2>1. e \in Event
    BY <1>1, EventTypes DEF AuditInv, ClaimInv, HandlerOK, ServingPcs, OwnerPcs
  <2>2. RowFor(e) \in Nat
    BY <1>2, <2>1, AppendFacts DEF AuditInv
  <2>3. Checkpointed(p, RowFor(e), "await_failure", "mark")
    BY <1>2 DEF AppendFailure
  <2> HIDE DEF e
  <2> QED
    BY <1>1, <2>2, <2>3, HandlerCheckpoints DEF Pcs, StorePcs, AwaitPcs, ServingPcs, OwnerPcs
<1>3. CASE CanAppend(e) /\ ~Witnessed
  <2>1. Advance(p, "mark", 0, "none", task[p].result)
    BY <1>3 DEF AppendFailure, Goto
  <2>2. task[p].result \in Results \union {NoResult}
    BY DEF ClaimInv, PipelineTypeOK, Task
  <2> QED
    BY <1>1, <2>1, <2>2, HandlerAdvances DEF Pcs, StorePcs, ServingPcs, OwnerPcs
<1>4. CASE ~CanAppend(e)
  BY <1>1, <1>4, HandlerFails DEF AppendFailure
<1> QED
  BY <1>2, <1>3, <1>4

\* An owner that has spent its approval, or failed to, is still the owner.
LEMMA Consume_Claim ==
    ASSUME ClaimInv, NEW p \in Tasks, Consume(p)
    PROVE  ClaimInv'
<1>1. /\ UNCHANGED <<ledger, effects>>
      /\ task[p].pc = "consume"
      /\ \E next \in {"execute", "mark"} : Advance(p, next, 0, "none", task[p].result)
  BY DEF Consume, auditVars, Goto, AfterRefusal
<1>2. effects[task[p].request] = 0 /\ task[p].result \in Results \union {NoResult}
  BY <1>1 DEF ClaimInv, OwnerOK, OwnerPcs, PipelineTypeOK, Task
<1> QED
  BY <1>1, <1>2, HandlerAdvances DEF Pcs, StorePcs, ServingPcs, OwnerPcs

\* A receipt moves its handler on; the claim is not touched.
LEMMA ReceiveReceipt_Claim ==
    ASSUME ClaimInv, NEW p \in Tasks, ReceiveReceipt(p)
    PROVE  ClaimInv'
<1>1. /\ UNCHANGED <<ledger, effects>>
      /\ task[p].pc \in AwaitPcs
      /\ Advance(p, AfterReceipt(task[p].pc), task[p].row, "none", task[p].result)
  BY DEF ReceiveReceipt, AttachWitnessReceipt, ClaimInv, HandlerOK
<1>2. \/ task[p].pc = "await_intent" /\ AfterReceipt(task[p].pc) = "acquire"
      \/ task[p].pc = "await_outcome" /\ AfterReceipt(task[p].pc) = "complete"
      \/ task[p].pc = "await_failure" /\ AfterReceipt(task[p].pc) = "mark"
      \/ task[p].pc = "await_resolution" /\ AfterReceipt(task[p].pc) = "finalize"
      \/ task[p].pc = "await_head" /\ AfterReceipt(task[p].pc) = "recover"
  BY <1>1 DEF AwaitPcs, AfterReceipt
<1>3. /\ task[p].result \in Results \union {NoResult}
      /\ task[p].row \in Nat
      /\ task[p].pc = "await_outcome" => effects[task[p].request] = 1 /\ task[p].result \in Results
  BY DEF ClaimInv, OwnerOK, OwnerPcs, PipelineTypeOK, Task
<1>4. AfterReceipt(task[p].pc) \in Pcs
  BY <1>2 DEF Pcs, StorePcs
<1> QED
  BY <1>1, <1>2, <1>3, <1>4, HandlerAdvances DEF ServingPcs, OwnerPcs

\* The witness does not touch the claims.
LEMMA ServeCheckpoint_Claim ==
    ASSUME ClaimInv, NEW p \in Tasks, ServeCheckpoint(p)
    PROVE  ClaimInv'
<1>1. /\ UNCHANGED <<ledger, effects>>
      /\ task[p].pc \in AwaitPcs
      /\ \E wire \in {"accepted", "refused"} :
            Advance(p, task[p].pc, task[p].row, wire, task[p].result)
  BY DEF ServeCheckpoint, auditVars, ClaimInv, HandlerOK
<1>2. /\ task[p].result \in Results \union {NoResult}
      /\ task[p].row \in Nat
      /\ task[p].pc \in Pcs
      /\ task[p].pc = "await_outcome" => effects[task[p].request] = 1 /\ task[p].result \in Results
  BY DEF ClaimInv, OwnerOK, OwnerPcs, PipelineTypeOK, Task
<1> QED
  BY <1>1, <1>2, HandlerAdvances DEF AwaitPcs

\* A resolution serves the request of an execution that is over.
LEMMA StartResolve_Claim ==
    ASSUME ClaimInv, AuditInv, AuditInv', NEW p \in Tasks, NEW s \in Slots, NEW o \in Actors,
           NEW c \in Conclusions, StartResolve(p, s, o, c)
    PROVE  ClaimInv'
<1>1. UNCHANGED <<ledger, effects>>
  BY DEF StartResolve, BeginResolution, auditVars
<1>2. s \in DOMAIN resolutions' /\ s \in DOMAIN ledger
  BY DEF StartResolve, BeginResolution, WithEntry, CanResolve, IsConcludable, ResolvedAs, auditVars,
         AuditInv, ConclusionsOnLog, ConclusionOnLog
<1>3. resolutions'[s].row \in Nat /\ ledger[s].request \in Requests
  BY <1>2 DEF AuditInv, AuditTypeOK, ExecutionResolution, ExecutionRecord
<1>4. PICK pc \in {"finalize", "await_resolution"}, wire \in {"none", "sent"} :
         /\ wire = "sent" => pc = "await_resolution"
         /\ task' = [task EXCEPT ![p] =
                       [pc |-> pc, request |-> ledger[s].request, approval |-> NoApproval,
                        row |-> resolutions'[s].row, wire |-> wire, result |-> NoResult,
                        actor |-> o, conclusion |-> c]]
  <2> DEFINE done == ~Witnessed \/ resolutions'[s].finalized \/ resolutions'[s].row \in attached
  <2>1. CASE done
    <3>1. task' = [task EXCEPT ![p] =
                       [pc |-> "finalize", request |-> ledger[s].request, approval |-> NoApproval,
                        row |-> resolutions'[s].row, wire |-> "none", result |-> NoResult,
                        actor |-> o, conclusion |-> c]]
      BY <2>1 DEF StartResolve
    <3> QED
      BY <3>1
  <2>2. CASE ~done
    <3>1. task' = [task EXCEPT ![p] =
                       [pc |-> "await_resolution", request |-> ledger[s].request,
                        approval |-> NoApproval, row |-> resolutions'[s].row, wire |-> "sent",
                        result |-> NoResult, actor |-> o, conclusion |-> c]]
      BY <2>2 DEF StartResolve
    <3> QED
      BY <3>1
  <2> QED
    BY <2>1, <2>2
<1> DEFINE t == [pc |-> pc, request |-> ledger[s].request, approval |-> NoApproval,
                 row |-> resolutions'[s].row, wire |-> wire, result |-> NoResult,
                 actor |-> o, conclusion |-> c]
<1>5. t \in Task
  BY <1>3, <1>4 DEF Task, Pcs, StorePcs, AwaitPcs
<1>6. HandlerOK(t) /\ t.pc \notin OwnerPcs
  BY <1>4 DEF HandlerOK, AwaitPcs, ServingPcs, OwnerPcs
<1>7. task' = [task EXCEPT ![p] = t]
  BY <1>4
<1> HIDE DEF t
<1> QED
  BY <1>1, <1>5, <1>6, <1>7, HandlerMoves

\* A recovery serves no request.
LEMMA StartRecover_Claim ==
    ASSUME ClaimInv, AuditInv, NEW p \in Tasks, StartRecover(p)
    PROVE  ClaimInv'
<1>1. /\ UNCHANGED <<ledger, effects>>
      /\ Checkpointed(p, Len(log), "await_head", "recover")
  BY DEF StartRecover, auditVars
<1>2. Len(log) \in Nat
  BY DEF AuditInv, AuditTypeOK
<1> QED
  BY <1>1, <1>2, HandlerCheckpoints DEF Pcs, StorePcs, AwaitPcs, ServingPcs, OwnerPcs

\* The process stops: every handler is gone, every claim it held stays open.
LEMMA Crash_Claim ==
    ASSUME ClaimInv, Crash
    PROVE  ClaimInv'
<1>1. /\ task' = [p \in Tasks |-> IdleTask]
      /\ UNCHANGED <<ledger, effects>>
  BY DEF Crash, auditVars
<1>2. PipelineTypeOK'
  BY <1>1, IdleFacts DEF ClaimInv, PipelineTypeOK
<1>3. HandlerOK(IdleTask) /\ IdleTask.pc \notin OwnerPcs
  BY IdleFacts DEF HandlerOK, OwnerPcs, ServingPcs
<1>4. \A p \in Tasks : (HandlerOK(task[p]) /\ OwnerOK(task[p]))'
  BY <1>1, <1>3 DEF HandlerOK, OwnerOK
<1>5. OneOwner' /\ ResultsKept' /\ EffectsHeld'
  BY <1>1, <1>3 DEF ClaimInv, OneOwner, ResultsKept, EffectsHeld, HoldsRequest
<1> QED
  BY <1>2, <1>4, <1>5 DEF ClaimInv

\* The remaining steps that leave the ledger and the effects alone.
LEMMA QuietSteps_Claim ==
    ASSUME ClaimInv, NEW p \in Tasks,
           \/ Block(p) \/ Reply(p) \/ ReceiveRefusal(p) \/ Timeout(p)
           \/ Finalize(p) \/ Recover(p) \/ StorageFault(p)
    PROVE  ClaimInv'
<1>1. UNCHANGED <<ledger, effects>>
  BY DEF Block, Reply, ReceiveRefusal, Timeout, Finalize, Recover, StorageFault, auditVars,
         MarkStreamAmbiguous, FinalizeResolution, RecoverWitnessedStream
<1>2. CASE Block(p)
  <2>1. task[p].pc = "block" /\ Advance(p, "mark", 0, "none", task[p].result)
    BY <1>2 DEF Block, Goto
  <2>2. task[p].result \in Results \union {NoResult}
    BY DEF ClaimInv, PipelineTypeOK, Task
  <2> QED
    BY <1>1, <2>1, <2>2, HandlerAdvances DEF Pcs, StorePcs, ServingPcs, OwnerPcs
<1>3. CASE Reply(p) \/ Finalize(p) \/ Recover(p)
  BY <1>1, <1>3, HandlerEnds DEF Reply, Finalize, Recover
<1>4. CASE ReceiveRefusal(p) \/ Timeout(p) \/ StorageFault(p)
  BY <1>1, <1>4, HandlerFails DEF ReceiveRefusal, Timeout, StorageFault
<1> QED
  BY <1>2, <1>3, <1>4

-----------------------------------------------------------------------------
(* Steps that change the ledger or have an effect.                         *)

\* A step of handler p that concerns the slot of request r only, which no other
\* handler owns, leaves the other owners as they were.
LEMMA SlotMoves ==
    ASSUME ClaimInv, NEW p \in Tasks, NEW r \in Requests, NEW t \in Task,
           task' = [task EXCEPT ![p] = t], HandlerOK(t),
           effects' \in [Requests -> Nat],
           t.pc \in OwnerPcs => t.request = r /\ OwnerOK(t)',
           \A q \in Tasks \ {p} : task[q].pc \in OwnerPcs => SlotAt(q) # SlotOf[r],
           \A s \in DOMAIN ledger \ {SlotOf[r]} : s \in DOMAIN ledger' /\ ledger'[s] = ledger[s],
           \A q \in Requests : SlotOf[q] # SlotOf[r] => effects'[q] = effects[q],
           ResultsKept', EffectsHeld'
    PROVE  ClaimInv'
<1>1. /\ task'[p] = t
      /\ \A q \in Tasks \ {p} : task'[q] = task[q]
      /\ PipelineTypeOK'
  BY DEF ClaimInv, PipelineTypeOK
<1>2. ASSUME NEW q \in Tasks
      PROVE  (HandlerOK(task[q]) /\ OwnerOK(task[q]))'
  <2>1. CASE q = p
    BY <1>1, <2>1 DEF HandlerOK, OwnerOK
  <2>2. CASE q # p
    <3>1. HandlerOK(task[q]) /\ OwnerOK(task[q]) /\ task'[q] = task[q]
      BY <1>1, <2>2 DEF ClaimInv
    <3>2. CASE task[q].pc \in OwnerPcs
      <4>1. /\ SlotOf[task[q].request] # SlotOf[r]
            /\ task[q].request \in Requests
            /\ IsClaimedBy(task[q].request)
        BY <2>2, <3>1, <3>2 DEF SlotAt, HandlerOK, OwnerOK, ServingPcs
      <4> QED
        BY <3>1, <3>2, <4>1 DEF HandlerOK, OwnerOK, IsClaimedBy, HoldsRequest
    <3> QED
      BY <3>1, <3>2 DEF HandlerOK, OwnerOK
  <2> QED
    BY <2>1, <2>2
<1>3. OneOwner'
  <2> SUFFICES ASSUME NEW a \in Tasks, NEW b \in Tasks,
                      task'[a].pc \in OwnerPcs, task'[b].pc \in OwnerPcs,
                      SlotOf[task'[a].request] = SlotOf[task'[b].request]
               PROVE  a = b
    BY DEF OneOwner, SlotAt
  <2> QED
    BY <1>1 DEF ClaimInv, OneOwner, SlotAt
<1> QED
  BY <1>1, <1>2, <1>3 DEF ClaimInv

\* The slot of an owner is owned by nobody else.
LEMMA SoleOwner ==
    ASSUME ClaimInv, NEW p \in Tasks, task[p].pc \in OwnerPcs
    PROVE  /\ task[p].request \in Requests
           /\ IsClaimedBy(task[p].request)
           /\ \A q \in Tasks \ {p} : task[q].pc \in OwnerPcs => SlotAt(q) # SlotOf[task[p].request]
  BY DEF ClaimInv, OneOwner, HandlerOK, OwnerOK, ServingPcs, SlotAt

\* A claimed slot, as the abstract specification sees it.
LEMMA ClaimedIsRunning ==
    ASSUME ClaimInv, NEW r \in Requests, IsClaimedBy(r)
    PROVE  Once!IsRunning(r)
<1>1. ledger[SlotOf[r]].result = NoResult
  BY DEF ClaimInv, ResultsKept, IsClaimedBy, HoldsRequest
<1> QED
  BY <1>1 DEF Once!IsRunning, Once!Entry, IsClaimedBy, HoldsRequest

\* A claim is acquired for a slot that had none, by its only owner.
LEMMA Acquire_Claim ==
    ASSUME ClaimInv, AuditInv, NEW p \in Tasks, Acquire(p)
    PROVE  ClaimInv' /\ (Once!OnceNext \/ UNCHANGED <<ledger, effects>>)
<1>1. /\ task[p].pc = "acquire" /\ UNCHANGED effects
      /\ \E r \in Requests, a \in ApprovalIds \union {NoApproval} :
            r = task[p].request /\ a = task[p].approval
  BY DEF Acquire, ClaimInv, HandlerOK, ServingPcs, PipelineTypeOK, Task
<1> PICK r \in Requests, a \in ApprovalIds \union {NoApproval} :
       r = task[p].request /\ a = task[p].approval
  BY <1>1
<1>2. task[p].result \in Results \union {NoResult}
  BY DEF ClaimInv, PipelineTypeOK, Task
<1>3. CASE ClaimExecution(r, a) /\ Goto(p, IF a = NoApproval THEN "execute" ELSE "consume")
  <2> DEFINE entry == [request |-> r, state |-> "claimed", result |-> NoResult,
                       intent |-> RowFor(IntentEvent(r, a))]
  <2>1. SlotOf[r] \notin DOMAIN ledger
    BY <1>3 DEF ClaimExecution, CanClaim, IsUnclaimed
  <2>2. /\ DOMAIN ledger' = DOMAIN ledger \union {SlotOf[r]}
        /\ ledger'[SlotOf[r]] = entry
        /\ \A s \in DOMAIN ledger : ledger'[s] = ledger[s]
    BY <1>3, <2>1 DEF ClaimExecution, WithEntry
  <2>3. PICK next \in {"execute", "consume"} : Advance(p, next, 0, "none", task[p].result)
    BY <1>3 DEF Goto
  <2>4. PICK t \in Task : /\ task' = [task EXCEPT ![p] = t]
                          /\ t.pc = next
                          /\ t.wire = "none"
                          /\ t.request = r
    <3>1. PipelineTypeOK /\ next \in Pcs
      BY DEF ClaimInv, Pcs, StorePcs
    <3> QED
      BY <1>2, <2>3, <3>1, AdvanceFacts
  <2>5. HandlerOK(t)
    BY <1>1, <2>4 DEF HandlerOK
  <2>6. effects[r] = 0
    BY <1>1, <2>1 DEF ClaimInv, EffectsHeld, HoldsRequest, PipelineTypeOK
  <2>7. OwnerOK(t)'
    BY <1>1, <2>2, <2>3, <2>4, <2>6 DEF OwnerOK, IsClaimedBy, HoldsRequest
  <2>8. \A q \in Tasks \ {p} : task[q].pc \in OwnerPcs => SlotAt(q) # SlotOf[r]
    BY <2>1 DEF ClaimInv, OwnerOK, IsClaimedBy, HoldsRequest, SlotAt
  <2>9. ResultsKept'
    BY <2>2 DEF ClaimInv, ResultsKept
  <2>10. EffectsHeld'
    BY <1>1, <2>1, <2>2 DEF ClaimInv, EffectsHeld, HoldsRequest
  <2>11. ClaimInv'
    <3>1. effects' \in [Requests -> Nat]
      BY <1>1 DEF ClaimInv, PipelineTypeOK
    <3> QED
      BY <1>1, <2>2, <2>4, <2>5, <2>7, <2>8, <2>9, <2>10, <3>1, SlotMoves
  <2>12. Once!Claim(r)
    BY <1>1, <2>1, <2>2 DEF Once!Claim, Once!Entry
  <2> QED
    BY <1>1, <2>11, <2>12 DEF Once!OnceNext
<1>4. CASE UNCHANGED auditVars /\ IsReplayable(r)
           /\ Advance(p, "executed", 0, "none", ledger[SlotOf[r]].result)
  <2>1. ledger[SlotOf[r]].result \in Results \union {NoResult}
    BY <1>4 DEF IsReplayable, HoldsRequest, AuditInv, AuditTypeOK, ExecutionRecord
  <2>2. UNCHANGED <<ledger, effects>>
    BY <1>1, <1>4 DEF auditVars
  <2> QED
    BY <1>1, <1>4, <2>1, <2>2, HandlerAdvances DEF Pcs, ServingPcs, OwnerPcs
<1>5. CASE UNCHANGED auditVars /\ Fail(p)
  BY <1>1, <1>5, HandlerFails DEF auditVars
<1> QED
  BY <1>3, <1>4, <1>5 DEF Acquire

\* The effect of a handler at the executor, which then moves on or is gone.
LEMMA Effect_Claim ==
    ASSUME ClaimInv, NEW p \in Tasks, NEW r \in Requests, r = task[p].request,
           task[p].pc = "execute", NEW t \in Task, task' = [task EXCEPT ![p] = t],
           HappenOnce(r), UNCHANGED ledger, HandlerOK(t),
           t.pc \in OwnerPcs =>
              /\ t.request = r
              /\ t.pc \notin {"consume", "execute"}
              /\ t.pc \in {"append_outcome", "await_outcome", "complete"} => t.result \in Results
    PROVE  ClaimInv' /\ Once!OnceNext
<1>1. /\ IsClaimedBy(r)
      /\ effects[r] = 0
      /\ \A q \in Tasks \ {p} : task[q].pc \in OwnerPcs => SlotAt(q) # SlotOf[r]
  BY SoleOwner DEF ClaimInv, OwnerOK, OwnerPcs
<1>2. /\ effects' \in [Requests -> Nat]
      /\ effects'[r] = 1
      /\ \A q \in Requests \ {r} : effects'[q] = effects[q]
  BY <1>1 DEF HappenOnce, ClaimInv, PipelineTypeOK
<1>3. OwnerOK(t)'
  BY <1>1, <1>2 DEF OwnerOK, IsClaimedBy, HoldsRequest
<1>4. ResultsKept'
  BY DEF ClaimInv, ResultsKept
<1>5. EffectsHeld'
  BY <1>1, <1>2 DEF ClaimInv, EffectsHeld, HoldsRequest, IsClaimedBy
<1>6. ClaimInv'
  <2>1. /\ \A s \in DOMAIN ledger \ {SlotOf[r]} : s \in DOMAIN ledger' /\ ledger'[s] = ledger[s]
        /\ \A q \in Requests : SlotOf[q] # SlotOf[r] => effects'[q] = effects[q]
        /\ t.pc \in OwnerPcs => t.request = r /\ OwnerOK(t)'
    BY <1>2, <1>3
  <2> QED
    BY <1>1, <1>2, <1>4, <1>5, <2>1, SlotMoves
<1>7. Once!Happen(r)
  BY <1>1, <1>2, ClaimedIsRunning DEF Once!Happen, HappenOnce
<1> QED
  BY <1>6, <1>7 DEF Once!OnceNext

\* The executor runs for the claim's only owner, before which nothing happened.
LEMMA Execute_Claim ==
    ASSUME ClaimInv, NEW p \in Tasks, Execute(p)
    PROVE  ClaimInv' /\ (Once!OnceNext \/ UNCHANGED <<ledger, effects>>)
<1>1. task[p].pc = "execute" /\ UNCHANGED ledger
  BY DEF Execute, auditVars
<1>2. PICK r \in Requests : r = task[p].request
  BY <1>1, SoleOwner DEF OwnerPcs
<1>3. PipelineTypeOK /\ task[p].result \in Results \union {NoResult}
  BY DEF ClaimInv, PipelineTypeOK, Task
<1>4. ASSUME NEW v \in Results, HappenOnce(r),
             Advance(p, IF Witnessed THEN "append_outcome" ELSE "complete", 0, "none", v)
      PROVE  ClaimInv' /\ Once!OnceNext
  <2>1. PICK next \in {"append_outcome", "complete"} : Advance(p, next, 0, "none", v)
    BY <1>4
  <2>2. next \in Pcs
    BY DEF Pcs, StorePcs
  <2>3. PICK t \in Task : /\ task' = [task EXCEPT ![p] = t]
                          /\ t.pc = next
                          /\ t.wire = "none"
                          /\ t.result = v
                          /\ t.request = r
    BY <1>2, <1>3, <2>1, <2>2, AdvanceFacts
  <2>4. HandlerOK(t)
    BY <2>3 DEF HandlerOK
  <2> QED
    BY <1>1, <1>2, <1>4, <2>3, <2>4, Effect_Claim
<1>5. CASE HappenOnce(r) /\ Goto(p, "append_failure")
  <2>1. "append_failure" \in Pcs /\ Advance(p, "append_failure", 0, "none", task[p].result)
    BY <1>5 DEF Pcs, StorePcs, Goto
  <2>2. PICK t \in Task : /\ task' = [task EXCEPT ![p] = t]
                          /\ t.pc = "append_failure"
                          /\ t.wire = "none"
                          /\ t.request = r
    BY <1>2, <1>3, <2>1, AdvanceFacts
  <2>3. HandlerOK(t)
    BY <2>2 DEF HandlerOK
  <2> QED
    BY <1>1, <1>2, <1>5, <2>2, <2>3, Effect_Claim
<1>6. CASE UNCHANGED effects /\ Goto(p, "append_failure")
  <2>1. Advance(p, "append_failure", 0, "none", task[p].result)
    BY <1>6 DEF Goto
  <2> QED
    BY <1>1, <1>3, <1>6, <2>1, HandlerAdvances DEF Pcs, StorePcs, ServingPcs, OwnerPcs
<1> QED
  BY <1>2, <1>4, <1>5, <1>6 DEF Execute

\* An abandoned executor call may still take effect, for the claim it was made under.
LEMMA Abandon_Claim ==
    ASSUME ClaimInv, NEW p \in Tasks, Abandon(p)
    PROVE  ClaimInv' /\ (Once!OnceNext \/ UNCHANGED <<ledger, effects>>)
<1>1. Finish(p) /\ UNCHANGED ledger
  BY DEF Abandon, auditVars
<1>2. CASE UNCHANGED effects
  BY <1>1, <1>2, HandlerEnds
<1>3. CASE task[p].pc = "execute" /\ HappenOnce(task[p].request)
  <2>1. PICK r \in Requests : r = task[p].request
    BY <1>3, SoleOwner DEF OwnerPcs
  <2>2. PICK t \in Task : t = IdleTask
    BY IdleFacts
  <2>3. HandlerOK(t) /\ t.pc \notin OwnerPcs
    BY <2>2, IdleFacts DEF HandlerOK, OwnerPcs, ServingPcs
  <2>4. task' = [task EXCEPT ![p] = t]
    BY <1>1, <2>2 DEF Finish
  <2>5. HappenOnce(r)
    BY <1>3, <2>1
  <2> QED
    BY <1>1, <1>3, <2>1, <2>3, <2>4, <2>5, Effect_Claim
<1> QED
  BY <1>2, <1>3 DEF Abandon

\* Completing a claim settles it, after its one effect.
LEMMA Complete_Claim ==
    ASSUME ClaimInv, AuditInv, NEW p \in Tasks, Complete(p)
    PROVE  ClaimInv' /\ (Once!OnceNext \/ UNCHANGED <<ledger, effects>>)
<1>1. task[p].pc = "complete" /\ UNCHANGED effects
  BY DEF Complete
<1>2. PICK r \in Requests : r = task[p].request
  BY <1>1, SoleOwner DEF OwnerPcs
<1>3. PICK v \in Results : v = task[p].result /\ effects[r] = 1
  BY <1>1, <1>2 DEF ClaimInv, OwnerOK, OwnerPcs
<1>4. CASE CanComplete(r, v)
  <2>1. CompleteExecution(r, v) /\ Advance(p, "executed", 0, "none", task[p].result)
    BY <1>2, <1>3, <1>4 DEF Complete, Goto
  <2>2. /\ IsClaimedBy(r)
        /\ \A q \in Tasks \ {p} : task[q].pc \in OwnerPcs => SlotAt(q) # SlotOf[r]
    BY <1>1, <1>2, SoleOwner DEF OwnerPcs
  <2>3. /\ DOMAIN ledger' = DOMAIN ledger
        /\ ledger'[SlotOf[r]].request = r
        /\ ledger'[SlotOf[r]].state = "completed"
        /\ ledger'[SlotOf[r]].result = v
        /\ \A s \in DOMAIN ledger \ {SlotOf[r]} : ledger'[s] = ledger[s]
    BY <2>1, <2>2 DEF CompleteExecution, IsClaimedBy, HoldsRequest, AuditInv, AuditTypeOK
  <2>4. PICK t \in Task : /\ task' = [task EXCEPT ![p] = t]
                          /\ t.pc = "executed"
                          /\ t.wire = "none"
                          /\ t.request = r
    <3>1. PipelineTypeOK /\ "executed" \in Pcs /\ task[p].result \in Results \union {NoResult}
      BY <1>3 DEF ClaimInv, Pcs
    <3> QED
      BY <1>2, <2>1, <3>1, AdvanceFacts
  <2>5. HandlerOK(t) /\ t.pc \notin OwnerPcs
    BY <2>4 DEF HandlerOK, OwnerPcs
  <2>6. ResultsKept' /\ EffectsHeld'
    BY <1>1, <1>2, <2>2, <2>3 DEF ClaimInv, ResultsKept, EffectsHeld, HoldsRequest, IsClaimedBy
  <2>7. effects' \in [Requests -> Nat]
    BY <1>1 DEF ClaimInv, PipelineTypeOK
  <2>8. ClaimInv'
    <3>1. /\ \A s \in DOMAIN ledger \ {SlotOf[r]} : s \in DOMAIN ledger' /\ ledger'[s] = ledger[s]
          /\ \A q \in Requests : SlotOf[q] # SlotOf[r] => effects'[q] = effects[q]
          /\ t.pc \in OwnerPcs => t.request = r /\ OwnerOK(t)'
      BY <1>1, <2>3, <2>5
    <3> QED
      BY <2>2, <2>4, <2>5, <2>6, <2>7, <3>1, SlotMoves
  <2>9. Once!Settle(r, v)
    <3>1. Once!IsRunning(r)
      BY <2>2, ClaimedIsRunning
    <3>2. SlotOf[r] \in DOMAIN ledger
      BY <2>2 DEF IsClaimedBy, HoldsRequest
    <3> QED
      BY <1>1, <1>3, <2>3, <3>1, <3>2 DEF Once!Settle, Once!Entry
  <2> QED
    BY <2>8, <2>9 DEF Once!OnceNext
<1>5. CASE ~CanComplete(r, v)
  BY <1>1, <1>2, <1>3, <1>5, HandlerFails DEF Complete, auditVars
<1> QED
  BY <1>4, <1>5

\* Marking a claim gives it up, and its owner ends.
LEMMA Mark_Claim ==
    ASSUME ClaimInv, AuditInv, NEW p \in Tasks, Mark(p)
    PROVE  ClaimInv' /\ (Once!OnceNext \/ UNCHANGED <<ledger, effects>>)
<1>1. task[p].pc = "mark" /\ UNCHANGED effects /\ Finish(p)
  BY DEF Mark
<1>2. PICK r \in Requests : r = task[p].request
  BY <1>1, SoleOwner DEF OwnerPcs
<1>3. /\ IsClaimedBy(r)
      /\ \A q \in Tasks \ {p} : task[q].pc \in OwnerPcs => SlotAt(q) # SlotOf[r]
  BY <1>1, <1>2, SoleOwner DEF OwnerPcs
<1>4. /\ SlotOf[r] \in DOMAIN ledger
      /\ DOMAIN ledger' = DOMAIN ledger
      /\ ledger'[SlotOf[r]].request = r
      /\ ledger'[SlotOf[r]].state = "indeterminate"
      /\ ledger'[SlotOf[r]].result = NoResult
      /\ \A s \in DOMAIN ledger \ {SlotOf[r]} : ledger'[s] = ledger[s]
  <2>1. ledger[SlotOf[r]] \in ExecutionRecord /\ SlotOf[r] \in DOMAIN ledger
    BY <1>3 DEF IsClaimedBy, HoldsRequest, AuditInv, AuditTypeOK
  <2>2. ledger' = [ledger EXCEPT ![SlotOf[r]].state = "indeterminate"]
    BY <1>2, <1>3 DEF Mark, MarkIndeterminate
  <2>3. ledger[SlotOf[r]].result = NoResult /\ ledger[SlotOf[r]].request = r
    BY <1>3 DEF IsClaimedBy, HoldsRequest, ClaimInv, ResultsKept
  <2> QED
    BY <2>1, <2>2, <2>3 DEF AuditInv, AuditTypeOK, ExecutionRecord
<1>5. PICK t \in Task : t = IdleTask
  BY IdleFacts
<1>6. HandlerOK(t) /\ t.pc \notin OwnerPcs /\ task' = [task EXCEPT ![p] = t]
  BY <1>1, <1>5, IdleFacts DEF HandlerOK, OwnerPcs, ServingPcs, Finish
<1>7. ResultsKept' /\ EffectsHeld'
  BY <1>1, <1>2, <1>3, <1>4 DEF ClaimInv, ResultsKept, EffectsHeld, HoldsRequest, IsClaimedBy
<1>8. effects' \in [Requests -> Nat]
  BY <1>1 DEF ClaimInv, PipelineTypeOK
<1>9. ClaimInv'
  <2>1. /\ \A s \in DOMAIN ledger \ {SlotOf[r]} : s \in DOMAIN ledger' /\ ledger'[s] = ledger[s]
        /\ \A q \in Requests : SlotOf[q] # SlotOf[r] => effects'[q] = effects[q]
        /\ t.pc \in OwnerPcs => t.request = r /\ OwnerOK(t)'
    BY <1>1, <1>4, <1>6
  <2> QED
    BY <1>3, <1>6, <1>7, <1>8, <2>1, SlotMoves
<1>10. Once!GiveUp(r)
  <2>1. Once!IsRunning(r)
    BY <1>3, ClaimedIsRunning
  <2> QED
    BY <1>1, <1>4, <2>1 DEF Once!GiveUp, Once!Entry
<1> QED
  BY <1>9, <1>10 DEF Once!OnceNext

-----------------------------------------------------------------------------
(* Every step of the pipeline is a step of each component, or leaves it    *)
(* alone.                                                                  *)

\* Every step of the pipeline is a step of the audit store or leaves it alone.
LEMMA AuditStep ==
    ASSUME ClaimInv, AuditInv, [Next]_pipelineVars
    PROVE  [AuditNext]_auditVars
<1> DEFINE Given == ApprovalIds \union {NoApproval}
<1>1. \A p \in Tasks : /\ task[p].approval \in Given
                       /\ task[p].pc \in ServingPcs => task[p].request \in Requests
                       /\ task[p].pc = "complete" => task[p].result \in Results
  BY DEF ClaimInv, PipelineTypeOK, Task, HandlerOK, OwnerOK, OwnerPcs
<1>2. ASSUME NEW p \in Tasks, AppendIntent(p)
      PROVE  [AuditNext]_auditVars
  <2>1. task[p].request \in Requests
    BY <1>1, <1>2 DEF AppendIntent, ServingPcs
  <2>2. AppendEvent(IntentEvent(task[p].request, task[p].approval)) \/ UNCHANGED auditVars
    BY <1>2 DEF AppendIntent
  <2> QED
    BY <1>1, <2>1, <2>2 DEF AuditNext
<1>3. ASSUME NEW p \in Tasks, Acquire(p)
      PROVE  [AuditNext]_auditVars
  <2>1. task[p].request \in Requests
    BY <1>1, <1>3 DEF Acquire, ServingPcs
  <2>2. ClaimExecution(task[p].request, task[p].approval) \/ UNCHANGED auditVars
    BY <1>3 DEF Acquire
  <2> QED
    BY <1>1, <2>1, <2>2 DEF AuditNext
<1>4. ASSUME NEW p \in Tasks, AppendOutcome(p) \/ AppendFailure(p)
      PROVE  [AuditNext]_auditVars
  <2>1. task[p].request \in Requests
    BY <1>1, <1>4 DEF AppendOutcome, AppendFailure, ServingPcs, OwnerPcs
  <2>2. \/ \E v \in {"succeeded", "failed"} : AppendEvent(OutcomeEvent(task[p].request, v))
        \/ UNCHANGED auditVars
    BY <1>4 DEF AppendOutcome, AppendFailure
  <2> QED
    BY <2>1, <2>2 DEF AuditNext
<1>5. ASSUME NEW p \in Tasks, Complete(p)
      PROVE  [AuditNext]_auditVars
  <2>1. task[p].request \in Requests /\ task[p].result \in Results
    BY <1>1, <1>5 DEF Complete, ServingPcs, OwnerPcs
  <2>2. CompleteExecution(task[p].request, task[p].result) \/ UNCHANGED auditVars
    BY <1>5 DEF Complete
  <2> QED
    BY <2>1, <2>2 DEF AuditNext
<1>6. ASSUME NEW p \in Tasks, Mark(p)
      PROVE  [AuditNext]_auditVars
  <2>1. task[p].request \in Requests
    BY <1>1, <1>6 DEF Mark, ServingPcs, OwnerPcs
  <2>2. MarkIndeterminate(task[p].request) \/ UNCHANGED auditVars
    BY <1>6 DEF Mark
  <2> QED
    BY <2>1, <2>2 DEF AuditNext
<1>7. ASSUME NEW p \in Tasks, NEW s \in Slots, NEW o \in Actors, NEW c \in Conclusions,
             StartResolve(p, s, o, c)
      PROVE  [AuditNext]_auditVars
  BY <1>7 DEF StartResolve, AuditNext
<1>8. ASSUME NEW p \in Tasks, Finalize(p)
      PROVE  [AuditNext]_auditVars
  <2>1. CASE UNCHANGED auditVars
    BY <2>1
  <2>2. CASE FinalizeResolution(SlotAt(p), task[p].actor, task[p].conclusion, Witnessed)
    <3>1. /\ SlotAt(p) \in Slots
          /\ task[p].actor \in Actors
          /\ task[p].conclusion \in Conclusions
      BY <2>2 DEF FinalizeResolution, CanFinalize, ResolvedAs, AuditInv, AuditTypeOK,
                  ExecutionResolution
    <3> QED
      BY <2>2, <3>1, DispatchConstants DEF AuditNext
  <2> QED
    BY <1>8, <2>1, <2>2 DEF Finalize
<1>9. ASSUME NEW p \in Tasks, Block(p) \/ ReceiveReceipt(p) \/ Recover(p)
      PROVE  [AuditNext]_auditVars
  BY <1>9 DEF Block, ReceiveReceipt, AttachWitnessReceipt, Recover, CanRecover,
              RecoverWitnessedStream, AuditNext, AuditInv, AuditTypeOK
<1>10. ASSUME NEW p \in Tasks, TaskStep(p) \/ StartTask(p) \/ ServeCheckpoint(p)
                               \/ Abandon(p) \/ StorageFault(p)
       PROVE  [AuditNext]_auditVars
  <2>1. CASE \/ AppendIntent(p) \/ Acquire(p) \/ AppendOutcome(p) \/ AppendFailure(p)
             \/ Complete(p) \/ Mark(p) \/ Finalize(p)
             \/ Block(p) \/ ReceiveReceipt(p) \/ Recover(p)
    BY <1>2, <1>3, <1>4, <1>5, <1>6, <1>8, <1>9, <2>1
  <2>2. CASE \E s \in Slots, o \in Actors, c \in Conclusions : StartResolve(p, s, o, c)
    BY <1>7, <2>2
  <2>3. CASE \/ HumanGate(p) \/ LookUp(p) \/ Consume(p) \/ Execute(p) \/ Reply(p)
             \/ ReceiveRefusal(p) \/ Timeout(p) \/ StartRecover(p) \/ ServeCheckpoint(p)
             \/ Abandon(p) \/ StorageFault(p)
             \/ \E r \in Requests, a \in Given : StartDispatch(p, r, a)
    BY <2>3 DEF HumanGate, LookUp, Consume, Execute, Reply, ReceiveRefusal, Timeout, StartRecover,
                ServeCheckpoint, Abandon, StorageFault, StartDispatch
  <2> QED
    BY <1>10, <2>1, <2>2, <2>3 DEF TaskStep, StartTask
<1>11. CASE \/ \E n \in orphans : ServeOrphan(n)
            \/ \E i \in ApprovalIds, verdict \in {"approved", "denied"}, o \in Actors :
                  DecideApproval(i, verdict, o)
            \/ ListApprovals \/ ClockTick \/ Crash \/ UNCHANGED pipelineVars
  BY <1>11 DEF ServeOrphan, DecideApproval, ListApprovals, ClockTick, Crash, pipelineVars, auditVars
<1> QED
  BY <1>10, <1>11 DEF Next

\* A step keeps the claim invariant, and is one the abstract specification allows.
LEMMA ClaimStep ==
    ASSUME ClaimInv, AuditInv, AuditInv', [Next]_pipelineVars
    PROVE  ClaimInv' /\ (Once!OnceNext \/ UNCHANGED <<ledger, effects>>)
<1>1. ASSUME NEW p \in Tasks, TaskStep(p)
      PROVE  ClaimInv' /\ (Once!OnceNext \/ UNCHANGED <<ledger, effects>>)
  <2>1. CASE Acquire(p) \/ Execute(p) \/ Complete(p) \/ Mark(p)
    BY <2>1, Acquire_Claim, Execute_Claim, Complete_Claim, Mark_Claim
  <2>2. CASE \/ HumanGate(p) \/ LookUp(p) \/ AppendIntent(p) \/ Consume(p)
             \/ AppendOutcome(p) \/ AppendFailure(p) \/ ReceiveReceipt(p)
    <3>1. ClaimInv'
      BY <2>2, HumanGate_Claim, LookUp_Claim, AppendIntent_Claim, Consume_Claim,
         AppendOutcome_Claim, AppendFailure_Claim, ReceiveReceipt_Claim
    <3>2. UNCHANGED <<ledger, effects>>
      BY <2>2 DEF HumanGate, LookUp, AppendIntent, Consume, AppendOutcome, AppendFailure,
                  ReceiveReceipt, AppendEvent, AttachWitnessReceipt, auditVars
    <3> QED
      BY <3>1, <3>2
  <2>3. CASE \/ Block(p) \/ Reply(p) \/ ReceiveRefusal(p) \/ Timeout(p)
             \/ Finalize(p) \/ Recover(p)
    <3>1. ClaimInv'
      BY <2>3, QuietSteps_Claim
    <3>2. UNCHANGED <<ledger, effects>>
      BY <2>3 DEF Block, Reply, ReceiveRefusal, Timeout, Finalize, Recover, auditVars,
                  MarkStreamAmbiguous, FinalizeResolution, RecoverWitnessedStream
    <3> QED
      BY <3>1, <3>2
  <2> QED
    BY <1>1, <2>1, <2>2, <2>3 DEF TaskStep
<1>2. ASSUME NEW p \in Tasks, StartTask(p) \/ ServeCheckpoint(p) \/ StorageFault(p)
      PROVE  ClaimInv' /\ UNCHANGED <<ledger, effects>>
  <2>1. ClaimInv'
    BY <1>2, StartDispatch_Claim, StartResolve_Claim, StartRecover_Claim, ServeCheckpoint_Claim,
       QuietSteps_Claim DEF StartTask
  <2>2. UNCHANGED <<ledger, effects>>
    BY <1>2 DEF StartTask, StartDispatch, StartResolve, StartRecover, ServeCheckpoint, StorageFault,
                BeginResolution, auditVars
  <2> QED
    BY <2>1, <2>2
<1>3. CASE \/ \E n \in orphans : ServeOrphan(n)
           \/ \E i \in ApprovalIds, verdict \in {"approved", "denied"}, o \in Actors :
                 DecideApproval(i, verdict, o)
           \/ ListApprovals \/ ClockTick \/ UNCHANGED pipelineVars
  <2>1. UNCHANGED <<ledger, effects, task>>
    BY <1>3 DEF ServeOrphan, DecideApproval, ListApprovals, ClockTick, pipelineVars, auditVars
  <2> QED
    BY <2>1 DEF ClaimInv, PipelineTypeOK, OneOwner, ResultsKept, EffectsHeld, HandlerOK, OwnerOK,
                IsClaimedBy, HoldsRequest, SlotAt
<1>4. CASE Crash
  BY <1>4, Crash_Claim DEF Crash, auditVars
<1> QED
  BY <1>1, <1>2, <1>3, <1>4, Abandon_Claim DEF Next

-----------------------------------------------------------------------------
(* Theorems.                                                               *)

\* The invariants hold initially.
LEMMA Init_Claim == Init => ClaimInv /\ AuditInv /\ Once!OnceInit
<1> SUFFICES ASSUME Init PROVE ClaimInv /\ AuditInv /\ Once!OnceInit
  OBVIOUS
<1>1. AuditInv
  BY AuditInit_Inv DEF Init
<1>2. /\ task = [p \in Tasks |-> IdleTask]
      /\ effects = [r \in Requests |-> 0]
      /\ DOMAIN ledger = {}
  BY DEF Init, AuditInit
<1>3. HandlerOK(IdleTask) /\ IdleTask.pc \notin OwnerPcs /\ IdleTask \in Task
  BY IdleFacts DEF HandlerOK, OwnerPcs, ServingPcs
<1>4. ClaimInv
  BY <1>2, <1>3 DEF ClaimInv, PipelineTypeOK, OwnerOK, OneOwner, ResultsKept, EffectsHeld
<1>5. Once!OnceInit
  BY <1>2 DEF Once!OnceInit
<1> QED
  BY <1>1, <1>4, <1>5

\* The claim invariant holds of every behaviour of the pipeline, and with it the
\* invariant of the audit store.
THEOREM PipelineInvariant == Spec => [](ClaimInv /\ AuditInv)
<1>1. ClaimInv /\ AuditInv /\ [Next]_pipelineVars => (ClaimInv /\ AuditInv)'
  BY AuditStep, AuditNext_Inv, ClaimStep
<1> QED
  BY <1>1, Init_Claim, PTL DEF Spec

\* At most one side effect per idempotency key, for any number of concurrent,
\* retried, abandoned and crashed handlers.
THEOREM AtMostOnceTheorem == Spec => []AtMostOnce
<1>1. ClaimInv => AtMostOnce
  BY DEF ClaimInv, EffectsHeld, AtMostOnce, HoldsRequest, PipelineTypeOK
<1> QED
  BY <1>1, PipelineInvariant, PTL

\* The pipeline implements the execution guard's promise.
THEOREM RefinesOnceTheorem == Spec => RefinesOnce
<1>1. Init => Once!OnceInit
  BY Init_Claim
<1>2. /\ ClaimInv /\ AuditInv
      /\ (ClaimInv /\ AuditInv)'
      /\ [Next]_pipelineVars
      => [Once!OnceNext]_(Once!onceVars)
  BY ClaimStep DEF Once!onceVars
<1> QED
  BY <1>1, <1>2, PipelineInvariant, PTL DEF Spec, RefinesOnce, Once!OnceSpec

\* What handlers, operators and the witness do to the audit store are legal uses
\* of it, so what holds of the store alone holds in the pipeline.
THEOREM UsesAuditStore == Spec => AuditSpec
<1>1. Init => AuditInit
  BY DEF Init
<1>2. ClaimInv /\ AuditInv /\ [Next]_pipelineVars => [AuditNext]_auditVars
  BY AuditStep
<1> QED
  BY <1>1, <1>2, PipelineInvariant, PTL DEF Spec, AuditSpec

-----------------------------------------------------------------------------
(* Receipts.                                                               *)

\* A longer log has the rows of the shorter one.
LEMMA RowsStay ==
    ASSUME AuditInv, AuditInv', LogStep
    PROVE  /\ Len(log) \in Nat /\ Len(log') \in Nat /\ Len(log) <= Len(log')
           /\ DOMAIN log = 1..Len(log) /\ DOMAIN log' = 1..Len(log')
           /\ DOMAIN log \subseteq DOMAIN log'
  BY DEF AuditInv, AuditTypeOK, LogStep

\* A handler that sends nothing, or a row of the log, while the witness and the
\* attached receipts stay the same.
LEMMA HandlerSends ==
    ASSUME WireInv, ClaimInv, AuditInv, AuditInv', LogStep, NEW p \in Tasks, NEW t \in Task,
           task' = [task EXCEPT ![p] = t],
           t.wire = "none" \/ (t.wire = "sent" /\ t.row \in DOMAIN log'),
           orphans' \subseteq DOMAIN log,
           UNCHANGED <<attached, witnessReceipts, witnessHead>>
    PROVE  WireInv'
<1>1. task'[p] = t /\ \A q \in Tasks \ {p} : task'[q] = task[q]
  BY DEF ClaimInv, PipelineTypeOK
<1>2. \A q \in Tasks : WireOK(task[q])'
  BY <1>1, RowsStay DEF WireInv, WireOK
<1>3. ReceiptsTruthful'
  BY RowsStay DEF WireInv, ReceiptsTruthful
<1> QED
  BY <1>2, <1>3, RowsStay DEF WireInv

\* The handler p goes on without a checkpoint under way.
Silent(p) == \E t \in Task : task' = [task EXCEPT ![p] = t] /\ t.wire = "none"

\* The ways a handler moves without sending anything.
LEMMA SilentMoves ==
    ASSUME PipelineTypeOK, NEW p \in Tasks
    PROVE  /\ Finish(p) => Silent(p)
           /\ \A next \in Pcs : Goto(p, next) => Silent(p)
           /\ Fail(p) => Silent(p)
           /\ \A next \in Pcs, v \in Results \union {NoResult}, row \in Nat :
                 Advance(p, next, row, "none", v) => Silent(p)
<1>1. Finish(p) => Silent(p)
  BY IdleFacts DEF Finish, Silent
<1>2. ASSUME NEW next \in Pcs, NEW v \in Results \union {NoResult}, NEW row \in Nat,
             Advance(p, next, row, "none", v)
      PROVE  Silent(p)
  <2>1. \E t \in Task : task' = [task EXCEPT ![p] = t] /\ t.wire = "none"
    BY <1>2, AdvanceFacts
  <2> QED
    BY <2>1 DEF Silent
<1>3. ASSUME NEW next \in Pcs, Goto(p, next)
      PROVE  Silent(p)
  <2>1. task[p].result \in Results \union {NoResult}
    BY DEF PipelineTypeOK, Task
  <2> QED
    BY <1>2, <1>3, <2>1 DEF Goto
<1>4. ASSUME Fail(p)
      PROVE  Silent(p)
  <2>1. OnError(task[p].pc) \in {"block", "mark", "idle"}
    BY DEF OnError
  <2> QED
    BY <1>1, <1>3, <1>4, <2>1 DEF Fail, Pcs, StorePcs
<1> QED
  BY <1>1, <1>2, <1>3, <1>4

\* The steps that send no checkpoint keep the wire in order.
LEMMA SilentSteps ==
    ASSUME PipelineTypeOK, AuditInv, NEW p \in Tasks,
           \/ HumanGate(p) \/ LookUp(p) \/ Acquire(p) \/ Consume(p) \/ Execute(p) \/ Complete(p)
           \/ Block(p) \/ Mark(p) \/ Reply(p) \/ ReceiveRefusal(p) \/ Timeout(p)
           \/ Finalize(p) \/ Recover(p) \/ StorageFault(p) \/ Abandon(p)
    PROVE  Silent(p) /\ UNCHANGED <<attached, witnessReceipts, witnessHead>>
<1>1. UNCHANGED <<attached, witnessReceipts, witnessHead>>
  BY DEF HumanGate, LookUp, Acquire, Consume, Execute, Complete, Block, Mark, Reply, ReceiveRefusal,
         Timeout, Finalize, Recover, StorageFault, Abandon, ClaimExecution, CompleteExecution,
         MarkStreamAmbiguous, MarkIndeterminate, FinalizeResolution, RecoverWitnessedStream,
         auditVars, receiptVars
<1> SUFFICES Silent(p)
  BY <1>1
<1>2. task[p].result \in Results \union {NoResult}
  BY DEF PipelineTypeOK, Task
<1>3. CASE \/ Mark(p) \/ Reply(p) \/ ReceiveRefusal(p) \/ Timeout(p)
           \/ Finalize(p) \/ Recover(p) \/ StorageFault(p) \/ Abandon(p)
  BY <1>3, SilentMoves DEF Mark, Reply, ReceiveRefusal, Timeout, Finalize, Recover, StorageFault,
                           Abandon
<1>4. CASE HumanGate(p) \/ LookUp(p) \/ Consume(p) \/ Block(p)
  <2>1. Finish(p) \/ \E next \in Pcs : Goto(p, next)
    BY <1>4 DEF HumanGate, LookUp, Consume, Block, AfterRefusal, Pcs, StorePcs
  <2> QED
    BY <2>1, SilentMoves
<1>5. CASE Acquire(p)
  <2>1. CASE Fail(p) \/ Goto(p, "execute") \/ Goto(p, "consume")
    BY <2>1, SilentMoves DEF Pcs, StorePcs
  <2>2. CASE /\ IsReplayable(task[p].request)
             /\ Advance(p, "executed", 0, "none", ledger[SlotOf[task[p].request]].result)
    <3>1. ledger[SlotOf[task[p].request]].result \in Results \union {NoResult}
      BY <2>2 DEF IsReplayable, HoldsRequest, AuditInv, AuditTypeOK, ExecutionRecord
    <3> QED
      BY <2>2, <3>1, SilentMoves DEF Pcs
  <2> QED
    BY <1>5, <2>1, <2>2 DEF Acquire
<1>6. CASE Execute(p)
  <2>1. CASE Goto(p, "append_failure")
    BY <2>1, SilentMoves DEF Pcs, StorePcs
  <2>2. CASE \E v \in Results, next \in {"append_outcome", "complete"} : Advance(p, next, 0, "none", v)
    BY <2>2, SilentMoves DEF Pcs, StorePcs
  <2> QED
    BY <1>6, <2>1, <2>2 DEF Execute
<1>7. CASE Complete(p)
  BY <1>7, SilentMoves DEF Complete, Pcs
<1> QED
  BY <1>3, <1>4, <1>5, <1>6, <1>7

\* A row that is appended, or found, is a row of the log when it is sent.
LEMMA AppendSends ==
    ASSUME PipelineTypeOK, AuditInv, NEW p \in Tasks, NEW e \in Event, AppendEvent(e),
           NEW waiting \in AwaitPcs, NEW done \in Pcs, Checkpointed(p, RowFor(e), waiting, done)
    PROVE  \E t \in Task : /\ task' = [task EXCEPT ![p] = t]
                           /\ t.wire = "none" \/ (t.wire = "sent" /\ t.row \in DOMAIN log')
<1>1. RowFor(e) \in Nat /\ RowFor(e) \in DOMAIN log'
  BY AppendFacts DEF AppendEvent, AuditInv
<1>2. task[p].result \in Results \union {NoResult} /\ waiting \in Pcs
  BY DEF PipelineTypeOK, Task, Pcs
<1>3. CASE Advance(p, done, RowFor(e), "none", task[p].result)
  <2>1. \E t \in Task : task' = [task EXCEPT ![p] = t] /\ t.wire = "none"
    BY <1>1, <1>2, <1>3, AdvanceFacts
  <2> QED
    BY <2>1
<1>4. CASE Advance(p, waiting, RowFor(e), "sent", task[p].result)
  <2>1. \E t \in Task : task' = [task EXCEPT ![p] = t] /\ t.wire = "sent" /\ t.row = RowFor(e)
    BY <1>1, <1>2, <1>4, AdvanceFacts
  <2> QED
    BY <1>1, <2>1
<1> QED
  BY <1>3, <1>4 DEF Checkpointed

\* What the witness does with a checkpoint of a row of the log.
LEMMA WitnessServes ==
    ASSUME WireInv, AuditInv, NEW n \in DOMAIN log,
           Accept(CheckpointOf(n)) \/ Refuse(CheckpointOf(n)), UNCHANGED <<log, attached>>
    PROVE  /\ witnessHead'.seq \in Nat
           /\ ReceiptsTruthful'
           /\ DOMAIN witnessReceipts \subseteq DOMAIN witnessReceipts'
           /\ Accept(CheckpointOf(n)) => n \in DOMAIN witnessReceipts'
<1> DEFINE c == CheckpointOf(n)
<1>1. c.seq = n /\ n \in Nat /\ n <= Len(log)
  BY DEF CheckpointOf, AuditInv, AuditTypeOK
<1>2. CASE UNCHANGED <<witnessReceipts, witnessHead>>
  BY <1>1, <1>2 DEF WireInv, ReceiptsTruthful, Accept, Refuse, IsAcceptable, IsReplay, IsPreserved
<1>3. CASE /\ IsNext(c)
           /\ DOMAIN witnessReceipts' = DOMAIN witnessReceipts \union {c.seq}
           /\ witnessHead' = [seq |-> c.seq, hash |-> c.hash]
  <2>1. n = witnessHead.seq + 1 /\ witnessHead'.seq = n
    BY <1>1, <1>3 DEF IsNext
  <2> QED
    BY <1>1, <1>3, <2>1 DEF WireInv, ReceiptsTruthful
<1> QED
  BY <1>2, <1>3 DEF Accept, Refuse, IsAcceptable

\* Every step keeps the wire in order: receipts are attached to preserved rows only.
LEMMA WireStep ==
    ASSUME WireInv, ClaimInv, AuditInv, AuditInv', LogStep, [Next]_pipelineVars
    PROVE  WireInv'
<1> PipelineTypeOK
  BY DEF ClaimInv
<1>1. \A ps \in SUBSET Tasks : LeaveBehind(ps) => orphans' \subseteq DOMAIN log
  BY DEF LeaveBehind, WireInv, WireOK
<1>2. ASSUME NEW p \in Tasks,
             \/ HumanGate(p) \/ LookUp(p) \/ Acquire(p) \/ Consume(p) \/ Execute(p) \/ Complete(p)
             \/ Block(p) \/ Mark(p) \/ Reply(p) \/ ReceiveRefusal(p) \/ Timeout(p)
             \/ Finalize(p) \/ Recover(p) \/ StorageFault(p) \/ Abandon(p)
      PROVE  WireInv'
  <2>1. Silent(p) /\ UNCHANGED <<attached, witnessReceipts, witnessHead>>
    BY <1>2, SilentSteps
  <2>2. orphans' = orphans \/ LeaveBehind({p})
    BY <1>2 DEF HumanGate, LookUp, Acquire, Consume, Execute, Complete, Block, Mark, Reply,
                ReceiveRefusal, Timeout, Finalize, Recover, StorageFault, Abandon
  <2>3. orphans' \subseteq DOMAIN log
    BY <1>1, <2>2 DEF WireInv
  <2> QED
    BY <2>1, <2>3, HandlerSends DEF Silent
<1>3. ASSUME NEW p \in Tasks, AppendIntent(p) \/ AppendOutcome(p) \/ AppendFailure(p)
      PROVE  WireInv'
  <2>1. UNCHANGED <<attached, witnessReceipts, witnessHead, orphans>>
    BY <1>3 DEF AppendIntent, AppendOutcome, AppendFailure, AppendEvent, auditVars, receiptVars
  <2>2. orphans' \subseteq DOMAIN log
    BY <2>1 DEF WireInv
  <2>3. CASE Fail(p) \/ Goto(p, "mark")
    <3>1. Silent(p)
      BY <2>3, SilentMoves DEF Pcs, StorePcs
    <3> QED
      BY <2>1, <2>2, <3>1, HandlerSends DEF Silent
  <2>4. CASE \E e \in Event, waiting \in AwaitPcs, done \in Pcs :
                AppendEvent(e) /\ Checkpointed(p, RowFor(e), waiting, done)
    <3>1. \E t \in Task : /\ task' = [task EXCEPT ![p] = t]
                          /\ t.wire = "none" \/ (t.wire = "sent" /\ t.row \in DOMAIN log')
      BY <2>4, AppendSends
    <3> QED
      BY <2>1, <2>2, <3>1, HandlerSends
  <2>5. task[p].request \in Requests /\ task[p].approval \in ApprovalIds \union {NoApproval}
    BY <1>3 DEF AppendIntent, AppendOutcome, AppendFailure, ClaimInv, HandlerOK, ServingPcs, OwnerPcs,
                PipelineTypeOK, Task
  <2>6. /\ IntentEvent(task[p].request, task[p].approval) \in Event
        /\ OutcomeEvent(task[p].request, "succeeded") \in Event
        /\ OutcomeEvent(task[p].request, "failed") \in Event
    BY <2>5, EventTypes DEF AuditInv
  <2>7. /\ {"await_intent", "await_outcome", "await_failure"} \subseteq AwaitPcs
        /\ {"acquire", "complete", "mark"} \subseteq Pcs
    BY DEF AwaitPcs, Pcs, StorePcs
  <2> QED
    BY <1>3, <2>3, <2>4, <2>6, <2>7 DEF AppendIntent, AppendOutcome, AppendFailure
<1>4. ASSUME NEW p \in Tasks, NEW r \in Requests, NEW a \in ApprovalIds \union {NoApproval},
             StartDispatch(p, r, a)
      PROVE  WireInv'
  <2>1. Silent(p)
    BY <1>4, ServingFacts DEF StartDispatch, Silent
  <2>2. UNCHANGED <<attached, witnessReceipts, witnessHead, orphans>>
    BY <1>4 DEF StartDispatch, auditVars, receiptVars
  <2> QED
    BY <2>1, <2>2, HandlerSends DEF Silent, WireInv
<1>5. ASSUME NEW p \in Tasks, NEW s \in Slots, NEW o \in Actors, NEW c \in Conclusions,
             StartResolve(p, s, o, c)
      PROVE  WireInv'
  <2>1. UNCHANGED <<attached, witnessReceipts, witnessHead, orphans>> /\ s \in DOMAIN resolutions'
    BY <1>5 DEF StartResolve, BeginResolution, WithEntry, ResolvedAs, auditVars, receiptVars
  <2>2. resolutions'[s].row \in DOMAIN log'
    BY <2>1 DEF AuditInv, ConclusionsOnLog, ConclusionOnLog
  <2>3. ClaimInv'
    BY <1>5, StartResolve_Claim
  <2>4. PICK t \in Task : t = task'[p]
    BY <2>3 DEF ClaimInv, PipelineTypeOK
  <2> DEFINE done == ~Witnessed \/ resolutions'[s].finalized \/ resolutions'[s].row \in attached
             new  == [pc |-> IF done THEN "finalize" ELSE "await_resolution",
                      request |-> ledger[s].request, approval |-> NoApproval,
                      row |-> resolutions'[s].row, wire |-> IF done THEN "none" ELSE "sent",
                      result |-> NoResult, actor |-> o, conclusion |-> c]
  <2>5. task' = [task EXCEPT ![p] = new]
    BY <1>5 DEF StartResolve
  <2>6. new.wire \in {"none", "sent"} /\ new.row = resolutions'[s].row
    OBVIOUS
  <2> HIDE DEF new
  <2>7. /\ task' = [task EXCEPT ![p] = t]
        /\ t.wire \in {"none", "sent"}
        /\ t.row \in DOMAIN log'
    BY <2>2, <2>4, <2>5, <2>6 DEF PipelineTypeOK
  <2> QED
    BY <2>1, <2>7, HandlerSends DEF WireInv
<1>6. ASSUME NEW p \in Tasks, StartRecover(p)
      PROVE  WireInv'
  <2>1. /\ UNCHANGED <<attached, witnessReceipts, witnessHead, orphans, log>>
        /\ \/ Advance(p, "recover", Len(log), "none", task[p].result)
           \/ Advance(p, "await_head", Len(log), "sent", task[p].result)
    BY <1>6 DEF StartRecover, Checkpointed, auditVars, receiptVars
  <2>2. Len(log) \in DOMAIN log' /\ Len(log) \in Nat
    BY <1>6, <2>1 DEF StartRecover, AuditInv, AuditTypeOK
  <2>3. task[p].result \in Results \union {NoResult} /\ {"recover", "await_head"} \subseteq Pcs
    BY DEF PipelineTypeOK, Task, Pcs, StorePcs, AwaitPcs
  <2>4. CASE Advance(p, "recover", Len(log), "none", task[p].result)
    <3>1. Silent(p)
      BY <2>2, <2>3, <2>4, SilentMoves
    <3> QED
      BY <2>1, <3>1, HandlerSends DEF Silent, WireInv
  <2>5. CASE Advance(p, "await_head", Len(log), "sent", task[p].result)
    <3>1. \E t \in Task : task' = [task EXCEPT ![p] = t] /\ t.wire = "sent" /\ t.row = Len(log)
      BY <2>2, <2>3, <2>5, AdvanceFacts
    <3> QED
      BY <2>1, <2>2, <3>1, HandlerSends DEF WireInv
  <2> QED
    BY <2>1, <2>4, <2>5
<1>7. ASSUME NEW p \in Tasks, ReceiveReceipt(p)
      PROVE  WireInv'
  <2>1. /\ attached' = attached \union {task[p].row}
        /\ task[p].row \in DOMAIN witnessReceipts
        /\ UNCHANGED <<witnessReceipts, witnessHead, orphans, log>>
    BY <1>7 DEF ReceiveReceipt, AttachWitnessReceipt, receiptVars, WireInv, WireOK
  <2>2. task'[p].wire = "none" /\ \A q \in Tasks \ {p} : task'[q] = task[q]
    BY <1>7 DEF ReceiveReceipt, Advance, PipelineTypeOK
  <2>3. \A q \in Tasks : WireOK(task[q])'
    BY <2>1, <2>2 DEF WireInv, WireOK, PipelineTypeOK
  <2> QED
    BY <2>1, <2>3 DEF WireInv, ReceiptsTruthful
<1>8. ASSUME NEW p \in Tasks, ServeCheckpoint(p)
      PROVE  WireInv'
  <2> DEFINE n == task[p].row
  <2>1. n \in DOMAIN log /\ UNCHANGED <<log, attached, orphans>>
    BY <1>8 DEF ServeCheckpoint, auditVars, WireInv, WireOK
  <2>2. /\ Accept(CheckpointOf(n)) \/ Refuse(CheckpointOf(n))
        /\ \A q \in Tasks \ {p} : task'[q] = task[q]
        /\ task'[p].row = n
        /\ task'[p].wire = "refused" \/ (task'[p].wire = "accepted" /\ Accept(CheckpointOf(n)))
    BY <1>8 DEF ServeCheckpoint, Advance, PipelineTypeOK
  <2>3. PICK m \in DOMAIN log : m = n
    BY <2>1
  <2>4. /\ witnessHead'.seq \in Nat
        /\ ReceiptsTruthful'
        /\ DOMAIN witnessReceipts \subseteq DOMAIN witnessReceipts'
        /\ Accept(CheckpointOf(m)) => m \in DOMAIN witnessReceipts'
    BY <2>1, <2>2, <2>3, WitnessServes
  <2>5. \A q \in Tasks : WireOK(task[q])'
    BY <2>1, <2>2, <2>3, <2>4 DEF WireInv, WireOK, PipelineTypeOK
  <2> QED
    BY <2>1, <2>4, <2>5 DEF WireInv
<1>9. ASSUME NEW n \in orphans, ServeOrphan(n)
      PROVE  WireInv'
  <2>1. n \in DOMAIN log /\ UNCHANGED <<log, attached, task>> /\ orphans' \subseteq DOMAIN log
    BY <1>9 DEF ServeOrphan, auditVars, WireInv
  <2>2. /\ witnessHead'.seq \in Nat
        /\ ReceiptsTruthful'
        /\ DOMAIN witnessReceipts \subseteq DOMAIN witnessReceipts'
    BY <1>9, <2>1, WitnessServes DEF ServeOrphan
  <2> QED
    BY <2>1, <2>2 DEF WireInv, WireOK
<1>10. CASE Crash
  <2>1. /\ task' = [p \in Tasks |-> IdleTask]
        /\ orphans' \subseteq DOMAIN log
        /\ UNCHANGED <<log, attached, witnessReceipts, witnessHead>>
    BY <1>1, <1>10 DEF Crash, auditVars, receiptVars
  <2> QED
    BY <2>1, IdleFacts DEF WireInv, WireOK, ReceiptsTruthful
<1>11. CASE \/ \E i \in ApprovalIds, verdict \in {"approved", "denied"}, o \in Actors :
                  DecideApproval(i, verdict, o)
            \/ ListApprovals \/ ClockTick \/ UNCHANGED pipelineVars
  <2>1. UNCHANGED <<log, attached, witnessReceipts, witnessHead, task, orphans>>
    BY <1>11 DEF DecideApproval, ListApprovals, ClockTick, pipelineVars, auditVars, receiptVars
  <2> QED
    BY <2>1 DEF WireInv, WireOK, ReceiptsTruthful
<1> QED
  BY <1>2, <1>3, <1>4, <1>5, <1>6, <1>7, <1>8, <1>9, <1>10, <1>11 DEF Next, TaskStep, StartTask

\* Nothing is on its way initially.
LEMMA Init_Wire == Init => WireInv
<1> SUFFICES ASSUME Init PROVE WireInv
  OBVIOUS
<1>1. /\ log = <<>> /\ attached = {} /\ orphans = {}
      /\ witnessHead.seq = 0
      /\ DOMAIN witnessReceipts = {}
      /\ task = [p \in Tasks |-> IdleTask]
  BY DEF Init, AuditInit, WitnessInit, NoReceipts
<1> QED
  BY <1>1, IdleFacts DEF WireInv, WireOK, ReceiptsTruthful

\* The invariants of the pipeline together.
THEOREM FullInvariant == Spec => [](WireInv /\ ClaimInv /\ AuditInv)
<1>1. /\ WireInv /\ ClaimInv /\ AuditInv
      /\ [Next]_pipelineVars
      => (WireInv /\ ClaimInv /\ AuditInv)'
  BY AuditStep, AuditNext_Inv, ClaimStep, WireStep
<1> QED
  BY <1>1, Init_Claim, Init_Wire, PTL DEF Spec

\* A receipt is attached only to a row the witness preserves, and the witness
\* never runs ahead of the log, whatever checkpoints are lost, late or reordered.
THEOREM ReceiptsTruthfulTheorem == Spec => []ReceiptsTruthful
<1>1. WireInv => ReceiptsTruthful
  BY DEF WireInv
<1> QED
  BY <1>1, FullInvariant, PTL

\* A blocked stream is reopened only when the witness holds the whole local log.
LEMMA RecoveryStep ==
    ASSUME WireInv, AuditInv, [Next]_pipelineVars, stream = "blocked", stream' = "open"
    PROVE  witnessHead.seq = Len(log)
<1>1. \E p \in Tasks : Recover(p) /\ CanRecover(task[p].row)
  BY DEF Next, TaskStep, StartTask, HumanGate, LookUp, AppendIntent, Acquire, Consume, Execute,
         AppendOutcome, Complete, AppendFailure, Block, Mark, Reply, ReceiveReceipt, ReceiveRefusal,
         Timeout, Finalize, Recover, StartDispatch, StartResolve, StartRecover, ServeCheckpoint,
         Abandon, StorageFault, ServeOrphan, DecideApproval, ListApprovals, ClockTick, Crash,
         AppendEvent, ClaimExecution, CompleteExecution, MarkIndeterminate, BeginResolution,
         FinalizeResolution, MarkStreamAmbiguous, AttachWitnessReceipt, RecoverWitnessedStream,
         pipelineVars, auditVars
<1>2. Len(log) \in attached
  BY <1>1 DEF CanRecover
<1> QED
  BY <1>2 DEF WireInv, ReceiptsTruthful, AuditInv, AuditTypeOK

\* recover_witnessed_stream never reopens a stream that is ahead of its witness.
THEOREM RecoverySoundTheorem == Spec => RecoverySound
<1>1. WireInv /\ AuditInv /\ [Next]_pipelineVars
      => [stream = "blocked" /\ stream' = "open" => witnessHead.seq = Len(log)]_pipelineVars
  BY RecoveryStep
<1> QED
  BY <1>1, FullInvariant, PTL DEF Spec, RecoverySound

\* Once an operator has concluded an execution, no effect of its slot follows.
THEOREM ConcludedIsOverTheorem == Spec => ConcludedIsOver
<1>1. ASSUME ClaimInv, AuditInv, ClaimInv', AuditInv', [Next]_pipelineVars,
             NEW r \in Requests, SlotOf[r] \in DOMAIN resolutions
      PROVE  effects'[r] = effects[r]
  <2>1. Once!OnceNext \/ UNCHANGED <<ledger, effects>>
    BY <1>1, ClaimStep
  <2>2. SlotOf[r] \in DOMAIN ledger /\ ledger[SlotOf[r]].state = "indeterminate"
    BY <1>1 DEF AuditInv, ConclusionsOnLog, ConclusionOnLog
  <2>3. ~Once!IsRunning(r)
    BY <2>2 DEF Once!IsRunning, Once!Entry
  <2>4. ASSUME NEW q \in Requests, Once!Happen(q)
        PROVE  effects'[r] = effects[r]
    <3>1. q # r
      BY <2>3, <2>4 DEF Once!Happen
    <3>2. effects' = [effects EXCEPT ![q] = 1]
      BY <2>4 DEF Once!Happen
    <3> QED
      BY <1>1, <3>1, <3>2 DEF ClaimInv, PipelineTypeOK
  <2>5. (\E q \in Requests : Once!Happen(q)) \/ UNCHANGED effects
    BY <2>1 DEF Once!OnceNext, Once!Claim, Once!Settle, Once!GiveUp
  <2> QED
    BY <2>4, <2>5
<1>2. /\ ClaimInv /\ AuditInv
      /\ (ClaimInv /\ AuditInv)'
      /\ [Next]_pipelineVars
      => [\A r \in Requests : SlotOf[r] \in DOMAIN resolutions => effects'[r] = effects[r]]_pipelineVars
  BY <1>1
<1> QED
  BY <1>2, PipelineInvariant, PTL DEF Spec, ConcludedIsOver

-----------------------------------------------------------------------------
(* The approval store.                                                     *)

\* Every step of the pipeline is a step of the approval store or leaves it alone.
LEMMA ApprovalStep ==
    ASSUME ClaimInv, ApprovalInv, [Next]_pipelineVars
    PROVE  [ApprovalNext]_approvalVars
<1>1. ASSUME NEW p \in Tasks, HumanGate(p)
      PROVE  [ApprovalNext]_approvalVars
  <2>1. task[p].request \in Requests
    BY <1>1 DEF HumanGate, ClaimInv, HandlerOK, ServingPcs
  <2>2. \/ \E t \in ClockReadings, i \in ApprovalIds : CreateOrGetPending(task[p].request, t, i)
        \/ UNCHANGED approvalVars
    BY <1>1 DEF HumanGate
  <2> QED
    BY <2>1, <2>2 DEF ApprovalNext
<1>2. ASSUME NEW p \in Tasks, Consume(p)
      PROVE  [ApprovalNext]_approvalVars
  <2>1. task[p].request \in Requests
    BY <1>2 DEF Consume, ClaimInv, HandlerOK, ServingPcs, OwnerPcs
  <2>2. PICK t \in ClockReadings :
           \/ ConsumeApproved(task[p].approval, task[p].request, t)
           \/ RefuseConsumption(task[p].approval, task[p].request, t)
    BY <1>2 DEF Consume
  <2>3. CASE task[p].approval \in ApprovalIds
    BY <2>1, <2>2, <2>3 DEF ApprovalNext
  <2>4. CASE task[p].approval \notin ApprovalIds
    <3>1. task[p].approval \notin DOMAIN approvals
      BY <2>4 DEF ApprovalInv, ApprovalTypeOK
    <3> QED
      BY <2>2, <3>1 DEF ConsumeApproved, Consumable, RefuseConsumption, approvalVars
  <2> QED
    BY <2>3, <2>4
<1>3. ASSUME NEW i \in ApprovalIds, NEW verdict \in {"approved", "denied"}, NEW o \in Actors,
             DecideApproval(i, verdict, o)
      PROVE  [ApprovalNext]_approvalVars
  BY <1>3 DEF DecideApproval, ApprovalNext
<1>4. CASE ListApprovals
  BY <1>4 DEF ListApprovals, ApprovalNext
<1>5. CASE ClockTick
  BY <1>5 DEF ClockTick, ApprovalNext
<1>6. CASE UNCHANGED pipelineVars
  BY <1>6 DEF pipelineVars, approvalVars
<1>7. ASSUME NEW p \in Tasks, StartTask(p) \/ ServeCheckpoint(p) \/ Abandon(p) \/ StorageFault(p)
      PROVE  UNCHANGED approvalVars
  BY <1>7 DEF StartTask, StartDispatch, StartResolve, StartRecover, ServeCheckpoint, Abandon,
              StorageFault
<1>8. ASSUME NEW p \in Tasks, TaskStep(p), ~HumanGate(p), ~Consume(p)
      PROVE  UNCHANGED approvalVars
  BY <1>8 DEF TaskStep, LookUp, AppendIntent, Acquire, Execute, AppendOutcome, Complete,
              AppendFailure, Block, Mark, Reply, ReceiveReceipt, ReceiveRefusal, Timeout,
              Finalize, Recover
<1>9. ASSUME Crash \/ (\E n \in orphans : ServeOrphan(n))
      PROVE  UNCHANGED approvalVars
  BY <1>9 DEF Crash, ServeOrphan
<1> QED
  BY <1>1, <1>2, <1>3, <1>4, <1>5, <1>6, <1>7, <1>8, <1>9 DEF Next

\* The table of approvals keeps its invariant under the pipeline.
LEMMA ApprovalInvariantHere == Spec => [](ClaimInv /\ ApprovalInv)
<1>1. Init => ApprovalInv
  BY ApprovalInit_Inv DEF Init
<1>2. ClaimInv /\ ApprovalInv /\ [Next]_pipelineVars => ApprovalInv'
  BY ApprovalStep, ApprovalNext_Inv
<1> QED
  BY <1>1, <1>2, PipelineInvariant, PTL DEF Spec

\* The pipeline uses the approval store only through its operations: whatever is
\* proved of the store alone holds of it here.
THEOREM UsesApprovalStore == Spec => ApprovalSpec
<1>1. Init => ApprovalInit
  BY DEF Init
<1>2. ClaimInv /\ ApprovalInv /\ [Next]_pipelineVars => [ApprovalNext]_approvalVars
  BY ApprovalStep
<1> QED
  BY <1>1, <1>2, ApprovalInvariantHere, PTL DEF Spec, ApprovalSpec

-----------------------------------------------------------------------------
(* Evidence: what steps do to the stores.                                  *)

\* The audit store forgets nothing: rows and receipts stay, and so do the
\* request and the intent of every execution.
LEMMA AuditKeeps ==
    ASSUME AuditInv, [AuditNext]_auditVars
    PROVE  /\ attached \subseteq attached'
           /\ \A n \in DOMAIN log : n \in DOMAIN log' /\ log'[n] = log[n]
           /\ \A s \in DOMAIN ledger : /\ s \in DOMAIN ledger'
                                       /\ ledger'[s].request = ledger[s].request
                                       /\ ledger'[s].intent = ledger[s].intent
                                       /\ ledger[s].state # "claimed" => ledger'[s] = ledger[s]
<1>1. AuditInv' /\ LedgerStep /\ LogStep
  BY AuditNext_Inv
<1>2. \A n \in DOMAIN log : n \in DOMAIN log' /\ log'[n] = log[n]
  BY <1>1, RowsStay DEF LogStep
<1>3. attached \subseteq attached'
  BY DEF AuditNext, auditVars, AppendEvent, ClaimExecution, CompleteExecution, MarkIndeterminate,
         BeginResolution, FinalizeResolution, MarkStreamAmbiguous, AttachWitnessReceipt,
         RecoverWitnessedStream
<1>4. ASSUME NEW s \in DOMAIN ledger
      PROVE  ledger'[s].intent = ledger[s].intent
  <2>1. CASE ledger' = ledger
    BY <2>1
  <2>2. ASSUME NEW r \in Requests, NEW a \in ApprovalIds \union {NoApproval}, ClaimExecution(r, a)
        PROVE  ledger'[s] = ledger[s]
    BY <2>2 DEF ClaimExecution, CanClaim, IsUnclaimed, WithEntry
  <2>3. ASSUME NEW r \in Requests, NEW v \in Results, CompleteExecution(r, v)
        PROVE  ledger'[s].intent = ledger[s].intent
    BY <2>3 DEF CompleteExecution
  <2>4. ASSUME NEW r \in Requests, MarkIndeterminate(r)
        PROVE  ledger'[s].intent = ledger[s].intent
    BY <2>4 DEF MarkIndeterminate, AuditInv, AuditTypeOK, ExecutionRecord
  <2> QED
    BY <2>1, <2>2, <2>3, <2>4 DEF AuditNext, auditVars, AppendEvent, BeginResolution,
       FinalizeResolution, MarkStreamAmbiguous, AttachWitnessReceipt, RecoverWitnessedStream
<1> QED
  BY <1>1, <1>2, <1>3, <1>4 DEF LedgerStep

\* An approval that was given stays given, by the same actor and for the same
\* request, and a spent one stays spent.
LEMMA ApprovalKeeps ==
    ASSUME ApprovalInv, [ApprovalNext]_approvalVars, NEW i \in DOMAIN approvals
    PROVE  /\ i \in DOMAIN approvals'
           /\ approvals'[i].request = approvals[i].request
           /\ approvals[i].status = "consumed" => approvals'[i].status = "consumed"
           /\ approvals[i].status # "pending" => approvals'[i].actor = approvals[i].actor
           /\ \A r : Favours(i, r) => Favours(i, r)'
<1>1. ApprovalInv' /\ LifecycleStep
  BY ApprovalNext_Inv, LifecycleLemma
<1>2. approvals[i].status # "pending" => approvals'[i].actor = approvals[i].actor
  <2> SUFFICES ASSUME approvals[i].status # "pending"
               PROVE  approvals'[i].actor = approvals[i].actor
    OBVIOUS
  <2>1. approvals[i] \in Approval
    BY DEF ApprovalInv, ApprovalTypeOK
  <2>2. CASE UNCHANGED approvals
    BY <2>2
  <2>3. ASSUME NEW t \in ClockReadings
        PROVE  ExpireOverdue(t)[i].actor = approvals[i].actor
    BY <2>1 DEF ExpireOverdue, Approval
  <2>4. ASSUME NEW t \in ClockReadings, NEW r \in Requests, NEW j \in ApprovalIds,
               CreateOrGetPending(r, t, j)
        PROVE  approvals'[i].actor = approvals[i].actor
    <3>1. DOMAIN ExpireOverdue(t) = DOMAIN approvals
      BY DEF ExpireOverdue
    <3>2. approvals'[i] = ExpireOverdue(t)[i]
      BY <2>4, <3>1 DEF CreateOrGetPending, WithRow
    <3> QED
      BY <2>3, <3>2
  <2>5. ASSUME NEW j \in ApprovalIds, NEW verdict \in {"approved", "denied"}, NEW o \in Actors,
               NEW t \in ClockReadings, Decide(j, verdict, o, t)
        PROVE  approvals'[i].actor = approvals[i].actor
    BY <2>5 DEF Decide
  <2>6. ASSUME NEW j \in ApprovalIds, NEW r \in Requests, NEW t \in ClockReadings,
               ConsumeApproved(j, r, t) \/ RefuseConsumption(j, r, t)
        PROVE  approvals'[i].actor = approvals[i].actor
    BY <2>1, <2>6 DEF ConsumeApproved, RefuseConsumption, Approval
  <2> QED
    BY <2>2, <2>3, <2>4, <2>5, <2>6 DEF ApprovalNext, approvalVars, Tick, Expire
<1>3. i \in DOMAIN approvals' /\ approvals'[i].request = approvals[i].request
  BY <1>1 DEF LifecycleStep
<1>4. approvals[i].status = "consumed" => approvals'[i].status = "consumed"
  BY <1>1 DEF LifecycleStep
<1>5. approvals[i].status \in {"approved", "consumed", "expired"} =>
         approvals'[i].status \in {"approved", "consumed", "expired"}
  BY <1>1 DEF LifecycleStep
<1> QED
  BY <1>2, <1>3, <1>4, <1>5 DEF Favours

\* Which step brings about a claim, a result, an effect or an approval.
LEMMA WhoSettles ==
    ASSUME [Next]_pipelineVars, ledger' # ledger
    PROVE  \E p \in Tasks : Acquire(p) \/ Complete(p) \/ Mark(p)
<1>1. ASSUME NEW p \in Tasks, TaskStep(p)
      PROVE  Acquire(p) \/ Complete(p) \/ Mark(p)
  BY <1>1 DEF TaskStep, HumanGate, LookUp, AppendIntent, Consume, Execute, AppendOutcome,
     AppendFailure, Block, Reply, ReceiveReceipt, ReceiveRefusal, Timeout, Finalize, Recover,
     AppendEvent, FinalizeResolution, MarkStreamAmbiguous, AttachWitnessReceipt,
     RecoverWitnessedStream, auditVars
<1>2. ASSUME NEW p \in Tasks, StartTask(p) \/ ServeCheckpoint(p) \/ Abandon(p) \/ StorageFault(p)
      PROVE  FALSE
  BY <1>2 DEF StartTask, StartDispatch, StartResolve, StartRecover, ServeCheckpoint, Abandon,
     StorageFault, BeginResolution, auditVars
<1> QED
  BY <1>1, <1>2 DEF Next, ServeOrphan, DecideApproval, ListApprovals, ClockTick, Crash,
     pipelineVars, auditVars

LEMMA WhoClaims ==
    ASSUME AuditInv, [Next]_pipelineVars, NEW s \in DOMAIN ledger', s \notin DOMAIN ledger
    PROVE  \E p \in Tasks : /\ Acquire(p)
                            /\ ClaimExecution(task[p].request, task[p].approval)
                            /\ s = SlotAt(p)
<1>1. ASSUME NEW p \in Tasks, Acquire(p)
      PROVE  ClaimExecution(task[p].request, task[p].approval) /\ s = SlotAt(p)
  BY <1>1 DEF Acquire, ClaimExecution, WithEntry, SlotAt, auditVars
<1>2. ASSUME NEW p \in Tasks, Complete(p) \/ Mark(p)
      PROVE  FALSE
  BY <1>2 DEF Complete, Mark, CompleteExecution, MarkIndeterminate, auditVars
<1> QED
  BY <1>1, <1>2, WhoSettles

LEMMA WhoCompletes ==
    ASSUME AuditInv, [Next]_pipelineVars, NEW s \in DOMAIN ledger, s \in DOMAIN ledger',
           ledger'[s].state = "completed", ledger[s].state # "completed"
    PROVE  \E p \in Tasks : /\ Complete(p)
                            /\ CompleteExecution(task[p].request, task[p].result)
                            /\ s = SlotAt(p)
<1>1. ASSUME NEW p \in Tasks, Complete(p)
      PROVE  CompleteExecution(task[p].request, task[p].result) /\ s = SlotAt(p)
  BY <1>1 DEF Complete, CompleteExecution, SlotAt, auditVars
<1>2. ASSUME NEW p \in Tasks, Acquire(p) \/ Mark(p)
      PROVE  FALSE
  <2>1. ledger[s] \in ExecutionRecord
    BY DEF AuditInv, AuditTypeOK
  <2> QED
    BY <1>2, <2>1 DEF Acquire, Mark, ClaimExecution, CanClaim, IsUnclaimed, WithEntry,
       MarkIndeterminate, auditVars, ExecutionRecord
<1> QED
  BY <1>1, <1>2, WhoSettles

LEMMA WhoActs ==
    ASSUME ClaimInv, [Next]_pipelineVars
    PROVE  \A r \in Requests : effects'[r] # effects[r] =>
              \E p \in Tasks : task[p].pc = "execute" /\ task[p].request = r
<1> SUFFICES ASSUME NEW r \in Requests, effects'[r] # effects[r]
             PROVE  \E p \in Tasks : task[p].pc = "execute" /\ task[p].request = r
  OBVIOUS
<1>1. \E p \in Tasks : task[p].pc = "execute" /\ HappenOnce(task[p].request)
  BY DEF Next, TaskStep, StartTask, HumanGate, LookUp, AppendIntent, Acquire, Consume, Execute,
         AppendOutcome, Complete, AppendFailure, Block, Mark, Reply, ReceiveReceipt, ReceiveRefusal,
         Timeout, Finalize, Recover, StartDispatch, StartResolve, StartRecover, ServeCheckpoint,
         Abandon, StorageFault, ServeOrphan, DecideApproval, ListApprovals, ClockTick, Crash,
         pipelineVars
<1> QED
  BY <1>1 DEF HappenOnce, ClaimInv, PipelineTypeOK

LEMMA WhoApproves ==
    ASSUME ApprovalInv, [Next]_pipelineVars,
           ~\E i \in ApprovalIds, o \in Actors : DecideApproval(i, "approved", o)
    PROVE  \A i \in DOMAIN approvals' : approvals'[i].status \in {"approved", "consumed"} =>
              i \in DOMAIN approvals /\ approvals[i].status \in {"approved", "consumed"}
<1> SUFFICES ASSUME NEW i \in DOMAIN approvals', approvals'[i].status \in {"approved", "consumed"}
             PROVE  i \in DOMAIN approvals /\ approvals[i].status \in {"approved", "consumed"}
  OBVIOUS
<1>0. \A j \in DOMAIN approvals : approvals[j] \in Approval
  BY DEF ApprovalInv, ApprovalTypeOK
<1>1. CASE UNCHANGED approvals
  BY <1>1
<1>2. ASSUME NEW t
      PROVE  /\ DOMAIN ExpireOverdue(t) = DOMAIN approvals
             /\ \A j \in DOMAIN approvals :
                   ExpireOverdue(t)[j].status \in {"approved", "consumed"} =>
                      approvals[j].status \in {"approved", "consumed"}
  BY <1>0 DEF ExpireOverdue, Approval
<1>3. ASSUME NEW p \in Tasks, HumanGate(p)
      PROVE  i \in DOMAIN approvals /\ approvals[i].status \in {"approved", "consumed"}
  <2>1. ASSUME NEW r, NEW t, NEW j, CreateOrGetPending(r, t, j)
        PROVE  i \in DOMAIN approvals /\ approvals[i].status \in {"approved", "consumed"}
    BY <1>2, <2>1 DEF CreateOrGetPending, WithRow, NewApproval
  <2> QED
    BY <1>1, <1>3, <2>1 DEF HumanGate, approvalVars
<1>4. ASSUME NEW p \in Tasks, Consume(p)
      PROVE  i \in DOMAIN approvals /\ approvals[i].status \in {"approved", "consumed"}
  BY <1>0, <1>4 DEF Consume, ConsumeApproved, Consumable, RefuseConsumption, Approval
<1>5. ASSUME NEW j \in ApprovalIds, NEW o \in Actors, DecideApproval(j, "denied", o)
      PROVE  i \in DOMAIN approvals /\ approvals[i].status \in {"approved", "consumed"}
  BY <1>0, <1>5 DEF DecideApproval, Decide, Approval
<1>6. CASE ListApprovals
  BY <1>2, <1>6 DEF ListApprovals, Expire
<1>7. \/ UNCHANGED approvals
      \/ \E p \in Tasks : HumanGate(p) \/ Consume(p)
      \/ \E j \in ApprovalIds, verdict \in {"approved", "denied"}, o \in Actors :
            DecideApproval(j, verdict, o)
      \/ ListApprovals
  BY DEF Next, TaskStep, StartTask, LookUp, AppendIntent, Acquire, Execute,
         AppendOutcome, Complete, AppendFailure, Block, Mark, Reply, ReceiveReceipt, ReceiveRefusal,
         Timeout, Finalize, Recover, StartDispatch, StartResolve, StartRecover, ServeCheckpoint,
         Abandon, StorageFault, ServeOrphan, ClockTick, Tick, Crash, pipelineVars, approvalVars
<1> QED
  BY <1>1, <1>3, <1>4, <1>5, <1>6, <1>7

-----------------------------------------------------------------------------
(* Evidence: handlers.                                                     *)

\* The calls before which a handler has something to show.
EvidencePcs == {"lookup", "append_intent", "await_intent", "acquire", "consume", "execute",
                "await_outcome", "complete", "executed"}

LEMMA NothingToShow ==
    ASSUME NEW t, t.pc \notin EvidencePcs
    PROVE  EvidenceOK(t) /\ EvidenceOK(t)'
  BY DEF EvidencePcs, EvidenceOK, RowOK, AnswerOK, PermitOK

\* The approval that a claim cites stays the same.
LEMMA CitedStays ==
    ASSUME AuditInv, [AuditNext]_auditVars, NEW r \in Requests, HoldsRequest(r)
    PROVE  HoldsRequest(r)' /\ CitedApproval(r)' = CitedApproval(r)
<1>1. ledger[SlotOf[r]].intent \in DOMAIN log
  BY DEF HoldsRequest, AuditInv, LedgerOnLog, ExecutionOnLog
<1> QED
  BY <1>1, AuditKeeps DEF HoldsRequest, CitedApproval

\* What a handler has to show does not vanish while others move.
LEMMA EvidenceStays ==
    ASSUME EvidenceInv, ClaimInv, AuditInv, ApprovalInv, [AuditNext]_auditVars,
           [ApprovalNext]_approvalVars, NEW p \in Tasks, task'[p] = task[p]
    PROVE  EvidenceOK(task[p])'
<1> EvidenceOK(task[p]) /\ HandlerOK(task[p]) /\ OwnerOK(task[p])
  BY DEF EvidenceInv, ClaimInv
<1>1. RowOK(task[p])'
  BY AuditKeeps DEF EvidenceOK, RowOK, IsOnRecord, IsUnclaimed, IntentEvent, OutcomeEvent
<1>2. AnswerOK(task[p])'
  BY AuditKeeps DEF EvidenceOK, AnswerOK, HoldsRequest
<1>3. PermitOK(task[p])'
  <2> SUFFICES ASSUME task[p].request \in NeedsApproval
               PROVE  PermitOK(task[p])'
    BY DEF PermitOK
  <2> DEFINE r == task[p].request
  <2>0. r \in Requests
    BY DispatchConstants
  <2>1. Favours(task[p].approval, r) => Favours(task[p].approval, r)'
    BY ApprovalKeeps DEF Favours
  <2>2. CASE task[p].pc \in {"consume", "execute"}
    <3>1. HoldsRequest(r)
      BY <2>2 DEF OwnerOK, OwnerPcs, IsClaimedBy
    <3>2. CitedApproval(r)' = CitedApproval(r)
      BY <2>0, <3>1, CitedStays
    <3>3. CitedApproval(r) \in DOMAIN approvals
      BY <3>1 DEF EvidenceInv, ClaimedUnderApproval
    <3>4. approvals[CitedApproval(r)].status = "consumed" =>
             approvals'[CitedApproval(r)].status = "consumed"
      BY <3>3, ApprovalKeeps
    <3> QED
      BY <2>2, <3>2, <3>4 DEF EvidenceOK, PermitOK
  <2>3. CASE task[p].pc \notin {"consume", "execute"}
    BY <2>1, <2>3 DEF EvidenceOK, PermitOK
  <2> QED
    BY <2>2, <2>3
<1> QED
  BY <1>1, <1>2, <1>3 DEF EvidenceOK

\* A handler moves, and can show what its next call needs.
ShowsAs(p, t) == task' = [task EXCEPT ![p] = t] /\ EvidenceOK(t)'

\* A handler that ends, fails or goes on to a call that needs no evidence.
LEMMA PlainMoves ==
    ASSUME PipelineTypeOK, NEW p \in Tasks
    PROVE  /\ Finish(p) => \E t \in Task : ShowsAs(p, t)
           /\ Fail(p) => \E t \in Task : ShowsAs(p, t)
           /\ \A next \in Pcs \ EvidencePcs, row \in Nat, v \in Results \union {NoResult},
                 wire \in {"none", "sent", "accepted", "refused"} :
                 Advance(p, next, row, wire, v) => \E t \in Task : ShowsAs(p, t)
<1>1. Finish(p) => \E t \in Task : ShowsAs(p, t)
  <2>1. IdleTask.pc \notin EvidencePcs
    BY IdleFacts DEF EvidencePcs
  <2> QED
    BY <2>1, IdleFacts, NothingToShow DEF Finish, ShowsAs
<1>2. ASSUME NEW next \in Pcs \ EvidencePcs, NEW row \in Nat, NEW v \in Results \union {NoResult},
             NEW wire \in {"none", "sent", "accepted", "refused"}, Advance(p, next, row, wire, v)
      PROVE  \E t \in Task : ShowsAs(p, t)
  <2>1. PICK t \in Task : task' = [task EXCEPT ![p] = t] /\ t.pc = next
    BY <1>2, AdvanceFacts
  <2> QED
    BY <2>1, NothingToShow DEF ShowsAs
<1>3. Fail(p) => \E t \in Task : ShowsAs(p, t)
  <2> SUFFICES ASSUME Fail(p) PROVE \E t \in Task : ShowsAs(p, t)
    OBVIOUS
  <2>1. OnError(task[p].pc) \in {"block", "mark", "idle"}
    BY DEF OnError
  <2>2. CASE OnError(task[p].pc) = "idle"
    BY <1>1, <2>2 DEF Fail
  <2>3. CASE OnError(task[p].pc) # "idle"
    <3>1. Advance(p, OnError(task[p].pc), 0, "none", task[p].result)
      BY <2>3 DEF Fail, Goto
    <3>2. OnError(task[p].pc) \in Pcs \ EvidencePcs /\ task[p].result \in Results \union {NoResult}
      BY <2>1, <2>3 DEF Pcs, StorePcs, EvidencePcs, PipelineTypeOK, Task
    <3> QED
      BY <1>2, <3>1, <3>2
  <2> QED
    BY <2>2, <2>3
<1> QED
  BY <1>1, <1>2, <1>3

\* Behind the human gate an approval was given.
LEMMA HumanGate_Evidence ==
    ASSUME ClaimInv, ApprovalInv, NEW p \in Tasks, HumanGate(p)
    PROVE  \E t \in Task : ShowsAs(p, t)
<1> PipelineTypeOK
  BY DEF ClaimInv
<1>1. CASE Finish(p)
  BY <1>1, PlainMoves
<1>2. CASE ~Finish(p)
  <2> DEFINE next == IF Witnessed THEN "lookup" ELSE "acquire"
  <2>1. /\ HumanGateAllows(task[p].request, task[p].approval)
        /\ Advance(p, next, 0, "none", task[p].result)
        /\ UNCHANGED approvals
    BY <1>2 DEF HumanGate, Goto, approvalVars
  <2>2. next \in Pcs /\ task[p].result \in Results \union {NoResult}
    BY DEF PipelineTypeOK, Task, Pcs, StorePcs
  <2> HIDE DEF next
  <2>3. PICK t \in Task : /\ task' = [task EXCEPT ![p] = t]
                          /\ t.pc = next
                          /\ t.request = task[p].request
                          /\ t.approval = task[p].approval
    BY <2>1, <2>2, AdvanceFacts
  <2>4. t.request \in NeedsApproval => Favours(t.approval, t.request)'
    BY <2>1, <2>3 DEF HumanGateAllows, EffectiveStatus, Favours, ApprovalInv, RowHistory
  <2>5. EvidenceOK(t)'
    BY <2>3, <2>4 DEF next, EvidenceOK, RowOK, AnswerOK, PermitOK
  <2> QED
    BY <2>3, <2>5 DEF ShowsAs
<1> QED
  BY <1>1, <1>2

\* A lookup skips the intent only for a slot that is taken, and for good.
LEMMA LookUp_Evidence ==
    ASSUME EvidenceInv, ClaimInv, NEW p \in Tasks, LookUp(p)
    PROVE  \E t \in Task : ShowsAs(p, t)
<1> DEFINE next == IF IsUnclaimed(SlotAt(p)) THEN "append_intent" ELSE "acquire"
<1>1. /\ task[p].pc = "lookup"
      /\ Advance(p, next, 0, "none", task[p].result)
      /\ UNCHANGED <<approvals, ledger>>
  BY DEF LookUp, Goto, approvalVars, auditVars
<1>2. next \in Pcs /\ task[p].result \in Results \union {NoResult} /\ PipelineTypeOK
  BY DEF ClaimInv, PipelineTypeOK, Task, Pcs, StorePcs
<1>3. EvidenceOK(task[p])
  BY DEF EvidenceInv
<1> HIDE DEF next
<1>4. PICK t \in Task : /\ task' = [task EXCEPT ![p] = t]
                        /\ t.pc = next
                        /\ t.request = task[p].request
                        /\ t.approval = task[p].approval
  BY <1>1, <1>2, AdvanceFacts
<1>5. EvidenceOK(t)'
  BY <1>1, <1>3, <1>4 DEF next, EvidenceOK, RowOK, AnswerOK, PermitOK, Favours, IsUnclaimed, SlotAt
<1> QED
  BY <1>4, <1>5 DEF ShowsAs

\* A row that was just appended, or found, holds its event.
LEMMA AppendShows ==
    ASSUME PipelineTypeOK, AuditInv, NEW p \in Tasks, NEW e \in Event, AppendEvent(e),
           NEW waiting \in AwaitPcs, NEW done \in Pcs, Checkpointed(p, RowFor(e), waiting, done)
    PROVE  \E t \in Task : /\ task' = [task EXCEPT ![p] = t]
                           /\ t.request = task[p].request
                           /\ t.approval = task[p].approval
                           /\ t.row \in DOMAIN log' /\ log'[t.row] = e
                           /\ t.pc = waiting \/ (t.pc = done /\ t.row \in attached')
<1>1. /\ RowFor(e) \in Nat /\ RowFor(e) \in DOMAIN log' /\ log'[RowFor(e)] = e
      /\ attached' = attached
  BY AppendFacts DEF AppendEvent, AuditInv
<1>2. task[p].result \in Results \union {NoResult} /\ waiting \in Pcs
  BY DEF PipelineTypeOK, Task, Pcs
<1>3. CASE Advance(p, done, RowFor(e), "none", task[p].result) /\ RowFor(e) \in attached
  <2>1. PICK t \in Task : /\ task' = [task EXCEPT ![p] = t]
                          /\ t.request = task[p].request
                          /\ t.approval = task[p].approval
                          /\ t.row = RowFor(e) /\ t.pc = done
    BY <1>1, <1>2, <1>3, AdvanceFacts
  <2> QED
    BY <1>1, <1>3, <2>1
<1>4. CASE Advance(p, waiting, RowFor(e), "sent", task[p].result)
  <2>1. PICK t \in Task : /\ task' = [task EXCEPT ![p] = t]
                          /\ t.request = task[p].request
                          /\ t.approval = task[p].approval
                          /\ t.row = RowFor(e) /\ t.pc = waiting
    BY <1>1, <1>2, <1>4, AdvanceFacts
  <2> QED
    BY <1>1, <2>1
<1> QED
  BY <1>3, <1>4 DEF Checkpointed

\* The row of an intent holds the approval that was brought along.
LEMMA AppendIntent_Evidence ==
    ASSUME EvidenceInv, ClaimInv, AuditInv, NEW p \in Tasks, AppendIntent(p)
    PROVE  \E t \in Task : ShowsAs(p, t)
<1> DEFINE e == IntentEvent(task[p].request, task[p].approval)
<1>1. task[p].pc = "append_intent" /\ UNCHANGED approvals
  BY DEF AppendIntent, approvalVars
<1>2. PipelineTypeOK /\ EvidenceOK(task[p])
  BY DEF ClaimInv, EvidenceInv
<1>3. CASE CanAppend(e)
  <2>1. e \in Event
    BY <1>1, EventTypes DEF AuditInv, ClaimInv, PipelineTypeOK, Task, HandlerOK, ServingPcs
  <2>2. AppendEvent(e) /\ Checkpointed(p, RowFor(e), "await_intent", "acquire")
    BY <1>3 DEF AppendIntent
  <2> HIDE DEF e
  <2>3. PICK t \in Task : /\ task' = [task EXCEPT ![p] = t]
                          /\ t.request = task[p].request
                          /\ t.approval = task[p].approval
                          /\ t.row \in DOMAIN log' /\ log'[t.row] = e
                          /\ t.pc = "await_intent" \/ (t.pc = "acquire" /\ t.row \in attached')
    BY <1>2, <2>1, <2>2, AppendShows DEF AwaitPcs, Pcs, StorePcs
  <2>4. e = IntentEvent(t.request, t.approval)
    BY <2>3 DEF e
  <2>5. RowOK(t)' /\ AnswerOK(t)'
    BY <2>3, <2>4 DEF RowOK, AnswerOK, IsOnRecord, IntentEvent
  <2>6. PermitOK(t)'
    BY <1>1, <1>2, <2>3 DEF PermitOK, Favours, EvidenceOK
  <2> QED
    BY <2>3, <2>5, <2>6 DEF ShowsAs, EvidenceOK
<1>4. CASE ~CanAppend(e)
  BY <1>2, <1>4, PlainMoves DEF AppendIntent
<1> QED
  BY <1>3, <1>4

\* A claim cites the approval that was brought along, and a request that needs
\* one did bring one; a replay answers the recorded result.
LEMMA Acquire_Evidence ==
    ASSUME EvidenceInv, ClaimInv, AuditInv, ApprovalInv, NEW p \in Tasks, Acquire(p)
    PROVE  \E t \in Task : ShowsAs(p, t)
<1> DEFINE r == task[p].request
           a == task[p].approval
<1>1. /\ task[p].pc = "acquire" /\ UNCHANGED approvals
      /\ r \in Requests /\ a \in ApprovalIds \union {NoApproval}
  BY DEF Acquire, approvalVars, ClaimInv, PipelineTypeOK, Task, HandlerOK, ServingPcs
<1>2. PipelineTypeOK /\ EvidenceOK(task[p])
  BY DEF ClaimInv, EvidenceInv
<1>3. CASE ClaimExecution(r, a) /\ Goto(p, IF a = NoApproval THEN "execute" ELSE "consume")
  <2> DEFINE e == IntentEvent(r, a)
             next == IF a = NoApproval THEN "execute" ELSE "consume"
  <2>1. e \in Event /\ CanAppend(e) /\ log' = LogWith(e)
    BY <1>1, <1>3, EventTypes DEF AuditInv, ClaimExecution, CanClaim
  <2>2. log'[RowFor(e)] = e
    BY <2>1, AppendFacts DEF AuditInv
  <2>3. ledger'[SlotOf[r]].intent = RowFor(e)
    BY <1>3 DEF ClaimExecution, WithEntry
  <2>4. log'[ledger'[SlotOf[r]].intent].approval = a
    BY <2>2, <2>3 DEF IntentEvent
  <2>5. next \in Pcs /\ task[p].result \in Results \union {NoResult}
        /\ Advance(p, next, 0, "none", task[p].result)
    BY <1>3, <1>2 DEF Goto, PipelineTypeOK, Task, Pcs, StorePcs
  <2> HIDE DEF next
  <2>6. PICK t \in Task : /\ task' = [task EXCEPT ![p] = t]
                          /\ t.pc = next
                          /\ t.request = r
                          /\ t.approval = a
    BY <1>2, <2>5, AdvanceFacts
  <2>7. RowOK(t)' /\ AnswerOK(t)'
    BY <2>6 DEF next, RowOK, AnswerOK
  <2>8. r \in NeedsApproval => a # NoApproval
    BY <1>1, <1>2, RequestConstants
    DEF EvidenceOK, PermitOK, Favours, ApprovalInv, ApprovalTypeOK
  <2>9. PermitOK(t)'
    BY <2>4, <2>6, <2>8 DEF next, PermitOK, CitedApproval
  <2> QED
    BY <2>6, <2>7, <2>9 DEF ShowsAs, EvidenceOK
<1>4. CASE /\ IsReplayable(r)
           /\ Advance(p, "executed", 0, "none", ledger[SlotOf[r]].result)
           /\ UNCHANGED auditVars
  <2>1. ledger[SlotOf[r]].result \in Results \union {NoResult}
    BY <1>4 DEF IsReplayable, HoldsRequest, AuditInv, AuditTypeOK, ExecutionRecord
  <2>2. PICK t \in Task : /\ task' = [task EXCEPT ![p] = t]
                          /\ t.pc = "executed"
                          /\ t.request = r
                          /\ t.result = ledger[SlotOf[r]].result
    BY <1>2, <1>4, <2>1, AdvanceFacts DEF Pcs
  <2>3. EvidenceOK(t)'
    BY <1>4, <2>2
    DEF EvidenceOK, RowOK, AnswerOK, PermitOK, IsReplayable, HoldsRequest, auditVars
  <2> QED
    BY <2>2, <2>3 DEF ShowsAs
<1>5. CASE Fail(p)
  BY <1>2, <1>5, PlainMoves
<1> QED
  BY <1>3, <1>4, <1>5 DEF Acquire

\* The executor runs behind a consumption, and that one was of the cited row.
LEMMA Consume_Evidence ==
    ASSUME EvidenceInv, ClaimInv, ApprovalInv, NEW p \in Tasks, Consume(p)
    PROVE  \E t \in Task : ShowsAs(p, t)
<1> DEFINE r == task[p].request
           a == task[p].approval
<1>1. /\ task[p].pc = "consume" /\ UNCHANGED <<log, ledger>>
      /\ PipelineTypeOK /\ EvidenceOK(task[p])
      /\ task[p].result \in Results \union {NoResult}
  BY DEF Consume, auditVars, ClaimInv, EvidenceInv, PipelineTypeOK, Task
<1>2. ASSUME NEW c \in ClockReadings, ConsumeApproved(a, r, c), Goto(p, "execute")
      PROVE  \E t \in Task : ShowsAs(p, t)
  <2>1. approvals'[a].status = "consumed"
    BY <1>2 DEF ConsumeApproved, Consumable, ApprovalInv, ApprovalTypeOK, Approval
  <2>a. Advance(p, "execute", 0, "none", task[p].result) /\ "execute" \in Pcs
    BY <1>2 DEF Goto, Pcs
  <2>2. PICK t \in Task : /\ task' = [task EXCEPT ![p] = t]
                          /\ t.pc = "execute"
                          /\ t.request = task[p].request
    BY <1>1, <2>a, AdvanceFacts
  <2>3. r \in NeedsApproval => log'[ledger'[SlotOf[r]].intent].approval = a
    BY <1>1 DEF EvidenceOK, PermitOK, CitedApproval
  <2>4. EvidenceOK(t)'
    BY <2>1, <2>2, <2>3 DEF EvidenceOK, RowOK, AnswerOK, PermitOK, CitedApproval
  <2> QED
    BY <2>2, <2>4 DEF ShowsAs
<1>3. ASSUME Goto(p, "mark")
      PROVE  \E t \in Task : ShowsAs(p, t)
  BY <1>1, <1>3, PlainMoves DEF Goto, Pcs, StorePcs, EvidencePcs
<1> QED
  BY <1>2, <1>3 DEF Consume, AfterRefusal

\* Without a witness a result goes straight to its completion.
LEMMA Execute_Evidence ==
    ASSUME ClaimInv, NEW p \in Tasks, Execute(p)
    PROVE  \E t \in Task : ShowsAs(p, t)
<1>1. PipelineTypeOK /\ task[p].result \in Results \union {NoResult}
  BY DEF ClaimInv, PipelineTypeOK, Task
<1>2. CASE Goto(p, "append_failure")
  BY <1>1, <1>2, PlainMoves DEF Goto, Pcs, StorePcs, EvidencePcs
<1>3. ASSUME NEW v \in Results,
             Advance(p, IF Witnessed THEN "append_outcome" ELSE "complete", 0, "none", v)
      PROVE  \E t \in Task : ShowsAs(p, t)
  <2>1. CASE Witnessed
    BY <1>1, <1>3, <2>1, PlainMoves DEF Pcs, StorePcs, EvidencePcs
  <2>2. CASE ~Witnessed
    <3>1. Advance(p, "complete", 0, "none", v)
      BY <1>3, <2>2
    <3>2. PICK t \in Task : task' = [task EXCEPT ![p] = t] /\ t.pc = "complete"
      BY <1>1, <3>1, AdvanceFacts DEF Pcs, StorePcs
    <3>3. EvidenceOK(t)'
      BY <2>2, <3>2 DEF EvidenceOK, RowOK, AnswerOK, PermitOK
    <3> QED
      BY <3>2, <3>3 DEF ShowsAs
  <2> QED
    BY <2>1, <2>2
<1> QED
  BY <1>2, <1>3 DEF Execute

\* The row of an outcome says that the execution succeeded.
LEMMA AppendOutcome_Evidence ==
    ASSUME ClaimInv, AuditInv, NEW p \in Tasks, AppendOutcome(p)
    PROVE  \E t \in Task : ShowsAs(p, t)
<1> DEFINE e == OutcomeEvent(task[p].request, "succeeded")
<1>1. task[p].pc = "append_outcome" /\ PipelineTypeOK
  BY DEF AppendOutcome, ClaimInv
<1>2. CASE IsClaimedBy(task[p].request) /\ CanAppend(e)
  <2>1. e \in Event
    BY <1>1, EventTypes DEF AuditInv, ClaimInv, HandlerOK, ServingPcs, OwnerPcs
  <2>2. AppendEvent(e) /\ Checkpointed(p, RowFor(e), "await_outcome", "complete")
    BY <1>2 DEF AppendOutcome
  <2> HIDE DEF e
  <2>3. PICK t \in Task : /\ task' = [task EXCEPT ![p] = t]
                          /\ t.request = task[p].request
                          /\ t.row \in DOMAIN log' /\ log'[t.row] = e
                          /\ t.pc = "await_outcome" \/ (t.pc = "complete" /\ t.row \in attached')
    BY <1>1, <2>1, <2>2, AppendShows DEF AwaitPcs, Pcs, StorePcs
  <2>4. e = OutcomeEvent(t.request, "succeeded")
    BY <2>3 DEF e
  <2>5. RowOK(t)' /\ AnswerOK(t)' /\ PermitOK(t)'
    BY <2>3, <2>4 DEF RowOK, AnswerOK, PermitOK, IsOnRecord, OutcomeEvent
  <2> QED
    BY <2>3, <2>5 DEF ShowsAs, EvidenceOK
<1>3. CASE ~(IsClaimedBy(task[p].request) /\ CanAppend(e))
  BY <1>1, <1>3, PlainMoves DEF AppendOutcome
<1> QED
  BY <1>2, <1>3

\* The handler answers what it has just recorded.
LEMMA Complete_Evidence ==
    ASSUME ClaimInv, AuditInv, NEW p \in Tasks, Complete(p)
    PROVE  \E t \in Task : ShowsAs(p, t)
<1> DEFINE r == task[p].request
<1>1. PipelineTypeOK /\ task[p].result \in Results \union {NoResult}
  BY DEF ClaimInv, PipelineTypeOK, Task
<1>2. CASE CanComplete(r, task[p].result)
  <2>1. /\ CompleteExecution(r, task[p].result)
        /\ Advance(p, "executed", 0, "none", task[p].result)
    BY <1>2 DEF Complete, Goto
  <2>a. "executed" \in Pcs
    BY DEF Pcs
  <2>2. PICK t \in Task : /\ task' = [task EXCEPT ![p] = t]
                          /\ t.pc = "executed"
                          /\ t.request = task[p].request
                          /\ t.result = task[p].result
    BY <1>1, <2>1, <2>a, AdvanceFacts
  <2>3. /\ SlotOf[r] \in DOMAIN ledger'
        /\ ledger'[SlotOf[r]].request = r
        /\ ledger'[SlotOf[r]].state = "completed"
        /\ ledger'[SlotOf[r]].result = task[p].result
    BY <2>1 DEF CompleteExecution, CanComplete, IsClaimedBy, HoldsRequest
  <2>4. EvidenceOK(t)'
    BY <2>2, <2>3 DEF EvidenceOK, RowOK, AnswerOK, PermitOK, HoldsRequest
  <2> QED
    BY <2>2, <2>4 DEF ShowsAs
<1>3. CASE ~CanComplete(r, task[p].result)
  BY <1>1, <1>3, PlainMoves DEF Complete
<1> QED
  BY <1>2, <1>3

\* A receipt is attached before its handler goes on.
LEMMA ReceiveReceipt_Evidence ==
    ASSUME EvidenceInv, ClaimInv, AuditInv, NEW p \in Tasks, ReceiveReceipt(p)
    PROVE  \E t \in Task : ShowsAs(p, t)
<1>1. /\ PipelineTypeOK /\ EvidenceOK(task[p])
      /\ task[p].row \in Nat /\ task[p].result \in Results \union {NoResult}
      /\ task[p].pc \in AwaitPcs
      /\ UNCHANGED <<approvals, log>> /\ task[p].row \in attached'
      /\ Advance(p, AfterReceipt(task[p].pc), task[p].row, "none", task[p].result)
  BY DEF ReceiveReceipt, AttachWitnessReceipt, approvalVars, ClaimInv, EvidenceInv, PipelineTypeOK,
         Task, HandlerOK
<1>2. CASE task[p].pc \in {"await_failure", "await_resolution", "await_head"}
  <2>1. AfterReceipt(task[p].pc) \in {"mark", "finalize", "recover"}
    BY <1>2 DEF AfterReceipt
  <2> QED
    BY <1>1, <2>1, PlainMoves DEF Pcs, StorePcs, EvidencePcs
<1>3. CASE task[p].pc = "await_intent"
  <2>1. Advance(p, "acquire", task[p].row, "none", task[p].result)
    BY <1>1, <1>3 DEF AfterReceipt
  <2>2. PICK t \in Task : /\ task' = [task EXCEPT ![p] = t]
                          /\ t.pc = "acquire"
                          /\ t.request = task[p].request
                          /\ t.approval = task[p].approval
                          /\ t.row = task[p].row
    BY <1>1, <2>1, AdvanceFacts DEF Pcs, StorePcs
  <2>3. RowOK(t)' /\ AnswerOK(t)'
    BY <1>1, <1>3, <2>2 DEF EvidenceOK, RowOK, AnswerOK, IsOnRecord, IntentEvent
  <2>4. PermitOK(t)'
    BY <1>1, <1>3, <2>2 DEF EvidenceOK, PermitOK, Favours
  <2> QED
    BY <2>2, <2>3, <2>4 DEF ShowsAs, EvidenceOK
<1>4. CASE task[p].pc = "await_outcome"
  <2>1. Advance(p, "complete", task[p].row, "none", task[p].result)
    BY <1>1, <1>4 DEF AfterReceipt
  <2>2. PICK t \in Task : /\ task' = [task EXCEPT ![p] = t]
                          /\ t.pc = "complete"
                          /\ t.request = task[p].request
                          /\ t.row = task[p].row
    BY <1>1, <2>1, AdvanceFacts DEF Pcs, StorePcs
  <2>3. EvidenceOK(t)'
    BY <1>1, <1>4, <2>2
    DEF EvidenceOK, RowOK, AnswerOK, PermitOK, IsOnRecord, OutcomeEvent
  <2> QED
    BY <2>2, <2>3 DEF ShowsAs
<1> QED
  BY <1>1, <1>2, <1>3, <1>4 DEF AwaitPcs

\* An answer of the witness leaves the handler where it waits.
LEMMA ServeCheckpoint_Evidence ==
    ASSUME EvidenceInv, ClaimInv, NEW p \in Tasks, ServeCheckpoint(p)
    PROVE  \E t \in Task : ShowsAs(p, t)
<1>1. /\ PipelineTypeOK /\ EvidenceOK(task[p])
      /\ task[p].row \in Nat /\ task[p].result \in Results \union {NoResult} /\ task[p].pc \in Pcs
      /\ task[p].pc \in AwaitPcs
      /\ UNCHANGED <<approvals, log>>
  BY DEF ServeCheckpoint, approvalVars, auditVars, ClaimInv, EvidenceInv, PipelineTypeOK, Task,
         HandlerOK
<1>2. PICK wire \in {"accepted", "refused"} :
         Advance(p, task[p].pc, task[p].row, wire, task[p].result)
  BY DEF ServeCheckpoint
<1>3. PICK t \in Task : /\ task' = [task EXCEPT ![p] = t]
                        /\ t.pc = task[p].pc
                        /\ t.request = task[p].request
                        /\ t.approval = task[p].approval
                        /\ t.row = task[p].row
  BY <1>1, <1>2, AdvanceFacts
<1>4. EvidenceOK(t)'
  BY <1>1, <1>3 DEF AwaitPcs, EvidenceOK, RowOK, AnswerOK, PermitOK, Favours, IntentEvent,
     OutcomeEvent
<1> QED
  BY <1>3, <1>4 DEF ShowsAs

\* The other steps of a handler lead to calls that need no evidence.
LEMMA PlainSteps ==
    ASSUME ClaimInv, AuditInv, NEW p \in Tasks,
           \/ AppendFailure(p) \/ Block(p) \/ Mark(p) \/ Reply(p) \/ ReceiveRefusal(p)
           \/ Timeout(p) \/ Finalize(p) \/ Recover(p) \/ StorageFault(p) \/ Abandon(p)
           \/ StartRecover(p)
           \/ \E r \in Requests, a \in ApprovalIds \union {NoApproval} : StartDispatch(p, r, a)
    PROVE  \E t \in Task : ShowsAs(p, t)
<1>1. PipelineTypeOK /\ task[p].result \in Results \union {NoResult}
  BY DEF ClaimInv, PipelineTypeOK, Task
<1>2. CASE Finish(p) \/ Fail(p)
  BY <1>1, <1>2, PlainMoves
<1>3. CASE Goto(p, "mark")
  BY <1>1, <1>3, PlainMoves DEF Goto, Pcs, StorePcs, EvidencePcs
<1>4. ASSUME NEW n \in Nat, NEW waiting \in AwaitPcs \ EvidencePcs,
             NEW done \in Pcs \ EvidencePcs, Checkpointed(p, n, waiting, done)
      PROVE  \E t \in Task : ShowsAs(p, t)
  BY <1>1, <1>4, PlainMoves DEF Checkpointed, Pcs
<1>5. CASE AppendFailure(p)
  <2> DEFINE e == OutcomeEvent(task[p].request, "failed")
  <2>1. CASE CanAppend(e) /\ Witnessed
    <3>1. e \in Event
      BY <1>5, EventTypes
      DEF AppendFailure, AuditInv, ClaimInv, HandlerOK, ServingPcs, OwnerPcs
    <3>2. RowFor(e) \in Nat
      BY <2>1, <3>1, AppendFacts DEF AuditInv
    <3>3. Checkpointed(p, RowFor(e), "await_failure", "mark")
      BY <1>5, <2>1 DEF AppendFailure
    <3> HIDE DEF e
    <3> QED
      BY <1>4, <3>2, <3>3 DEF AwaitPcs, Pcs, StorePcs, EvidencePcs
  <2>2. CASE ~(CanAppend(e) /\ Witnessed)
    BY <1>2, <1>3, <1>5, <2>2 DEF AppendFailure
  <2> QED
    BY <2>1, <2>2
<1>6. CASE StartRecover(p)
  <2>1. Len(log) \in Nat /\ Checkpointed(p, Len(log), "await_head", "recover")
    BY <1>6 DEF StartRecover, AuditInv, AuditTypeOK
  <2> QED
    BY <1>4, <2>1 DEF AwaitPcs, Pcs, StorePcs, EvidencePcs
<1>7. ASSUME NEW r \in Requests, NEW a \in ApprovalIds \union {NoApproval}, StartDispatch(p, r, a)
      PROVE  \E t \in Task : ShowsAs(p, t)
  <2>1. Serving("human", r, a).pc \notin EvidencePcs
    BY ServingFacts DEF EvidencePcs
  <2> QED
    BY <1>7, <2>1, ServingFacts, NothingToShow DEF StartDispatch, ShowsAs
<1> QED
  BY <1>2, <1>3, <1>5, <1>6, <1>7
  DEF Block, Mark, Reply, ReceiveRefusal, Timeout, Finalize, Recover, StorageFault, Abandon

\* So does the start of a resolution.
LEMMA StartResolve_Evidence ==
    ASSUME ClaimInv, ClaimInv', NEW p \in Tasks, NEW s \in Slots, NEW o \in Actors,
           NEW c \in Conclusions, StartResolve(p, s, o, c)
    PROVE  \E t \in Task : ShowsAs(p, t)
<1>1. task' = [task EXCEPT ![p] = task'[p]] /\ task'[p] \in Task
  BY DEF StartResolve, ClaimInv, PipelineTypeOK
<1>2. task'[p].pc \notin EvidencePcs
  BY DEF StartResolve, EvidencePcs, ClaimInv, PipelineTypeOK
<1>3. PICK t : t = task'[p]
  OBVIOUS
<1> QED
  BY <1>1, <1>2, <1>3, NothingToShow DEF ShowsAs

\* Every handler can show what its next call needs, after any step.
LEMMA Handlers_Evidence ==
    ASSUME EvidenceInv, ClaimInv, AuditInv, ApprovalInv, ClaimInv', [AuditNext]_auditVars,
           [ApprovalNext]_approvalVars, [Next]_pipelineVars
    PROVE  \A q \in Tasks : EvidenceOK(task[q])'
<1>1. ASSUME NEW p \in Tasks, NEW t \in Task, ShowsAs(p, t)
      PROVE  \A q \in Tasks : EvidenceOK(task[q])'
  <2>1. task'[p] = t /\ \A q \in Tasks \ {p} : task'[q] = task[q]
    BY <1>1 DEF ShowsAs, ClaimInv, PipelineTypeOK
  <2>2. EvidenceOK(task[p])'
    BY <1>1, <2>1 DEF ShowsAs, EvidenceOK, RowOK, AnswerOK, PermitOK
  <2>3. \A q \in Tasks \ {p} : EvidenceOK(task[q])'
    BY <2>1, EvidenceStays
  <2> QED
    BY <2>2, <2>3
<1>2. ASSUME task' = task
      PROVE  \A q \in Tasks : EvidenceOK(task[q])'
  BY <1>2, EvidenceStays
<1>3. CASE Crash
  <2>1. \A q \in Tasks : task'[q].pc \notin EvidencePcs
    BY <1>3, IdleFacts DEF Crash, EvidencePcs
  <2>2. \A q \in Tasks : EvidenceOK(task[q])'
    BY <2>1 DEF EvidencePcs, EvidenceOK, RowOK, AnswerOK, PermitOK
  <2> QED
    BY <2>2
<1>4. ASSUME NEW p \in Tasks,
             StartTask(p) \/ TaskStep(p) \/ ServeCheckpoint(p) \/ Abandon(p) \/ StorageFault(p)
      PROVE  \E t \in Task : ShowsAs(p, t)
  BY <1>4, HumanGate_Evidence, LookUp_Evidence, AppendIntent_Evidence, Acquire_Evidence,
     Consume_Evidence, Execute_Evidence, AppendOutcome_Evidence, Complete_Evidence,
     ReceiveReceipt_Evidence, ServeCheckpoint_Evidence, StartResolve_Evidence, PlainSteps
  DEF StartTask, TaskStep
<1> QED
  BY <1>1, <1>2, <1>3, <1>4
  DEF Next, ServeOrphan, DecideApproval, ListApprovals, ClockTick, pipelineVars

-----------------------------------------------------------------------------
(* Evidence: the stores.                                                   *)

\* A claim is made under an approval, because its handler passed the gate.
LEMMA Claims_Evidence ==
    ASSUME EvidenceInv, ClaimInv, AuditInv, AuditInv', ApprovalInv, [AuditNext]_auditVars,
           [ApprovalNext]_approvalVars, [Next]_pipelineVars
    PROVE  ClaimedUnderApproval'
<1> SUFFICES ASSUME NEW r \in NeedsApproval, HoldsRequest(r)'
             PROVE  Favours(CitedApproval(r), r)'
  BY DEF ClaimedUnderApproval, Favours
<1>0. r \in Requests /\ SlotOf[r] \in Slots
  BY DispatchConstants, AuditConstants
<1>1. CASE HoldsRequest(r)
  <2>1. Favours(CitedApproval(r), r)
    BY <1>1 DEF EvidenceInv, ClaimedUnderApproval, Favours
  <2>2. CitedApproval(r)' = CitedApproval(r)
    BY <1>0, <1>1, CitedStays
  <2>3. PICK i : i = CitedApproval(r)
    OBVIOUS
  <2>4. Favours(i, r)'
    BY <2>1, <2>3, ApprovalKeeps DEF Favours
  <2> QED
    BY <2>2, <2>3, <2>4 DEF Favours
<1>2. CASE ~HoldsRequest(r)
  <2>1. SlotOf[r] \notin DOMAIN ledger
    BY <1>2, AuditKeeps DEF HoldsRequest
  <2>2. PICK p \in Tasks : /\ Acquire(p)
                           /\ ClaimExecution(task[p].request, task[p].approval)
                           /\ SlotOf[r] = SlotAt(p)
    BY <2>1, WhoClaims DEF HoldsRequest
  <2>3. PICK a \in ApprovalIds \union {NoApproval} : a = task[p].approval
    BY DEF ClaimInv, PipelineTypeOK, Task
  <2>4. task[p].request = r /\ task[p].pc = "acquire" /\ UNCHANGED approvals
    BY <2>2 DEF ClaimExecution, WithEntry, SlotAt, HoldsRequest, Acquire, approvalVars
  <2>5. Favours(a, r)'
    BY <2>3, <2>4 DEF EvidenceInv, EvidenceOK, PermitOK, Favours
  <2>6. IntentEvent(r, a) \in Event /\ CanAppend(IntentEvent(r, a))
    BY <1>0, <2>2, <2>3, <2>4, EventTypes DEF AuditInv, ClaimExecution, CanClaim
  <2>7. log'[RowFor(IntentEvent(r, a))] = IntentEvent(r, a)
    BY <2>2, <2>3, <2>4, <2>6, AppendFacts DEF AuditInv, ClaimExecution
  <2>8. CitedApproval(r)' = a
    BY <2>2, <2>3, <2>4, <2>7 DEF CitedApproval, ClaimExecution, WithEntry, IntentEvent
  <2> QED
    BY <2>5, <2>8 DEF Favours
<1> QED
  BY <1>1, <1>2

\* An effect happens only when the cited approval is spent.
LEMMA Effects_Evidence ==
    ASSUME EvidenceInv, ClaimInv, AuditInv, ApprovalInv, ClaimedUnderApproval', ClaimInv',
           [AuditNext]_auditVars, [ApprovalNext]_approvalVars, [Next]_pipelineVars
    PROVE  ApprovedEffect'
<1> SUFFICES ASSUME NEW r \in NeedsApproval, effects'[r] > 0
             PROVE  approvals'[CitedApproval(r)'].status = "consumed"
  <2>1. \A r \in NeedsApproval : effects'[r] > 0 => HoldsRequest(r)'
    BY DispatchConstants DEF ClaimInv, EffectsHeld
  <2> QED
    BY <2>1 DEF ApprovedEffect, ClaimedUnderApproval
<1>0. r \in Requests
  BY DispatchConstants
<1>1. HoldsRequest(r) /\ approvals[CitedApproval(r)].status = "consumed"
  <2>1. CASE effects[r] > 0
    BY <1>0, <2>1 DEF ClaimInv, EffectsHeld, EvidenceInv, ApprovedEffect
  <2>2. CASE ~(effects[r] > 0)
    <3>1. PICK p \in Tasks : task[p].pc = "execute" /\ task[p].request = r
      BY <1>0, <2>2, WhoActs
    <3> QED
      BY <3>1 DEF ClaimInv, OwnerOK, OwnerPcs, IsClaimedBy, EvidenceInv, EvidenceOK, PermitOK
  <2> QED
    BY <2>1, <2>2
<1>2. CitedApproval(r) \in DOMAIN approvals
  BY <1>1 DEF EvidenceInv, ClaimedUnderApproval
<1>3. CitedApproval(r)' = CitedApproval(r)
  BY <1>0, <1>1, CitedStays
<1> QED
  BY <1>1, <1>2, <1>3, ApprovalKeeps

\* Intents and outcomes are on record before the ledger rests on them.
LEMMA Ledger_Evidence ==
    ASSUME EvidenceInv, ClaimInv, AuditInv, ClaimInv', AuditInv', [AuditNext]_auditVars,
           [Next]_pipelineVars
    PROVE  LedgerOnRecord'
<1>1. ASSUME NEW r \in Requests, effects[r] = 1
      PROVE  effects'[r] = 1
  <2>1. CASE effects'[r] = effects[r]
    BY <1>1, <2>1
  <2>2. CASE effects'[r] # effects[r]
    <3>1. PICK p \in Tasks : task[p].pc = "execute" /\ task[p].request = r
      BY <2>2, WhoActs
    <3> QED
      BY <1>1, <3>1 DEF ClaimInv, OwnerOK, OwnerPcs
  <2> QED
    BY <2>1, <2>2
<1>2. ASSUME NEW n \in DOMAIN log, NEW r \in Requests, IsOnRecord(n, OutcomeEvent(r, "succeeded"))
      PROVE  n \in DOMAIN log' /\ IsOnRecord(n, OutcomeEvent(r, "succeeded"))'
  BY <1>2, AuditKeeps DEF IsOnRecord, OutcomeEvent
<1>3. ASSUME NEW s \in DOMAIN ledger', s \in DOMAIN ledger
      PROVE  /\ Witnessed => ledger'[s].intent \in attached'
             /\ ledger'[s].state = "completed" =>
                   /\ effects'[ledger'[s].request] = 1
                   /\ \E n \in DOMAIN log' :
                         IsOnRecord(n, OutcomeEvent(ledger[s].request, "succeeded"))'
  <2>0. /\ ledger'[s].request = ledger[s].request /\ ledger[s].request \in Requests
        /\ ledger'[s].intent = ledger[s].intent
    BY <1>3, AuditKeeps DEF AuditInv, AuditTypeOK, ExecutionRecord
  <2>1. Witnessed => ledger'[s].intent \in attached'
    BY <1>3, <2>0, AuditKeeps DEF EvidenceInv, LedgerOnRecord
  <2>2. CASE ledger[s].state = "completed"
    BY <1>1, <1>2, <1>3, <2>0, <2>1, <2>2 DEF EvidenceInv, LedgerOnRecord, OutcomeEvent, IsOnRecord
  <2>3. CASE ledger[s].state # "completed" /\ ledger'[s].state = "completed"
    <3>1. PICK p \in Tasks : /\ Complete(p)
                             /\ CompleteExecution(task[p].request, task[p].result)
                             /\ s = SlotAt(p)
      BY <1>3, <2>3, WhoCompletes
    <3>2. PICK r \in Requests : r = task[p].request
      BY <3>1 DEF Complete, ClaimInv, HandlerOK, ServingPcs, OwnerPcs
    <3>3. r = ledger[s].request /\ effects[r] = 1
      BY <3>1, <3>2
      DEF CompleteExecution, CanComplete, IsClaimedBy, HoldsRequest, SlotAt, Complete, ClaimInv,
          OwnerOK, OwnerPcs
    <3>4. PICK n \in DOMAIN log' : log'[n] = OutcomeEvent(r, "succeeded")
      BY <1>3, <2>0, <2>3, <3>3 DEF AuditInv, LedgerOnLog, ExecutionOnLog, OutcomeEvent
    <3>5. CASE Witnessed
      <4>1. PICK m : m = task[p].row
        OBVIOUS
      <4>2. IsOnRecord(m, OutcomeEvent(r, "succeeded"))
        BY <3>1, <3>2, <3>5, <4>1 DEF Complete, EvidenceInv, EvidenceOK, RowOK
      <4>3. m \in DOMAIN log' /\ IsOnRecord(m, OutcomeEvent(r, "succeeded"))'
        BY <4>2, <1>2 DEF IsOnRecord
      <4> QED
        BY <1>1, <2>0, <2>1, <3>3, <4>3 DEF OutcomeEvent, IsOnRecord
    <3>6. CASE ~Witnessed
      BY <1>1, <2>0, <2>1, <3>3, <3>4, <3>6 DEF IsOnRecord, OutcomeEvent
    <3> QED
      BY <3>5, <3>6
  <2> QED
    BY <2>1, <2>2, <2>3
<1>4. ASSUME NEW s \in DOMAIN ledger', s \notin DOMAIN ledger
      PROVE  /\ ledger'[s].state = "claimed"
             /\ Witnessed => ledger'[s].intent \in attached'
  <2>1. PICK p \in Tasks : /\ Acquire(p)
                           /\ ClaimExecution(task[p].request, task[p].approval)
                           /\ s = SlotAt(p)
    BY <1>4, WhoClaims
  <2>2. PICK e : e = IntentEvent(task[p].request, task[p].approval)
    OBVIOUS
  <2>3. ledger'[s].state = "claimed" /\ ledger'[s].intent = RowFor(e)
    BY <2>1, <2>2 DEF ClaimExecution, WithEntry, SlotAt
  <2>4. CASE Witnessed
    <3>1. IsOnRecord(task[p].row, e)
      BY <1>4, <2>1, <2>2, <2>4 DEF Acquire, EvidenceInv, EvidenceOK, RowOK, IsUnclaimed, SlotAt
    <3>2. RowFor(e) = task[p].row
      <4>1. task[p].row \in RowsKeyed(e)
        BY <3>1 DEF IsOnRecord, RowsKeyed
      <4>2. \A n \in RowsKeyed(e) : n = task[p].row
        BY <3>1 DEF IsOnRecord, RowsKeyed, AuditInv, EventsUnique
      <4> QED
        BY <4>1, <4>2 DEF RowFor
    <3> QED
      BY <2>3, <3>1, <3>2, AuditKeeps DEF IsOnRecord
  <2> QED
    BY <2>3, <2>4
<1> QED
  BY <1>3, <1>4 DEF LedgerOnRecord, OutcomeEvent, IsOnRecord

\* Nobody approves for themselves: the check precedes the decision.
LEMMA Approvals_Evidence ==
    ASSUME EvidenceInv, ApprovalInv, [ApprovalNext]_approvalVars, [Next]_pipelineVars
    PROVE  NoSelfApproval'
<1> SUFFICES ASSUME Witnessed, NEW i \in DOMAIN approvals',
                    approvals'[i].status \in {"approved", "consumed"}
             PROVE  approvals'[i].actor # PrincipalOf[SlotOf[approvals'[i].request]]
  BY DEF NoSelfApproval
<1>1. CASE i \in DOMAIN approvals /\ approvals[i].status \in {"approved", "consumed"}
  BY <1>1, ApprovalKeeps DEF EvidenceInv, NoSelfApproval
<1>2. CASE ~(i \in DOMAIN approvals /\ approvals[i].status \in {"approved", "consumed"})
  <2>1. PICK j \in ApprovalIds, o \in Actors : DecideApproval(j, "approved", o)
    BY <1>2, WhoApproves
  <2>2. \A k \in DOMAIN approvals : approvals[k] \in Approval
    BY DEF ApprovalInv, ApprovalTypeOK
  <2>3. i = j
    BY <1>2, <2>1 DEF DecideApproval, Decide
  <2> QED
    BY <2>1, <2>2, <2>3 DEF DecideApproval, Decide, MayDecide, Approval
<1> QED
  BY <1>1, <1>2

-----------------------------------------------------------------------------
(* Evidence: the theorems.                                                 *)

\* No handler has anything to show at the start, and the tables are empty.
LEMMA Init_Evidence == Init => EvidenceInv
<1> SUFFICES ASSUME Init
             PROVE  EvidenceInv
  OBVIOUS
<1>1. \A p \in Tasks : EvidenceOK(task[p])
  BY IdleFacts DEF Init, EvidenceOK, RowOK, AnswerOK, PermitOK
<1>2. DOMAIN ledger = {} /\ DOMAIN approvals = {}
  BY DEF Init, AuditInit, ApprovalInit, NoRows
<1>3. ClaimedUnderApproval /\ LedgerOnRecord /\ NoSelfApproval
  BY <1>2 DEF ClaimedUnderApproval, HoldsRequest, LedgerOnRecord, NoSelfApproval
<1>4. ApprovedEffect
  BY DispatchConstants DEF Init, ApprovedEffect
<1> QED
  BY <1>1, <1>3, <1>4 DEF EvidenceInv

LEMMA EvidenceStep ==
    ASSUME EvidenceInv, ClaimInv, AuditInv, ApprovalInv, ClaimInv', AuditInv',
           [Next]_pipelineVars
    PROVE  EvidenceInv'
<1>1. [AuditNext]_auditVars /\ [ApprovalNext]_approvalVars
  BY AuditStep, ApprovalStep
<1>2. \A q \in Tasks : EvidenceOK(task[q])'
  BY <1>1, Handlers_Evidence
<1>3. ClaimedUnderApproval'
  BY <1>1, Claims_Evidence
<1>4. ApprovedEffect'
  BY <1>1, <1>3, Effects_Evidence
<1>5. LedgerOnRecord'
  BY <1>1, Ledger_Evidence
<1>6. NoSelfApproval'
  BY <1>1, Approvals_Evidence
<1> QED
  BY <1>2, <1>3, <1>4, <1>5, <1>6 DEF EvidenceInv

\* The evidence behind every call, claim, effect and approval is kept by every
\* step of every handler, client, operator and witness, and by every failure.
THEOREM EvidenceInvariant == Spec => []EvidenceInv
<1>1. /\ EvidenceInv /\ ClaimInv /\ AuditInv /\ ApprovalInv
      /\ ClaimInv' /\ AuditInv'
      /\ [Next]_pipelineVars
      => EvidenceInv'
  BY EvidenceStep
<1> QED
  BY <1>1, Init_Evidence, PipelineInvariant, ApprovalInvariantHere, PTL DEF Spec

\* An effect that needs a human decision has spent the approval that its own
\* intent cites, and somebody gave that approval for exactly this request:
\* ExecutionGuard consumes it between the claim and the executor.
THEOREM ApprovedEffectTheorem == Spec => []ApprovedEffect
<1>1. EvidenceInv => ApprovedEffect
  BY DEF EvidenceInv
<1> QED
  BY <1>1, EvidenceInvariant, PTL

\* No idempotency key is used up by a request that nobody approved, although the
\* claim comes several transactions after the gate and the approval may expire.
THEOREM ClaimedUnderApprovalTheorem == Spec => []ClaimedUnderApproval
<1>1. EvidenceInv => ClaimedUnderApproval
  BY DEF EvidenceInv
<1> QED
  BY <1>1, EvidenceInvariant, PTL

\* An effect has its claim and its intent on the log and, in witnessed mode, the
\* intent is with the independent witness before the executor runs.
THEOREM IntentBeforeEffectTheorem == Spec => []IntentBeforeEffect
<1>1. EvidenceInv /\ WireInv /\ ClaimInv /\ AuditInv => IntentBeforeEffect
  BY DEF EvidenceInv, LedgerOnRecord, WireInv, ReceiptsTruthful, ClaimInv, EffectsHeld,
         HoldsRequest, AuditInv, LedgerOnLog, ExecutionOnLog, IntentBeforeEffect
<1> QED
  BY <1>1, EvidenceInvariant, FullInvariant, PTL

\* A result is answered, first hand or replayed, only when it is the recorded one
\* of an effect that happened and whose outcome is on the log, and witnessed.
THEOREM ReportedDurableTheorem == Spec => []ReportedDurable
<1>1. EvidenceInv => ReportedDurable
  BY DEF EvidenceInv, EvidenceOK, AnswerOK, HoldsRequest, LedgerOnRecord, IsOnRecord,
         ReportedDurable
<1> QED
  BY <1>1, EvidenceInvariant, PTL

\* In witnessed mode the approval an effect spent was not given by the principal
\* the effect belongs to: the check of decide_approval survives every interleaving.
THEOREM FourEyesTheorem == Spec => []FourEyes
<1>1. EvidenceInv => FourEyes
  BY DEF EvidenceInv, ApprovedEffect, NoSelfApproval, FourEyes
<1> QED
  BY <1>1, EvidenceInvariant, PTL

\* The approval store's theorem on decisions, carried over to the pipeline: no
\* approval is decided or consumed later than the store's clock allows.
THEOREM DecidedInTimeHere == Spec => DecidedInTime
<1> QED
  BY UsesApprovalStore, DecidedInTimeTheorem, PTL

=============================================================================
