-------------------------- MODULE GovernedDispatch --------------------------
(***************************************************************************)
(* The governed pipeline: concurrent requests to the authority API of      *)
(* syntheos-server over one approval store, one audit store and one        *)
(* witness.  A task is one HTTP handler.  Its pc names the next call it     *)
(* makes; calls into a store are single transactions, and everything       *)
(* between two of them may be interleaved with other tasks, cut short by a *)
(* crash of the process or, at an await, by the client going away.         *)
(***************************************************************************)
EXTENDS ApprovalStore, AuditStore

CONSTANTS
    Tasks,              \* concurrent handlers
    NoRequest,          \* the request of a task that serves none
    PrincipalOf,        \* the principal each slot belongs to
    NeedsApproval,      \* requests for which requires_human_approval holds
    Witnessed,          \* AuditBoundary::Witnessed rather than Local
    Failures            \* the environment's failures that may happen

ASSUME DispatchConstants ==
    /\ NoRequest \notin Requests
    /\ NeedsApproval \subseteq Requests
    /\ Witnessed \in BOOLEAN
    /\ PrincipalOf \in [Slots -> Actors \union {NoActor}]
    /\ Failures \subseteq {"crash", "abandon", "storage"}

VARIABLES
    witnessReceipts,    \* the witness service's tables
    witnessHead,
    task,               \* the state of each handler
    orphans,            \* rows whose checkpoint was sent by a handler that is gone
    effects             \* how often each request's side effect has happened

\* Row n of the one local log, as its origin signs it.
CheckpointOf(n) == [seq |-> n, prev |-> n - 1, hash |-> n]

INSTANCE Witness WITH
    Hashes <- Nat \ {0},
    GenesisHash <- 0,
    AuthenticCheckpoints <- {c \in [seq : Nat \ {0}, prev : Nat, hash : Nat \ {0}] :
                                c = CheckpointOf(c.seq)}

receiptVars == <<witnessReceipts, witnessHead>>

pipelineVars == <<approvals, now, log, attached, ledger, resolutions, stream,
                  witnessReceipts, witnessHead, task, orphans, effects>>

-----------------------------------------------------------------------------
(* Tasks.                                                                  *)

AwaitPcs == {"await_intent", "await_outcome", "await_failure", "await_resolution", "await_head"}

StorePcs == {"lookup", "append_intent", "acquire", "consume", "append_outcome", "complete",
             "append_failure", "block", "mark", "finalize", "recover"}

Pcs == AwaitPcs \union StorePcs \union {"idle", "human", "execute", "executed"}

Task == [pc : Pcs, request : Requests \union {NoRequest},
         approval : ApprovalIds \union {NoApproval}, row : Nat,
         wire : {"none", "sent", "accepted", "refused"}, result : Results \union {NoResult},
         actor : Actors \union {NoActor}, conclusion : Conclusions \union {"none"}]

\* A dispatch of request r that supplies approval a.
Serving(pc, r, a) ==
    [pc |-> pc, request |-> r, approval |-> a, row |-> 0, wire |-> "none",
     result |-> NoResult, actor |-> NoActor, conclusion |-> "none"]

IdleTask == Serving("idle", NoRequest, NoApproval)

SlotAt(p) == SlotOf[task[p].request]

\* The handler goes on to its next call; what it serves stays the same.
Advance(p, next, row, wire, result) ==
    task' = [task EXCEPT ![p] =
                [pc |-> next, request |-> @.request, approval |-> @.approval, row |-> row,
                 wire |-> wire, result |-> result, actor |-> @.actor, conclusion |-> @.conclusion]]

Goto(p, next) == Advance(p, next, 0, "none", task[p].result)

Finish(p) == task' = [task EXCEPT ![p] = IdleTask]

AfterReceipt(pc) ==
    CASE pc = "await_intent" -> "acquire"
      [] pc = "await_outcome" -> "complete"
      [] pc = "await_failure" -> "mark"
      [] pc = "await_resolution" -> "finalize"
      [] pc = "await_head" -> "recover"

\* Variant: the witness is consulted on a best-effort basis.
OnErrorBestEffort(pc) == IF pc \in AwaitPcs THEN AfterReceipt(pc) ELSE "idle"

\* Variant: no error closes the claim.
OnErrorEnds(pc) == "idle"

\* Where each call's error leads: a failed completion blocks a witnessed stream,
\* a failed outcome closes the claim, any other error ends the request.
OnError(pc) ==
    CASE pc \in {"append_outcome", "await_outcome", "complete"} ->
            IF Witnessed THEN "block" ELSE "mark"
      [] pc \in {"append_failure", "await_failure", "block"} -> "mark"
      [] OTHER -> "idle"

Fail(p) ==
    LET next == OnError(task[p].pc)
    IN  IF next = "idle" THEN Finish(p) ELSE Goto(p, next)

\* witness_record: a row that has its receipt needs no checkpoint.
Checkpointed(p, n, waiting, done) ==
    IF n \in attached THEN Advance(p, done, n, "none", task[p].result)
                      ELSE Advance(p, waiting, n, "sent", task[p].result)

-----------------------------------------------------------------------------
(* Dispatch: the gate chain.                                               *)

\* The handler up to the human gate.  The gates before it, pistis, plutus and
\* eidolon, touch none of this state: a request one of them denies never shows.
StartDispatch(p, r, a) ==
    /\ task[p].pc = "idle"
    /\ task' = [task EXCEPT ![p] = Serving("human", r, a)]
    /\ UNCHANGED <<approvalVars, auditVars, receiptVars, orphans, effects>>

\* Variant: an approval that is still pending is good enough.
GateAllowsPending(r, a) ==
    \/ r \notin NeedsApproval
    \/ /\ a \in DOMAIN approvals
       /\ approvals[a].request = r

\* DurableHumanGate: the supplied approval is bound to this request and reads
\* as approved, or as consumed, which the execution guard then sorts out.  get
\* reads the clock itself, so the gate's own, older reading expires nothing more.
HumanGateAllows(r, a) ==
    \/ r \notin NeedsApproval
    \/ /\ a \in DOMAIN approvals
       /\ approvals[a].request = r
       /\ EffectiveStatus(approvals[a], now) \in {"approved", "consumed"}

\* The human gate, then phylaxd, which may still deny.  A denial, an escalation
\* and an error all end the request.
HumanGate(p) ==
    LET r == task[p].request
        a == task[p].approval
    IN
    /\ task[p].pc = "human"
    /\ \/ /\ HumanGateAllows(r, a)
          /\ Goto(p, IF Witnessed THEN "lookup" ELSE "acquire") \/ Finish(p)
          /\ UNCHANGED approvalVars
       \/ /\ r \in NeedsApproval /\ a = NoApproval
          /\ \E t \in ClockReadings, i \in ApprovalIds : CreateOrGetPending(r, t, i)
          /\ Finish(p)
       \/ /\ a # NoApproval /\ ~HumanGateAllows(r, a)
          /\ Finish(p)
          /\ UNCHANGED approvalVars
    /\ UNCHANGED <<auditVars, receiptVars, orphans, effects>>

-----------------------------------------------------------------------------
(* Dispatch: AuditExecutionGuard::before_execute.                          *)

\* WitnessedAudit::claim_execution looks for a record first.
LookUp(p) ==
    /\ task[p].pc = "lookup"
    /\ Goto(p, IF IsUnclaimed(SlotAt(p)) THEN "append_intent" ELSE "acquire")
    /\ UNCHANGED <<approvalVars, auditVars, receiptVars, orphans, effects>>

AppendIntent(p) ==
    LET e == IntentEvent(task[p].request, task[p].approval) IN
    /\ task[p].pc = "append_intent"
    /\ IF CanAppend(e)
       THEN AppendEvent(e) /\ Checkpointed(p, RowFor(e), "await_intent", "acquire")
       ELSE Fail(p) /\ UNCHANGED auditVars
    /\ UNCHANGED <<approvalVars, receiptVars, orphans, effects>>

\* Variant: an indeterminate key is replayed.
IsReplayableToo(r) ==
    HoldsRequest(r) /\ ledger[SlotOf[r]].state \in {"completed", "indeterminate"}

IsReplayable(r) == HoldsRequest(r) /\ ledger[SlotOf[r]].state = "completed"

\* AuditStore::claim_execution, and what before_execute makes of its answer.
Acquire(p) ==
    LET r == task[p].request
        a == task[p].approval
    IN
    /\ task[p].pc = "acquire"
    /\ \/ /\ ClaimExecution(r, a)
          /\ Goto(p, IF a = NoApproval THEN "execute" ELSE "consume")
       \/ /\ IsReplayable(r)
          /\ Advance(p, "executed", 0, "none", ledger[SlotOf[r]].result)
          /\ UNCHANGED auditVars
       \/ /\ ~CanClaim(r, a) /\ ~IsReplayable(r)
          /\ Fail(p)
          /\ UNCHANGED auditVars
    /\ UNCHANGED <<approvalVars, receiptVars, orphans, effects>>

\* Variant: a refused consumption is not noticed.
AfterRefusalIgnored == "execute"

\* Variant: a refused consumption ends the request, as a refused claim does.
AfterRefusalEnds == "idle"

\* A refused consumption closes the claim as indeterminate.
AfterRefusal == "mark"

Consume(p) ==
    /\ task[p].pc = "consume"
    /\ \E t \in ClockReadings :
          \/ ConsumeApproved(task[p].approval, task[p].request, t) /\ Goto(p, "execute")
          \/ RefuseConsumption(task[p].approval, task[p].request, t) /\ Goto(p, AfterRefusal)
    /\ UNCHANGED <<auditVars, receiptVars, orphans, effects>>

-----------------------------------------------------------------------------
(* Dispatch: the executor and AuditExecutionGuard::after_execute.          *)

HappenOnce(r) == effects' = [effects EXCEPT ![r] = @ + 1]

Execute(p) ==
    LET r == task[p].request IN
    /\ task[p].pc = "execute"
    /\ \/ \E v \in Results :
             /\ HappenOnce(r)
             /\ Advance(p, IF Witnessed THEN "append_outcome" ELSE "complete", 0, "none", v)
       \/ /\ HappenOnce(r) \/ UNCHANGED effects
          /\ Goto(p, "append_failure")
    /\ UNCHANGED <<approvalVars, auditVars, receiptVars, orphans>>

\* WitnessedAudit::complete_execution up to its checkpoint.
AppendOutcome(p) ==
    LET e == OutcomeEvent(task[p].request, "succeeded") IN
    /\ task[p].pc = "append_outcome"
    /\ IF IsClaimedBy(task[p].request) /\ CanAppend(e)
       THEN AppendEvent(e) /\ Checkpointed(p, RowFor(e), "await_outcome", "complete")
       ELSE Fail(p) /\ UNCHANGED auditVars
    /\ UNCHANGED <<approvalVars, receiptVars, orphans, effects>>

Complete(p) ==
    LET r == task[p].request IN
    /\ task[p].pc = "complete"
    /\ IF CanComplete(r, task[p].result)
       THEN /\ CompleteExecution(r, task[p].result)
            /\ Goto(p, "executed")
       ELSE Fail(p) /\ UNCHANGED auditVars
    /\ UNCHANGED <<approvalVars, receiptVars, orphans, effects>>

AppendFailure(p) ==
    LET e == OutcomeEvent(task[p].request, "failed") IN
    /\ task[p].pc = "append_failure"
    /\ IF CanAppend(e)
       THEN /\ AppendEvent(e)
            /\ IF Witnessed THEN Checkpointed(p, RowFor(e), "await_failure", "mark")
                            ELSE Goto(p, "mark")
       ELSE Fail(p) /\ UNCHANGED auditVars
    /\ UNCHANGED <<approvalVars, receiptVars, orphans, effects>>

Block(p) ==
    /\ task[p].pc = "block"
    /\ MarkStreamAmbiguous
    /\ Goto(p, "mark")
    /\ UNCHANGED <<approvalVars, receiptVars, orphans, effects>>

Mark(p) ==
    /\ task[p].pc = "mark"
    /\ IF IsClaimedBy(task[p].request) THEN MarkIndeterminate(task[p].request)
                                       ELSE UNCHANGED auditVars
    /\ Finish(p)
    /\ UNCHANGED <<approvalVars, receiptVars, orphans, effects>>

\* The handler answers with the result.
Reply(p) ==
    /\ task[p].pc = "executed"
    /\ Finish(p)
    /\ UNCHANGED <<approvalVars, auditVars, receiptVars, orphans, effects>>

-----------------------------------------------------------------------------
(* Checkpoints on their way to the witness and back.                       *)

ServeCheckpoint(p) ==
    LET c == CheckpointOf(task[p].row) IN
    /\ task[p].wire = "sent"
    /\ \/ Accept(c) /\ Advance(p, task[p].pc, task[p].row, "accepted", task[p].result)
       \/ Refuse(c) /\ Advance(p, task[p].pc, task[p].row, "refused", task[p].result)
    /\ UNCHANGED <<approvalVars, auditVars, orphans, effects>>

\* A checkpoint whose sender has given up arrives late.
ServeOrphan(n) ==
    /\ Accept(CheckpointOf(n)) \/ Refuse(CheckpointOf(n))
    /\ orphans' = orphans \ {n}
    /\ UNCHANGED <<approvalVars, auditVars, task, effects>>

ReceiveReceipt(p) ==
    /\ task[p].wire = "accepted"
    /\ AttachWitnessReceipt(task[p].row)
    /\ Advance(p, AfterReceipt(task[p].pc), task[p].row, "none", task[p].result)
    /\ UNCHANGED <<approvalVars, receiptVars, orphans, effects>>

ReceiveRefusal(p) ==
    /\ task[p].wire = "refused"
    /\ Fail(p)
    /\ UNCHANGED <<approvalVars, auditVars, receiptVars, orphans, effects>>

\* A checkpoint that is on its way is lost, or outlives the task that sent it.
LeaveBehind(ps) ==
    \E late \in SUBSET {task[p].row : p \in {q \in ps : task[q].wire = "sent"}} :
        orphans' = orphans \union late

\* The request timeout of the witness client, or a broken connection: whether
\* the witness has seen the checkpoint, or will, is unknown.
Timeout(p) ==
    /\ task[p].wire \in {"sent", "accepted"}
    /\ Fail(p)
    /\ LeaveBehind({p})
    /\ UNCHANGED <<approvalVars, auditVars, receiptVars, effects>>

-----------------------------------------------------------------------------
(* Human operators.                                                        *)

\* Variant: the requester may approve its own request in witnessed mode too.
MayDecideAnything(i, verdict, actor) == i \in DOMAIN approvals

\* decide_approval: in witnessed mode nobody approves a request of their own.
\* The row's principal never changes, so reading it ahead of decide is harmless.
MayDecide(i, verdict, actor) ==
    /\ i \in DOMAIN approvals
    /\ verdict = "approved" /\ Witnessed => PrincipalOf[SlotOf[approvals[i].request]] # actor

DecideApproval(i, verdict, actor) ==
    /\ MayDecide(i, verdict, actor)
    /\ \E t \in ClockReadings : Decide(i, verdict, actor, t)
    /\ UNCHANGED <<auditVars, receiptVars, task, orphans, effects>>

ListApprovals ==
    /\ \E t \in ClockReadings : Expire(t)
    /\ UNCHANGED <<auditVars, receiptVars, task, orphans, effects>>

\* resolve_indeterminate_execution: the conclusion is reserved with its event, or
\* found reserved already, and then witnessed unless it is final.
StartResolve(p, s, actor, conclusion) ==
    /\ task[p].pc = "idle"
    /\ \/ BeginResolution(s, actor, conclusion)
       \/ ResolvedAs(s, actor, conclusion) /\ UNCHANGED auditVars
    /\ LET n    == resolutions'[s].row
           done == ~Witnessed \/ resolutions'[s].finalized \/ n \in attached
       IN  task' = [task EXCEPT ![p] =
                       [pc |-> IF done THEN "finalize" ELSE "await_resolution",
                        request |-> ledger[s].request, approval |-> NoApproval, row |-> n,
                        wire |-> IF done THEN "none" ELSE "sent", result |-> NoResult,
                        actor |-> actor, conclusion |-> conclusion]]
    /\ UNCHANGED <<approvalVars, receiptVars, orphans, effects>>

Finalize(p) ==
    LET s == SlotAt(p)
        o == task[p].actor
        c == task[p].conclusion
    IN
    /\ task[p].pc = "finalize"
    /\ IF CanFinalize(s, o, c, Witnessed) THEN FinalizeResolution(s, o, c, Witnessed)
                                          ELSE UNCHANGED auditVars
    /\ Finish(p)
    /\ UNCHANGED <<approvalVars, receiptVars, orphans, effects>>

\* recover_stream: the head is read, exact-retried, and must still be the head.
StartRecover(p) ==
    /\ Witnessed
    /\ task[p].pc = "idle"
    /\ stream # "unset" /\ log # <<>>
    /\ Checkpointed(p, Len(log), "await_head", "recover")
    /\ UNCHANGED <<approvalVars, auditVars, receiptVars, orphans, effects>>

Recover(p) ==
    /\ task[p].pc = "recover"
    /\ IF CanRecover(task[p].row) THEN RecoverWitnessedStream(task[p].row) ELSE UNCHANGED auditVars
    /\ Finish(p)
    /\ UNCHANGED <<approvalVars, receiptVars, orphans, effects>>

-----------------------------------------------------------------------------
(* Failures.                                                               *)

\* The server process stops; only what the stores committed survives.
Crash ==
    /\ "crash" \in Failures
    /\ \E p \in Tasks : task[p].pc # "idle"
    /\ LeaveBehind(Tasks)
    /\ task' = [p \in Tasks |-> IdleTask]
    /\ UNCHANGED <<approvalVars, auditVars, receiptVars, effects>>

\* The client goes away and the handler's future is dropped at an await; a call
\* the executor had under way may still take effect.
Abandon(p) ==
    /\ "abandon" \in Failures
    /\ task[p].pc \in AwaitPcs \union {"execute"}
    /\ LeaveBehind({p})
    /\ Finish(p)
    /\ \/ UNCHANGED effects
       \/ task[p].pc = "execute" /\ HappenOnce(task[p].request)
    /\ UNCHANGED <<approvalVars, auditVars, receiptVars>>

\* A transaction fails without effect, or its answer cannot be stored.
StorageFault(p) ==
    /\ "storage" \in Failures
    /\ task[p].pc \in StorePcs \/ task[p].wire = "accepted"
    /\ Fail(p)
    /\ UNCHANGED <<approvalVars, auditVars, receiptVars, orphans, effects>>

-----------------------------------------------------------------------------
(* The specification.                                                      *)

Init ==
    /\ ApprovalInit
    /\ AuditInit
    /\ WitnessInit
    /\ task = [p \in Tasks |-> IdleTask]
    /\ orphans = {}
    /\ effects = [r \in Requests |-> 0]

\* The steps of a task that has been started, other than failures.
TaskStep(p) ==
    \/ HumanGate(p) \/ LookUp(p) \/ AppendIntent(p) \/ Acquire(p) \/ Consume(p)
    \/ Execute(p) \/ AppendOutcome(p) \/ Complete(p) \/ AppendFailure(p)
    \/ Block(p) \/ Mark(p) \/ Reply(p)
    \/ ReceiveReceipt(p) \/ ReceiveRefusal(p) \/ Timeout(p)
    \/ Finalize(p) \/ Recover(p)

StartTask(p) ==
    \/ \E r \in Requests, a \in ApprovalIds \union {NoApproval} : StartDispatch(p, r, a)
    \/ \E s \in Slots, o \in Actors, c \in Conclusions : StartResolve(p, s, o, c)
    \/ StartRecover(p)

ClockTick == Tick /\ UNCHANGED <<auditVars, receiptVars, task, orphans, effects>>

Next ==
    \/ \E p \in Tasks : StartTask(p) \/ TaskStep(p) \/ ServeCheckpoint(p)
    \/ \E p \in Tasks : Abandon(p) \/ StorageFault(p)
    \/ \E n \in orphans : ServeOrphan(n)
    \/ \E i \in ApprovalIds, verdict \in {"approved", "denied"}, o \in Actors :
          DecideApproval(i, verdict, o)
    \/ ListApprovals
    \/ ClockTick
    \/ Crash

Spec == Init /\ [][Next]_pipelineVars

\* The runtime polls every handler that can move, and the witness client's
\* timeout bounds every wait for the witness.
LiveSpec == Spec /\ \A p \in Tasks : WF_pipelineVars(TaskStep(p))

-----------------------------------------------------------------------------
(* Properties.                                                             *)

PipelineTypeOK ==
    /\ task \in [Tasks -> Task]
    /\ effects \in [Requests -> Nat]

\* At most one side effect per idempotency key, whichever requests compete for
\* the key and however often they are retried, crash or are given up.
AtMostOnce ==
    \A q, r \in Requests :
        SlotOf[q] = SlotOf[r] /\ effects[q] > 0 => effects[r] = IF q = r THEN 1 ELSE 0

\* An effect is preceded by its claim and its intent; in witnessed mode the
\* independent witness holds that intent.
IntentBeforeEffect ==
    \A r \in Requests : effects[r] > 0 =>
        /\ HoldsRequest(r)
        /\ ledger[SlotOf[r]].intent \in DOMAIN log
        /\ Witnessed => ledger[SlotOf[r]].intent \in attached \intersect DOMAIN witnessReceipts

\* The approval cited by the intent of the execution that holds r's slot.
CitedApproval(r) == log[ledger[SlotOf[r]].intent].approval

\* An effect that needs a human decision spent the approval its intent cites: a
\* row for exactly this request, approved by somebody and now consumed.
ApprovedEffect ==
    \A r \in NeedsApproval : effects[r] > 0 =>
        /\ CitedApproval(r) \in DOMAIN approvals
        /\ approvals[CitedApproval(r)].request = r
        /\ approvals[CitedApproval(r)].status = "consumed"
        /\ approvals[CitedApproval(r)].actor # NoActor

\* A key is never used up by a request that nobody has approved: the claim of a
\* request that needs approval cites a row for it that was decided in its favour,
\* even if the approval expires before it is consumed.
ClaimedUnderApproval ==
    \A r \in NeedsApproval : HoldsRequest(r) =>
        /\ CitedApproval(r) \in DOMAIN approvals
        /\ approvals[CitedApproval(r)].request = r
        /\ approvals[CitedApproval(r)].status \in {"approved", "consumed", "expired"}
        /\ approvals[CitedApproval(r)].actor # NoActor

\* In witnessed mode nobody approves an effect of their own.
FourEyes ==
    \A r \in NeedsApproval : Witnessed /\ effects[r] > 0 =>
        approvals[CitedApproval(r)].actor # PrincipalOf[SlotOf[r]]

\* A result is answered, first hand or replayed, only when it is the recorded
\* result of an effect whose outcome is on the log, and witnessed if need be.
ReportedDurable ==
    \A p \in Tasks : task[p].pc = "executed" =>
        LET r == task[p].request IN
        /\ HoldsRequest(r)
        /\ ledger[SlotOf[r]].state = "completed"
        /\ ledger[SlotOf[r]].result = task[p].result
        /\ effects[r] = 1
        /\ \E n \in DOMAIN log :
              /\ log[n] = OutcomeEvent(r, "succeeded")
              /\ Witnessed => n \in attached

\* The witness never runs ahead of the local log, and a receipt is attached only
\* to a row that the witness preserves, whatever got lost or arrived late.
ReceiptsTruthful ==
    /\ witnessHead.seq <= Len(log)
    /\ attached \subseteq DOMAIN witnessReceipts
    /\ DOMAIN witnessReceipts = 1..witnessHead.seq

\* A blocked stream is reopened only when the witness holds the whole local log.
RecoverySound ==
    [][stream = "blocked" /\ stream' = "open" => witnessHead.seq = Len(log)]_pipelineVars

\* Once an operator has concluded an execution no effect of its slot happens any
\* more: the evidence the conclusion rests on cannot be overtaken.
ConcludedIsOver ==
    [][\A r \in Requests : SlotOf[r] \in DOMAIN resolutions => effects'[r] = effects[r]]_pipelineVars

Once == INSTANCE OnceExecution WITH
    record <- [s \in DOMAIN ledger |->
                  [request |-> ledger[s].request, state |-> ledger[s].state,
                   result |-> ledger[s].result]]

\* The pipeline implements the execution guard's promise.
RefinesOnce == Once!OnceSpec

\* Every handler ends, with no help from the witness or from other handlers.
HandlersFinish == \A p \in Tasks : task[p].pc # "idle" ~> task[p].pc = "idle"

\* Unless the process stops, a client goes away or a transaction fails, a claim
\* is settled: completed, or indeterminate and thereby in the operators' queue.
ClaimsSettle ==
    \A s \in Slots :
        (s \in DOMAIN ledger /\ ledger[s].state = "claimed")
        ~> (s \in DOMAIN ledger /\ ledger[s].state # "claimed")

-----------------------------------------------------------------------------
(* Why at most once: the inductive invariant.                              *)

\* The pcs of a dispatch, and of one that has acquired its claim.
OwnerPcs == {"consume", "execute", "append_outcome", "await_outcome", "complete",
             "append_failure", "await_failure", "block", "mark"}

ServingPcs == OwnerPcs \union {"human", "lookup", "append_intent", "await_intent", "acquire",
                               "executed"}

\* A handler waits for the witness only at an await, and serves a request.
HandlerOK(t) ==
    /\ t.wire # "none" => t.pc \in AwaitPcs
    /\ t.pc \in ServingPcs => t.request \in Requests

\* An owner's claim is open; before the executor runs nothing has happened, and
\* once it has succeeded the effect has happened and there is a result.
OwnerOK(t) ==
    t.pc \in OwnerPcs =>
        /\ IsClaimedBy(t.request)
        /\ t.pc \in {"consume", "execute"} => effects[t.request] = 0
        /\ t.pc \in {"append_outcome", "await_outcome", "complete"} =>
              effects[t.request] = 1 /\ t.result \in Results

\* A claim has one owner.
OneOwner ==
    \A p, q \in Tasks :
        task[p].pc \in OwnerPcs /\ task[q].pc \in OwnerPcs /\ SlotAt(p) = SlotAt(q) => p = q

\* A slot without a result is a claimed or an indeterminate one.
ResultsKept == \A s \in DOMAIN ledger : ledger[s].state # "completed" => ledger[s].result = NoResult

\* Only the holder of a slot has had an effect, and once.
EffectsHeld == \A r \in Requests : effects[r] > 0 => effects[r] = 1 /\ HoldsRequest(r)

ClaimInv ==
    /\ PipelineTypeOK
    /\ \A p \in Tasks : HandlerOK(task[p]) /\ OwnerOK(task[p])
    /\ OneOwner
    /\ ResultsKept
    /\ EffectsHeld

-----------------------------------------------------------------------------
(* Why receipts are truthful: the inductive invariant.                     *)

\* A checkpoint on its way is for a row of the log, and an accepted one is kept.
WireOK(t) ==
    /\ t.wire = "sent" => t.row \in DOMAIN log
    /\ t.wire = "accepted" => t.row \in DOMAIN witnessReceipts

WireInv ==
    /\ witnessHead.seq \in Nat
    /\ ReceiptsTruthful
    /\ orphans \subseteq DOMAIN log
    /\ \A p \in Tasks : WireOK(task[p])

-----------------------------------------------------------------------------
(* Why effects are approved and results durable: the inductive invariant.  *)

\* Event e stands on row n of the log, and in witnessed mode under a receipt.
IsOnRecord(n, e) == n \in DOMAIN log /\ log[n] = e /\ (Witnessed => n \in attached)

\* While a checkpoint is awaited its row holds the event that was appended; in
\* witnessed mode nobody claims a free slot without a receipt for the intent, or
\* completes a claim without one for the outcome.
RowOK(t) ==
    /\ t.pc = "await_intent" => t.row \in DOMAIN log /\ log[t.row] = IntentEvent(t.request, t.approval)
    /\ t.pc = "await_outcome" => t.row \in DOMAIN log /\ log[t.row] = OutcomeEvent(t.request, "succeeded")
    /\ Witnessed /\ t.pc = "acquire" /\ IsUnclaimed(SlotOf[t.request]) =>
          IsOnRecord(t.row, IntentEvent(t.request, t.approval))
    /\ Witnessed /\ t.pc = "complete" => IsOnRecord(t.row, OutcomeEvent(t.request, "succeeded"))

\* An answer is the recorded result.
AnswerOK(t) ==
    t.pc = "executed" =>
        /\ HoldsRequest(t.request)
        /\ ledger[SlotOf[t.request]].state = "completed"
        /\ ledger[SlotOf[t.request]].result = t.result

\* Row i is an approval of r that somebody gave, even if it has expired since.
Favours(i, r) ==
    /\ i \in DOMAIN approvals
    /\ approvals[i].request = r
    /\ approvals[i].status \in {"approved", "consumed", "expired"}
    /\ approvals[i].actor # NoActor

\* Past the human gate an approval was given; the claim cites the one the
\* handler brought, and the executor runs when that one is spent.
PermitOK(t) ==
    t.request \in NeedsApproval =>
        /\ t.pc \in {"lookup", "append_intent", "await_intent", "acquire"} =>
              Favours(t.approval, t.request)
        /\ t.pc = "consume" => CitedApproval(t.request) = t.approval
        /\ t.pc = "execute" => approvals[CitedApproval(t.request)].status = "consumed"

EvidenceOK(t) == RowOK(t) /\ AnswerOK(t) /\ PermitOK(t)

\* Every intent is on record, and every completed execution has had its effect
\* and has its outcome on record.
LedgerOnRecord ==
    \A s \in DOMAIN ledger :
        /\ Witnessed => ledger[s].intent \in attached
        /\ ledger[s].state = "completed" =>
              /\ effects[ledger[s].request] = 1
              /\ \E n \in DOMAIN log : IsOnRecord(n, OutcomeEvent(ledger[s].request, "succeeded"))

\* In witnessed mode no approval was given by the principal who asked for it.
NoSelfApproval ==
    Witnessed => \A i \in DOMAIN approvals :
        approvals[i].status \in {"approved", "consumed"} =>
            approvals[i].actor # PrincipalOf[SlotOf[approvals[i].request]]

EvidenceInv ==
    /\ \A p \in Tasks : EvidenceOK(task[p])
    /\ ClaimedUnderApproval
    /\ ApprovedEffect
    /\ LedgerOnRecord
    /\ NoSelfApproval

-----------------------------------------------------------------------------
(* What the documentation says and the code does not do.                   *)

NothingUnderWay == orphans = {} /\ \A p \in Tasks : task[p].pc = "idle"

\* README.md: with a healthy witness, a blocked stream can be restored.
BlockedIsRecoverable ==
    NothingUnderWay /\ stream = "blocked" /\ log # <<>> => IsAcceptable(CheckpointOf(Len(log)))

=============================================================================
