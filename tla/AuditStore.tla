----------------------------- MODULE AuditStore -----------------------------
(***************************************************************************)
(* The local audit store of henosis-audit, for one tenant: the hash-chained*)
(* event log, the execution ledger, the operators' conclusions and the     *)
(* fail-closed state of the stream.                                        *)
(*                                                                         *)
(* A slot is a principal-scoped idempotency key.  The event hash is        *)
(* collision free and covers the previous hash, and rows are never updated *)
(* or deleted, so the row number stands for the row's hash.  Every method  *)
(* is one immediate transaction under the connection's mutex, hence one    *)
(* step.                                                                   *)
(***************************************************************************)
EXTENDS GovernedRequests, Sequences

CONSTANTS
    Slots,          \* (principal, idempotency key) pairs
    SlotOf,         \* the slot each request names
    Results,        \* sanitized results
    Oversized,      \* the results above MAX_SANITIZED_RESULT_BYTES
    NoResult        \* sanitized_result_json IS NULL

ASSUME AuditConstants ==
    /\ SlotOf \in [Requests -> Slots]
    /\ Oversized \subseteq Results
    /\ NoResult \notin Results

VARIABLES
    log,            \* audit_events, by sequence number
    attached,       \* the rows whose witness_receipt_json is set
    ledger,         \* execution_records: slot -> row
    resolutions,    \* execution_resolutions: slot -> row
    stream          \* audit_stream_state

auditVars == <<log, attached, ledger, resolutions, stream>>

Conclusions == {"executed", "not_executed"}

\* The unique key of an event beside its phase: the slot it is about and, for
\* the event of a resolution, the operator in whose name it is written.
EventKey == [slot : Slots, resolver : Actors \union {NoActor}]

Event == [phase : {"intent", "outcome"}, key : EventKey, request : Requests,
          approval : ApprovalIds \union {NoApproval},
          verdict : {"none", "succeeded", "failed"} \union Conclusions]

ExecutionState == {"claimed", "completed", "indeterminate"}

ExecutionRecord == [request : Requests, state : ExecutionState,
                    result : Results \union {NoResult}, intent : Nat]

ExecutionResolution == [conclusion : Conclusions, by : Actors, row : Nat, finalized : BOOLEAN]

AuditTypeOK ==
    /\ log \in Seq(Event)
    /\ attached \subseteq DOMAIN log
    /\ DOMAIN ledger \subseteq Slots
    /\ ledger \in [DOMAIN ledger -> ExecutionRecord]
    /\ DOMAIN resolutions \subseteq Slots
    /\ resolutions \in [DOMAIN resolutions -> ExecutionResolution]
    /\ stream \in {"unset", "blocked", "open"}

-----------------------------------------------------------------------------
(* Events.                                                                 *)

\* The intent of before_execute; its payload cites the supplied approval.
IntentEvent(r, a) ==
    [phase |-> "intent", key |-> [slot |-> SlotOf[r], resolver |-> NoActor],
     request |-> r, approval |-> a, verdict |-> "none"]

\* The terminal event of after_execute.
OutcomeEvent(r, verdict) ==
    [phase |-> "outcome", key |-> [slot |-> SlotOf[r], resolver |-> NoActor],
     request |-> r, approval |-> NoApproval, verdict |-> verdict]

\* The event reserved with an operator's conclusion on slot s.
ResolutionEvent(s, actor, conclusion) ==
    [phase |-> "outcome", key |-> [slot |-> s, resolver |-> actor],
     request |-> ledger[s].request, approval |-> NoApproval, verdict |-> conclusion]

\* Lookup by tenant, principal, phase and idempotency key.
RowsKeyed(e) == {n \in DOMAIN log : log[n].phase = e.phase /\ log[n].key = e.key}

IsWritable == stream # "blocked"

\* An append succeeds when the stream is open and a row under the same key, if
\* there is one, is identical; that row is then returned and nothing is added.
CanAppend(e) == IsWritable /\ \A n \in RowsKeyed(e) : log[n] = e

LogWith(e) == IF RowsKeyed(e) = {} THEN Append(log, e) ELSE log

RowFor(e) == IF RowsKeyed(e) = {} THEN Len(log) + 1 ELSE CHOOSE n \in RowsKeyed(e) : TRUE

WithEntry(table, s, entry) ==
    [q \in DOMAIN table \union {s} |-> IF q = s THEN entry ELSE table[q]]

-----------------------------------------------------------------------------
(* Operations.  Each is the transaction that changes the store; the calls  *)
(* that return an existing row or an error change nothing.                 *)

AppendEvent(e) ==
    /\ CanAppend(e)
    /\ log' = LogWith(e)
    /\ UNCHANGED <<attached, ledger, resolutions, stream>>

\* Variant: a slot whose earlier execution is indeterminate may be claimed again.
IsUnclaimedOrFailed(s) == s \in DOMAIN ledger => ledger[s].state = "indeterminate"

IsUnclaimed(s) == s \notin DOMAIN ledger

CanClaim(r, a) == IsUnclaimed(SlotOf[r]) /\ CanAppend(IntentEvent(r, a))

\* claim_execution returning Acquired.
ClaimExecution(r, a) ==
    /\ CanClaim(r, a)
    /\ log' = LogWith(IntentEvent(r, a))
    /\ ledger' = WithEntry(ledger, SlotOf[r],
                    [request |-> r, state |-> "claimed", result |-> NoResult,
                     intent |-> RowFor(IntentEvent(r, a))])
    /\ UNCHANGED <<attached, resolutions, stream>>

\* Variant: ensure_execution_hash is forgotten.
HoldsAnyRequest(r) == SlotOf[r] \in DOMAIN ledger

\* claim_execution returning Existing: the key is known for the same request.
HoldsRequest(r) == SlotOf[r] \in DOMAIN ledger /\ ledger[SlotOf[r]].request = r

IsClaimedBy(r) == HoldsRequest(r) /\ ledger[SlotOf[r]].state = "claimed"

CanComplete(r, result) ==
    /\ result \notin Oversized
    /\ IsClaimedBy(r)
    /\ CanAppend(OutcomeEvent(r, "succeeded"))

CompleteExecution(r, result) ==
    /\ CanComplete(r, result)
    /\ log' = LogWith(OutcomeEvent(r, "succeeded"))
    /\ ledger' = [ledger EXCEPT ![SlotOf[r]] =
                    [request |-> r, state |-> "completed", result |-> result, intent |-> @.intent]]
    /\ UNCHANGED <<attached, resolutions, stream>>

MarkIndeterminate(r) ==
    /\ IsClaimedBy(r)
    /\ ledger' = [ledger EXCEPT ![SlotOf[r]].state = "indeterminate"]
    /\ UNCHANGED <<log, attached, resolutions, stream>>

\* Variant: a claimed execution may be concluded too.
IsConcludableEarly(s) == s \in DOMAIN ledger /\ ledger[s].state # "completed"

IsConcludable(s) == s \in DOMAIN ledger /\ ledger[s].state = "indeterminate"

CanResolve(s, actor, conclusion) ==
    /\ s \notin DOMAIN resolutions
    /\ IsConcludable(s)
    /\ CanAppend(ResolutionEvent(s, actor, conclusion))

\* begin_execution_resolution reserving a new conclusion.
BeginResolution(s, actor, conclusion) ==
    /\ CanResolve(s, actor, conclusion)
    /\ log' = LogWith(ResolutionEvent(s, actor, conclusion))
    /\ resolutions' = WithEntry(resolutions, s,
                         [conclusion |-> conclusion, by |-> actor,
                          row |-> RowFor(ResolutionEvent(s, actor, conclusion)),
                          finalized |-> FALSE])
    /\ UNCHANGED <<attached, ledger, stream>>

\* ensure_resolution_match
ResolvedAs(s, actor, conclusion) ==
    /\ s \in DOMAIN resolutions
    /\ resolutions[s].by = actor
    /\ resolutions[s].conclusion = conclusion

CanFinalize(s, actor, conclusion, requireWitness) ==
    /\ ResolvedAs(s, actor, conclusion)
    /\ requireWitness => resolutions[s].row \in attached

FinalizeResolution(s, actor, conclusion, requireWitness) ==
    /\ CanFinalize(s, actor, conclusion, requireWitness)
    /\ resolutions' = [resolutions EXCEPT ![s].finalized = TRUE]
    /\ UNCHANGED <<log, attached, ledger, stream>>

MarkStreamAmbiguous ==
    /\ stream' = "blocked"
    /\ UNCHANGED <<log, attached, ledger, resolutions>>

AttachWitnessReceipt(n) ==
    /\ n \in DOMAIN log
    /\ attached' = attached \union {n}
    /\ UNCHANGED <<log, ledger, resolutions, stream>>

\* recover_witnessed_stream: row n is still the head, and is receipted.
CanRecover(n) == n = Len(log) /\ n \in attached /\ stream # "unset"

RecoverWitnessedStream(n) ==
    /\ CanRecover(n)
    /\ stream' = "open"
    /\ UNCHANGED <<log, attached, ledger, resolutions>>

-----------------------------------------------------------------------------
(* The store under arbitrary callers.                                      *)

AuditInit ==
    /\ log = <<>>
    /\ attached = {}
    /\ ledger = [s \in {} |-> NoResult]
    /\ resolutions = [s \in {} |-> NoResult]
    /\ stream = "unset"

AuditNext ==
    \/ \E r \in Requests, a \in ApprovalIds \union {NoApproval} : AppendEvent(IntentEvent(r, a))
    \/ \E r \in Requests, v \in {"succeeded", "failed"} : AppendEvent(OutcomeEvent(r, v))
    \/ \E r \in Requests, a \in ApprovalIds \union {NoApproval} : ClaimExecution(r, a)
    \/ \E r \in Requests, v \in Results : CompleteExecution(r, v)
    \/ \E r \in Requests : MarkIndeterminate(r)
    \/ \E s \in Slots, o \in Actors, c \in Conclusions : BeginResolution(s, o, c)
    \/ \E s \in Slots, o \in Actors, c \in Conclusions, w \in BOOLEAN :
          FinalizeResolution(s, o, c, w)
    \/ MarkStreamAmbiguous
    \/ \E n \in DOMAIN log : AttachWitnessReceipt(n)
    \/ \E n \in DOMAIN log : RecoverWitnessedStream(n)

AuditSpec == AuditInit /\ [][AuditNext]_auditVars

-----------------------------------------------------------------------------
(* Properties.                                                             *)

\* One row per phase and key: retries, the two appends of a witnessed claim and
\* concurrent callers never write an event twice.
EventsUnique ==
    \A m, n \in DOMAIN log :
        log[m].phase = log[n].phase /\ log[m].key = log[n].key => m = n

ExecutionOnLog(s) ==
    /\ ledger[s].intent \in DOMAIN log
    /\ \E a \in ApprovalIds \union {NoApproval} :
          log[ledger[s].intent] = IntentEvent(ledger[s].request, a)
    /\ SlotOf[ledger[s].request] = s
    /\ ledger[s].state = "completed" =>
          /\ ledger[s].result # NoResult
          /\ \E n \in DOMAIN log : log[n] = OutcomeEvent(ledger[s].request, "succeeded")

\* Every execution record cites the row of its own intent, and a completed one
\* has a succeeded outcome on the log: the ledger never says more than the log.
LedgerOnLog == \A s \in DOMAIN ledger : ExecutionOnLog(s)

ConclusionOnLog(s) ==
    /\ s \in DOMAIN ledger
    /\ ledger[s].state = "indeterminate"
    /\ resolutions[s].row \in DOMAIN log
    /\ log[resolutions[s].row] = ResolutionEvent(s, resolutions[s].by, resolutions[s].conclusion)

\* A conclusion exists only for an execution that is, and stays, indeterminate,
\* and its event is on the log under the name of the operator who drew it.
ConclusionsOnLog == \A s \in DOMAIN resolutions : ConclusionOnLog(s)

AuditInv == AuditTypeOK /\ EventsUnique /\ LedgerOnLog /\ ConclusionsOnLog

LedgerStep ==
    /\ \A s \in DOMAIN ledger :
          /\ s \in DOMAIN ledger'
          /\ ledger'[s].request = ledger[s].request
          /\ ledger[s].state # "claimed" => ledger'[s] = ledger[s]
    /\ \A s \in DOMAIN resolutions :
          /\ s \in DOMAIN resolutions'
          /\ resolutions'[s].conclusion = resolutions[s].conclusion
          /\ resolutions'[s].by = resolutions[s].by
          /\ resolutions[s].finalized => resolutions'[s] = resolutions[s]

\* A settled execution is never reopened, downgraded or given another result,
\* and a conclusion is never altered.
LedgerMonotone == [][LedgerStep]_auditVars

LogStep ==
    /\ Len(log) <= Len(log')
    /\ \A n \in DOMAIN log : log'[n] = log[n]
    /\ stream = "blocked" => log' = log

\* The log only grows, and not at all while the stream is blocked.
LogAppendOnly == [][LogStep]_auditVars

=============================================================================
