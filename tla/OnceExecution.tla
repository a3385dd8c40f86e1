--------------------------- MODULE OnceExecution ---------------------------
(***************************************************************************)
(* What the execution guard promises the caller of a governed action, with *)
(* no log, no witness, no approvals and no handlers: a slot (idempotency   *)
(* key) belongs to the first request that claims it; that request's side   *)
(* effect happens at most once and only while the claim is open; a result  *)
(* is recorded only for an effect that happened; a claim that cannot be    *)
(* completed is given up for good.                                         *)
(***************************************************************************)
EXTENDS Integers

CONSTANTS
    Requests,       \* canonical requests
    Slots,          \* idempotency keys
    SlotOf,         \* the slot each request names
    Results,        \* results
    NoResult        \* no result

VARIABLES
    record,         \* slot -> the request that holds it, its state and result
    effects         \* how often each request's side effect has happened

onceVars == <<record, effects>>

Entry(r, state, result) == [request |-> r, state |-> state, result |-> result]

IsRunning(r) ==
    /\ SlotOf[r] \in DOMAIN record
    /\ record[SlotOf[r]] = Entry(r, "claimed", NoResult)

OnceInit ==
    /\ record = [s \in {} |-> NoResult]
    /\ effects = [r \in Requests |-> 0]

Claim(r) ==
    /\ SlotOf[r] \notin DOMAIN record
    /\ record' = [s \in DOMAIN record \union {SlotOf[r]} |->
                     IF s = SlotOf[r] THEN Entry(r, "claimed", NoResult) ELSE record[s]]
    /\ UNCHANGED effects

Happen(r) ==
    /\ IsRunning(r)
    /\ effects[r] = 0
    /\ effects' = [effects EXCEPT ![r] = 1]
    /\ UNCHANGED record

Settle(r, v) ==
    /\ IsRunning(r)
    /\ effects[r] = 1
    /\ record' = [record EXCEPT ![SlotOf[r]] = Entry(r, "completed", v)]
    /\ UNCHANGED effects

GiveUp(r) ==
    /\ IsRunning(r)
    /\ record' = [record EXCEPT ![SlotOf[r]] = Entry(r, "indeterminate", NoResult)]
    /\ UNCHANGED effects

OnceNext ==
    \E r \in Requests :
        \/ Claim(r)
        \/ Happen(r)
        \/ \E v \in Results : Settle(r, v)
        \/ GiveUp(r)

OnceSpec == OnceInit /\ [][OnceNext]_onceVars

=============================================================================
