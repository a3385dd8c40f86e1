---------------------------- MODULE ApprovalStore ----------------------------
(***************************************************************************)
(* The durable approval table of henosis-approval, for one tenant.         *)
(*                                                                         *)
(* The binding columns of a row collapse into row.request.  Every method   *)
(* runs under the store's mutex and in one transaction, so it is one step; *)
(* but the time it is given was read by the caller before the mutex was    *)
(* taken, so a step may use a time up to MaxLag old.                       *)
(***************************************************************************)
EXTENDS GovernedRequests

CONSTANTS
    ApprovalTtl,    \* APPROVAL_TTL_SECONDS
    MaxLag,         \* age a clock reading may reach before its transaction runs
    MaxTime         \* bound on the clock, for TLC

ASSUME ApprovalConstants ==
    /\ ApprovalTtl \in Nat \ {0}
    /\ MaxLag \in 0..ApprovalTtl - 1
    /\ MaxTime \in Nat

VARIABLES
    approvals,      \* the approval table: row identifier -> row
    now             \* the authority's wall clock

approvalVars == <<approvals, now>>

ApprovalStatus == {"pending", "approved", "denied", "expired", "consumed"}

Approval == [request : Requests, status : ApprovalStatus, created : Nat,
             expires : Nat, actor : Actors \union {NoActor}]

ApprovalTypeOK ==
    /\ DOMAIN approvals \subseteq ApprovalIds
    /\ approvals \in [DOMAIN approvals -> Approval]
    /\ now \in Nat

-----------------------------------------------------------------------------
(* Reading the table.                                                      *)

\* The status carried by the partial unique index and by the expiry UPDATE.
IsActive(row) == row.status \in {"pending", "approved"}

IsOverdue(row, t) == IsActive(row) /\ row.expires <= t

\* The status a reader is shown: an overdue row reads as expired.
EffectiveStatus(row, t) == IF IsOverdue(row, t) THEN "expired" ELSE row.status

\* UPDATE approval SET status = 'expired' ... AND expires_at <= t.
ExpireOverdue(t) ==
    [i \in DOMAIN approvals |->
        IF IsOverdue(approvals[i], t) THEN [approvals[i] EXCEPT !.status = "expired"]
                                      ELSE approvals[i]]

RowsOf(table, r) == {i \in DOMAIN table : table[i].request = r}

\* ORDER BY created_at DESC, id DESC: row i sorts at or before row j.
NoOlder(table, i, j) ==
    \/ table[i].created > table[j].created
    \/ table[i].created = table[j].created /\ i >= j

IsLatest(table, r, i) ==
    i \in RowsOf(table, r) /\ \A j \in RowsOf(table, r) : NoOlder(table, i, j)

\* A time some caller read at most MaxLag ago.
ClockReadings == {t \in 0..now : now <= t + MaxLag}

-----------------------------------------------------------------------------
(* Operations.                                                             *)

NewApproval(r, t) ==
    [request |-> r, status |-> "pending", created |-> t,
     expires |-> t + ApprovalTtl, actor |-> NoActor]

WithRow(table, i, row) ==
    [j \in DOMAIN table \union {i} |-> IF j = i THEN row ELSE table[j]]

\* Variant: any row that is no longer active is replaced, not only an expired one.
ReusesActiveOnly(table, r, i) == IsLatest(table, r, i) /\ IsActive(table[i])

ReusesLatest(table, r, i) == IsLatest(table, r, i) /\ table[i].status # "expired"

\* The rows that may answer for r without an insertion: the latest one unless it
\* has expired, else one that the unique index on active rows would run into.
Answers(table, r) ==
    LET latest == {i \in DOMAIN table : ReusesLatest(table, r, i)}
    IN  IF latest # {} THEN latest ELSE {i \in RowsOf(table, r) : IsActive(table[i])}

\* create_or_get_pending(r, t), returning row i.
CreateOrGetPending(r, t, i) ==
    LET table == ExpireOverdue(t) IN
    /\ \/ /\ i \in Answers(table, r)
          /\ approvals' = table
       \/ /\ Answers(table, r) = {}
          /\ i \in ApprovalIds \ DOMAIN table
          /\ approvals' = WithRow(table, i, NewApproval(r, t))
    /\ UNCHANGED now

\* decide: only a pending row, and an overdue one is expired instead.
Decide(i, verdict, actor, t) ==
    /\ i \in DOMAIN approvals
    /\ approvals[i].status = "pending"
    /\ approvals' = IF IsOverdue(approvals[i], t)
                    THEN [approvals EXCEPT ![i].status = "expired"]
                    ELSE [approvals EXCEPT ![i].status = verdict, ![i].actor = actor]
    /\ UNCHANGED now

Expire(t) ==
    /\ approvals' = ExpireOverdue(t)
    /\ UNCHANGED now

\* Variant: the deadline is forgotten.
ConsumableAnyTime(i, r, t) ==
    /\ i \in DOMAIN approvals
    /\ approvals[i].status = "approved"
    /\ approvals[i].request = r

\* The exact match consume_approved requires.
Consumable(i, r, t) ==
    /\ i \in DOMAIN approvals
    /\ approvals[i].status = "approved"
    /\ approvals[i].expires > t
    /\ approvals[i].request = r

\* consume_approved that returns the consumed row.
ConsumeApproved(i, r, t) ==
    /\ Consumable(i, r, t)
    /\ approvals' = [approvals EXCEPT ![i].status = "consumed"]
    /\ UNCHANGED now

\* consume_approved that returns None, persisting an expiry it notices.
RefuseConsumption(i, r, t) ==
    /\ ~Consumable(i, r, t)
    /\ approvals' = IF /\ i \in DOMAIN approvals
                       /\ approvals[i].status = "approved"
                       /\ approvals[i].expires <= t
                    THEN [approvals EXCEPT ![i].status = "expired"]
                    ELSE approvals
    /\ UNCHANGED now

Tick ==
    /\ now < MaxTime
    /\ now' = now + 1
    /\ UNCHANGED approvals

-----------------------------------------------------------------------------
(* The table under arbitrary callers.                                      *)

NoRows == [i \in {} |-> NoActor]

ApprovalInit ==
    /\ approvals = NoRows
    /\ now = 0

ApprovalNext ==
    \/ Tick
    \/ \E t \in ClockReadings : Expire(t)
    \/ \E r \in Requests, t \in ClockReadings, i \in ApprovalIds : CreateOrGetPending(r, t, i)
    \/ \E i \in ApprovalIds, verdict \in {"approved", "denied"}, actor \in Actors,
          t \in ClockReadings : Decide(i, verdict, actor, t)
    \/ \E i \in ApprovalIds, r \in Requests, t \in ClockReadings : ConsumeApproved(i, r, t)
    \/ \E i \in ApprovalIds, r \in Requests, t \in ClockReadings : RefuseConsumption(i, r, t)

ApprovalSpec == ApprovalInit /\ [][ApprovalNext]_approvalVars

-----------------------------------------------------------------------------
(* Properties.                                                             *)

\* Rows of one request are generations of its approval: a later one is created
\* only when the earlier one's lifetime is over, give or take the age of a clock
\* reading, and every row but the latest has expired.  create_or_get_pending
\* relies on it when it looks at the latest row only.
GenerationsOrdered ==
    \A i, j \in DOMAIN approvals :
        (i # j /\ approvals[i].request = approvals[j].request) =>
            \/ approvals[i].expires <= approvals[j].created + MaxLag /\ approvals[i].status = "expired"
            \/ approvals[j].expires <= approvals[i].created + MaxLag /\ approvals[j].status = "expired"

\* A denied or consumed approval is the last word on its canonical request: no
\* sequence of retries, expiries and decisions obtains another live approval
\* for it, because create_or_get_pending only replaces an expired row.
DecisionIsFinal ==
    \A i, j \in DOMAIN approvals :
        (/\ i # j
         /\ approvals[i].request = approvals[j].request
         /\ approvals[i].status \in {"denied", "consumed"})
        => approvals[j].status = "expired"

\* A row is marked expired only once the clock has reached its deadline, and an
\* approved or consumed row names the actor who decided it.
RowHistory ==
    \A i \in DOMAIN approvals :
        /\ approvals[i].expires = approvals[i].created + ApprovalTtl
        /\ approvals[i].status = "expired" => approvals[i].expires <= now
        /\ approvals[i].status \in {"approved", "consumed"} => approvals[i].actor # NoActor

\* The inductive invariant of the table.
ApprovalInv == ApprovalTypeOK /\ RowHistory /\ GenerationsOrdered

LifecycleStep ==
    \A i \in DOMAIN approvals :
        /\ i \in DOMAIN approvals'
        /\ approvals'[i].request = approvals[i].request
        /\ approvals'[i].expires = approvals[i].expires
        /\ approvals'[i].status # approvals[i].status =>
              <<approvals[i].status, approvals'[i].status>> \in
                 {<<"pending", "approved">>, <<"pending", "denied">>, <<"pending", "expired">>,
                  <<"approved", "consumed">>, <<"approved", "expired">>}
        /\ approvals'[i].status \in {"approved", "consumed"} => approvals'[i].actor # NoActor

\* Rows of the approval table are never deleted, rebound or prolonged; expired,
\* denied and consumed are terminal, and consumption is reached only through an
\* approval somebody recorded.
ApprovalLifecycle == [][LifecycleStep]_approvalVars

InTimeStep ==
    \A i \in DOMAIN approvals :
        (/\ approvals'[i].status # approvals[i].status
         /\ approvals'[i].status # "expired")
        => now < approvals[i].expires + MaxLag

\* A decision or a consumption takes effect only while the approval lives, give
\* or take the age of the clock reading its caller brought to the mutex.
DecidedInTime == [][InTimeStep]_approvalVars

=============================================================================
