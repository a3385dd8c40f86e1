----------------------------- MODULE PlutusGate -----------------------------
(***************************************************************************)
(* The Plutus gate: every governed request passes the org's status, the    *)
(* member's role, the daily quota of its dimension and the token bucket of *)
(* the org, in that order and each by its own call of the backend.  The    *)
(* local backend is for a single operator, a SQLite file behind a mutex;   *)
(* the other is the PostgreSQL store, whose calls are several statements.  *)
(* One org; the clock is the wall clock, which may be set back.  A bucket  *)
(* counts in shares of a token: Share of them are one request, and a tick  *)
(* brings as many shares as the tier has requests per minute.              *)
(***************************************************************************)
EXTENDS Integers, FiniteSets

CONSTANTS
  Requests,
  Invocation,   \* what each request asks for
  Role,         \* the role of the member behind each request, or None
  TierNames,
  Limits,       \* requests a day in each dimension, by tier
  Rpm,          \* rate_limit_rpm, by tier
  Share,        \* shares of a token: how many ticks bring a token at 1 rpm
  DayTicks,     \* ticks of a day
  None,
  MaxTime, MaxSetbacks, MaxChanges  \* bounds of the clock and the administration

Statuses == {"active", "suspended", "deleted"}
Dimensions == {"tasks", "tool_calls", "memory_stores"}

(* What the constants are assumed to be, by the modules that give them values. *)
GateConstants ==
  /\ IsFiniteSet(Requests) /\ None \notin [shares : Nat, at : Nat]
  /\ Share \in Nat \ {0} /\ DayTicks \in Nat \ {0}
  /\ Limits \in [TierNames -> Nat] /\ Rpm \in [TierNames -> Nat \ {0}]
  /\ MaxTime \in Nat /\ MaxSetbacks \in Nat /\ MaxChanges \in Nat

VARIABLES
  local,     \* the backend: TRUE for the local one, FALSE for the PostgreSQL store
  org,       \* org.status
  tier,      \* the tier whose defaults quota_config holds
  used,      \* usage_counter, by dimension and day
  bucket,    \* the bucket row [shares, at], or None before the first request
  now,       \* the wall clock
  setbacks, changes,
  req,       \* each request: its step and what it has read
  counted,   \* history: requests that passed the quota, by dimension and day
  admitted,  \* history: requests that passed the bucket
  peak       \* history: the latest time of the clock

counters == <<used, bucket>>
history == <<counted, admitted, peak>>
gateVars == <<local, org, tier, counters, now, setbacks, changes, req, history>>

Days == 0 .. MaxTime \div DayTicks
Waiting == [pc |-> "arrived", limit |-> 0, day |-> 0, at |-> 0, rpm |-> 0]

GateTypeOK ==
  /\ local \in BOOLEAN /\ org \in Statuses /\ tier \in TierNames
  /\ used \in [Dimensions -> [Days -> Nat]]
  /\ bucket = None \/ (bucket.shares \in Nat /\ bucket.at \in 0 .. MaxTime)
  /\ now \in 0 .. MaxTime /\ setbacks \in 0 .. MaxSetbacks /\ changes \in 0 .. MaxChanges
  /\ \A r \in Requests : req[r].pc \in {"arrived", "role", "quota", "count", "clock", "rpm",
                                        "bucket", "insert", "allowed", "denied"}

GateInit ==
  /\ local \in BOOLEAN /\ org = "active" /\ tier \in TierNames
  /\ used = [d \in Dimensions |-> [y \in Days |-> 0]] /\ bucket = None
  /\ now = 0 /\ setbacks = 0 /\ changes = 0 /\ req = [r \in Requests |-> Waiting]
  /\ counted = [d \in Dimensions |-> [y \in Days |-> 0]] /\ admitted = 0
  /\ peak = 0

\* map_invocation: the permission and the dimension of an invocation.
ActionClass(i) ==
  CASE i \in {"memory_store", "handoff"} -> [permission |-> "MemoryStore", dim |-> "memory_stores"]
    [] i \in {"memory_search", "context_build"} -> [permission |-> "MemorySearch", dim |-> None]
    [] i = "task_submit" -> [permission |-> "TaskSubmit", dim |-> "tasks"]
    [] i = "org_read" -> [permission |-> "OrgRead", dim |-> None]
    [] i = "secret_read" -> [permission |-> "SecretRead", dim |-> "tool_calls"]
    [] i = "billing" -> [permission |-> "BillingManage", dim |-> None]
    [] i = "tool_invoke" -> [permission |-> "ToolInvoke", dim |-> "tool_calls"]
    [] OTHER -> [permission |-> "AgentExecute", dim |-> "tool_calls"]

Viewer == {"OrgRead", "MemorySearch"}
Member == Viewer \cup {"AgentExecute", "TaskSubmit", "ToolInvoke", "MemoryStore"}
Admin == Member \cup {"SecretRead", "OrgDelete"}

\* can.
Can(role, permission) ==
  \/ role = "owner"
  \/ role = "admin" /\ permission \in Admin
  \/ role = "member" /\ permission \in Member
  \/ role = "viewer" /\ permission \in Viewer
  \/ role = "billing" /\ permission = "BillingManage"

ClassOf(r) == ActionClass(Invocation[r])

\* The request goes on or is answered; nothing else changes.
Goto(r, r2) == /\ req' = [req EXCEPT ![r] = r2]
               /\ UNCHANGED <<local, org, tier, counters, now, setbacks, changes, history>>

Answer(r, pc) ==
  IF pc \in {"allowed", "denied"} THEN [Waiting EXCEPT !.pc = pc] ELSE [req[r] EXCEPT !.pc = pc]

\* Step 1.
CheckOrg(r) ==
  /\ req[r].pc = "arrived"
  /\ Goto(r, Answer(r, IF org = "active" THEN "role" ELSE "denied"))

\* The member may do what it asks for.
Permitted(r) == Role[r] # None /\ Can(Role[r], ClassOf(r).permission)

\* Step 2; what is not metered goes straight to the bucket.
CheckRole(r) ==
  /\ req[r].pc = "role"
  /\ Goto(r, CASE ~Permitted(r) -> Answer(r, "denied")
               [] Permitted(r) /\ ClassOf(r).dim = None -> Answer(r, "clock")
               [] OTHER -> [Answer(r, "quota") EXCEPT !.day = now \div DayTicks])

\* Step 3, the limit: quota_config_limit, or the limits the local backend holds.
ReadLimit(r) ==
  /\ req[r].pc = "quota"
  /\ Goto(r, [Answer(r, "count") EXCEPT !.limit = Limits[tier]])

\* allowed: used <= limit, with this request counted.
Within(n, limit) == n <= limit

\* Step 3, check_and_increment: one statement adds the request and returns the
\* new count; a refused request stays counted.
CheckAndIncrement(r) ==
  /\ req[r].pc = "count"
  /\ LET d == ClassOf(r).dim
         y == req[r].day
         n == used[d][y] + 1
         ok == Within(n, req[r].limit)
     IN /\ used' = [used EXCEPT ![d][y] = n]
        /\ counted' = IF ok THEN [counted EXCEPT ![d][y] = @ + 1] ELSE counted
        /\ req' = [req EXCEPT ![r] = Answer(r, IF ok THEN "clock" ELSE "denied")]
  /\ UNCHANGED <<local, org, tier, bucket, now, setbacks, changes, admitted, peak>>

\* Step 4: the clock is read before the backend is called.
ReadClock(r) ==
  /\ req[r].pc = "clock"
  /\ Goto(r, [Answer(r, "rpm") EXCEPT !.at = now])

\* rate_limit_ok, the rate: its own query in the PostgreSQL store.
ReadRpm(r) ==
  /\ req[r].pc = "rpm"
  /\ Goto(r, [Answer(r, "bucket") EXCEPT !.rpm = Rpm[tier]])

Least(a, b) == IF a < b THEN a ELSE b
Most(a, b) == IF a > b THEN a ELSE b

\* Takes a token from a bucket, if it has one.
Take(r, shares, at) ==
  LET ok == shares >= Share IN
  /\ bucket' = [shares |-> IF ok THEN shares - Share ELSE shares, at |-> at]
  /\ admitted' = IF ok THEN admitted + 1 ELSE admitted
  /\ req' = [req EXCEPT ![r] = Answer(r, IF ok THEN "allowed" ELSE "denied")]
  /\ UNCHANGED <<local, org, tier, used, now, setbacks, changes, counted, peak>>

\* Variant: the base of the refill follows the clock back.
BaseFollows(old, at) == at

\* The base of the refill never goes back.
RefillBase(old, at) == Most(old, at)

\* consume_local_rate_token, in one immediate transaction behind the mutex.
TakeLocal(r) ==
  /\ local /\ req[r].pc = "bucket"
  /\ LET full == Share * req[r].rpm
         b == IF bucket = None THEN [shares |-> full, at |-> req[r].at] ELSE bucket
         elapsed == Most(0, req[r].at - b.at)
     IN Take(r, Least(full, b.shares + elapsed * req[r].rpm), RefillBase(b.at, req[r].at))

\* rate_limit_ok of the store, the row exists: SELECT ... FOR UPDATE holds it until
\* the commit.  last_refill becomes the request's reading of the clock.
TakeStored(r) ==
  /\ ~local /\ req[r].pc = "bucket" /\ bucket # None
  /\ LET full == req[r].rpm * Share
         elapsed == Most(0, req[r].at - bucket.at)
     IN Take(r, Least(full, bucket.shares + elapsed * req[r].rpm), req[r].at)

\* No row, so that nothing is locked.
FindNoBucket(r) ==
  /\ ~local /\ req[r].pc = "bucket" /\ bucket = None
  /\ Goto(r, Answer(r, "insert"))

\* The upsert of a request that found no row: a full bucket less its own token,
\* whatever has been written since.
InsertBucket(r) ==
  /\ req[r].pc = "insert"
  /\ bucket' = [shares |-> Most(0, (req[r].rpm - 1) * Share), at |-> req[r].at]
  /\ admitted' = admitted + 1
  /\ req' = [req EXCEPT ![r] = Answer(r, "allowed")]
  /\ UNCHANGED <<local, org, tier, used, now, setbacks, changes, counted, peak>>

\* A backend error, or a crash while the request is under way: denied.  The
\* counters are durable.
Fail(r) ==
  /\ req[r].pc \notin {"arrived", "allowed", "denied"}
  /\ Goto(r, Answer(r, "denied"))

\* set_org_status and apply_tier; the local backend has one tier and is always active.
SetOrgStatus(s) ==
  /\ ~local /\ changes < MaxChanges /\ s # org
  /\ org' = s /\ changes' = changes + 1
  /\ UNCHANGED <<local, tier, counters, now, setbacks, req, history>>

ApplyTier(t) ==
  /\ ~local /\ changes < MaxChanges /\ t # tier
  /\ tier' = t /\ changes' = changes + 1
  /\ UNCHANGED <<local, org, counters, now, setbacks, req, history>>

Tick ==
  /\ now < MaxTime /\ now' = now + 1
  /\ peak' = Most(peak, now + 1)
  /\ UNCHANGED <<local, org, tier, counters, setbacks, changes, req, counted, admitted>>

\* The wall clock is set back.
SetBack ==
  /\ setbacks < MaxSetbacks /\ now > 0
  /\ now' = now - 1 /\ setbacks' = setbacks + 1
  /\ UNCHANGED <<local, org, tier, counters, changes, req, history>>

Handle(r) ==
  \/ CheckOrg(r) \/ CheckRole(r) \/ ReadLimit(r) \/ CheckAndIncrement(r) \/ ReadClock(r)
  \/ ReadRpm(r) \/ TakeLocal(r) \/ TakeStored(r) \/ FindNoBucket(r) \/ InsertBucket(r)

GateNext ==
  \/ \E r \in Requests : Handle(r) \/ Fail(r)
  \/ \E s \in Statuses : SetOrgStatus(s)
  \/ \E t \in TierNames : ApplyTier(t)
  \/ Tick \/ SetBack

GateSpec == GateInit /\ [][GateNext]_gateVars

-----------------------------------------------------------------------------
\* The daily quota holds whatever overlaps: never more requests of a dimension
\* pass it on one day than the limit of a tier allows, the largest one that was
\* in force.
QuotaHonoured ==
  \A d \in Dimensions, y \in Days : \E t \in TierNames : counted[d][y] <= Limits[t]

\* The members whose requests in a dimension their role permits.
Chargeable(d) ==
  {r \in Requests : /\ ClassOf(r).dim = d /\ Role[r] # None
                    /\ Can(Role[r], ClassOf(r).permission)}

\* Nobody spends the quota of an org without the right to: the counter holds only
\* requests of members whose role permits them.
OnlyPermittedCharged ==
  \A d \in Dimensions, y \in Days : used[d][y] <= Cardinality(Chargeable(d))

\* The local token bucket bounds what is let through since it was created: a full
\* bucket and the refill of the time that has passed, however the requests overlap
\* and however often the clock is set back and forth.
RateHonoured == local => admitted * Share <= Rpm[tier] * (Share + peak)

\* What the gate promises of the quota, whatever the backend, and of the rate.
GateSafety == GateTypeOK /\ QuotaHonoured /\ OnlyPermittedCharged /\ RateHonoured

-----------------------------------------------------------------------------
(* The inductive invariant behind GateSafety. *)

Places == {"arrived", "role", "quota", "count", "clock", "rpm", "bucket", "insert", "allowed", "denied"}

Request == [pc : Places, limit : Nat, day : Days, at : 0 .. MaxTime, rpm : Nat]

\* What a request has read on its way: nobody gets to the counter without the
\* right to, with a limit that is no tier's, or with a time that never was.
RequestOK(r, q) ==
  /\ q.pc \in {"quota", "count"} => ClassOf(r).dim \in Dimensions /\ r \in Chargeable(ClassOf(r).dim)
  /\ q.pc = "count" => \E t \in TierNames : q.limit = Limits[t]
  /\ q.at <= peak
  /\ (q.pc = "bucket" /\ local) => q.rpm = Rpm[tier]
  /\ q.pc = "insert" => ~local

RequestsOK == req \in [Requests -> Request] /\ \A r \in Requests : RequestOK(r, req[r])

\* The requests of a dimension that are past the counter.
Uncounted == {"arrived", "role", "quota", "count"}
Past(d) == {r \in Chargeable(d) : req[r].pc \notin Uncounted}

\* Every count belongs to a request that is past the counter, and what passed
\* the quota was counted.
CountersOK ==
  /\ counted \in [Dimensions -> [Days -> Nat]]
  /\ \A d \in Dimensions, y \in Days : counted[d][y] <= used[d][y] /\ used[d][y] <= Cardinality(Past(d))

\* What was let through and what is left in the local bucket come from the first
\* filling and from the time up to the base of the refill, which no clock runs ahead of.
BucketOK ==
  /\ admitted \in Nat /\ peak \in 0 .. MaxTime /\ now <= peak
  /\ bucket # None => bucket \in [shares : Nat, at : 0 .. MaxTime]
  /\ local => \/ bucket = None /\ admitted = 0
              \/ /\ bucket # None /\ bucket.at <= peak
                 /\ admitted * Share + bucket.shares <= Rpm[tier] * (Share + bucket.at)

GateInv == GateTypeOK /\ QuotaHonoured /\ RequestsOK /\ CountersOK /\ BucketOK
=============================================================================
