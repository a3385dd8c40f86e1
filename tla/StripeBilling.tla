--------------------------- MODULE StripeBilling ---------------------------
(***************************************************************************)
(* The Stripe webhook of the server and the billing pipeline of Plutus.  A *)
(* delivery runs the idempotency gate, resolves the customer and the price *)
(* and writes the entitlement, the tier and the event log, each in its own *)
(* transaction.  Stripe delivers an event again until it gets a 200, in    *)
(* any order and while an earlier delivery may still run.  Signatures are  *)
(* outside the model: every delivery is authentic.                         *)
(***************************************************************************)
EXTENDS Naturals

CONSTANTS
  Events, Workers, Tenants, Subscriptions,
  Body,       \* the verified content of each event
  PriceMap,   \* billing_price_map, once the operator has filled it
  CustomerMap,\* billing_customer, once the operator has filled it
  Orgs,       \* tenants that have an org row
  None,
  MaxFaults   \* bound of the failed or unanswered deliveries explored

Tiers == {"free", "pro", "team"}
Statuses == {"active", "past_due", "canceled"}
Outcomes == {"applied", "canceled", "past_due", "ignored", "unmapped_price",
             "unknown_customer", "unknown_subscription", "replayed"}

(* What the constants are assumed to be, by the modules that give them values. *)
BillingConstants ==
  /\ Orgs \subseteq Tenants /\ MaxFaults \in Nat /\ None \notin Outcomes
  /\ \A c \in DOMAIN CustomerMap : CustomerMap[c] \in Tenants
  /\ \A p \in DOMAIN PriceMap : PriceMap[p] \in Tiers
  /\ \A e \in Events : Body[e].sub \in Subscriptions \cup {None}

VARIABLES
  customers,  \* Stripe customer ids the operator has bound so far
  prices,     \* price ids the operator has mapped so far
  tier,       \* org.plan_tier
  quota,      \* the tier whose defaults quota_config holds
  entitlement,\* the entitlement row of each subscription, or None
  eventLog,   \* billing_event: the outcome of each event, or None
  worker,     \* the delivery each worker is handling
  acked,      \* events Stripe has a 200 for
  faults,
  landed      \* history: events whose tier change was committed

tables == <<customers, prices, tier, quota, entitlement, eventLog>>
billingVars == <<tables, worker, acked, faults, landed>>

Rows == [tenant : Tenants, tier : Tiers, status : Statuses]
Idle == [pc |-> "idle", event |-> None, tenant |-> None, tier |-> None, outcome |-> None]
Steps == {"idle", "gate", "tenant", "price", "write", "tier", "record", "reply"}

BillingTypeOK ==
  /\ customers \subseteq DOMAIN CustomerMap /\ prices \subseteq DOMAIN PriceMap
  /\ tier \in [Orgs -> Tiers] /\ quota \in [Orgs -> Tiers]
  /\ entitlement \in [Subscriptions -> Rows \cup {None}]
  /\ eventLog \in [Events -> Outcomes \cup {None}]
  /\ worker \in [Workers -> [pc : Steps, event : Events \cup {None},
                             tenant : Tenants \cup {None}, tier : Tiers \cup {None},
                             outcome : Outcomes \cup {None}]]
  /\ acked \subseteq Events /\ faults \in 0 .. MaxFaults
  /\ landed \subseteq Events

BillingInit ==
  /\ customers = {} /\ prices = {}
  /\ tier = [t \in Orgs |-> "free"] /\ quota = [t \in Orgs |-> "free"]
  /\ entitlement = [s \in Subscriptions |-> None] /\ eventLog = [e \in Events |-> None]
  /\ worker = [w \in Workers |-> Idle] /\ acked = {} /\ faults = 0
  /\ landed = {}

\* decide.
Decide(e) ==
  LET b == Body[e] IN
  CASE b.type \in {"created", "updated"} ->
         (CASE b.status \in {"active", "trialing"} -> "upsert"
            [] b.status = "canceled" -> "cancel"
            [] OTHER -> "past_due")
    [] b.type = "deleted" -> "cancel"
    [] b.type = "payment_failed" /\ b.sub # None -> "past_due"
    [] OTHER -> "ignore"

\* The operator binds a customer or maps a price.
BindCustomer(c) == customers' = customers \cup {c} /\ UNCHANGED <<prices, tier, quota, entitlement, eventLog>>
MapPrice(p) == prices' = prices \cup {p} /\ UNCHANGED <<customers, tier, quota, entitlement, eventLog>>

Administer ==
  /\ \/ \E c \in DOMAIN CustomerMap \ customers : BindCustomer(c)
     \/ \E p \in DOMAIN PriceMap \ prices : MapPrice(p)
  /\ UNCHANGED <<worker, acked, faults, landed>>

\* stripe_webhook: Stripe delivers an event it has no 200 for.
Deliver(w, e) ==
  /\ worker[w].pc = "idle" /\ e \notin acked
  /\ worker' = [worker EXCEPT ![w] = [Idle EXCEPT !.pc = "gate", !.event = e]]
  /\ UNCHANGED <<tables, acked, faults, landed>>

\* The worker goes on, with what it has learned; nothing else changes.
Goto(w, w2) == worker' = [worker EXCEPT ![w] = w2] /\ UNCHANGED <<tables, acked, faults, landed>>

\* The match arms that change nothing: their outcome is recorded all the same.
Conclude(w, o) == [worker[w] EXCEPT !.pc = "record", !.outcome = o]

\* apply_decision, the idempotency gate.
CheckSeen(w) ==
  /\ worker[w].pc = "gate"
  /\ LET e == worker[w].event IN
     Goto(w, CASE eventLog[e] # None -> [worker[w] EXCEPT !.pc = "reply", !.outcome = "replayed"]
               [] eventLog[e] = None /\ Decide(e) = "ignore" -> Conclude(w, "ignored")
               [] OTHER -> [worker[w] EXCEPT !.pc = "tenant"])

\* tenant_for_stripe_customer.
ResolveTenant(w) ==
  /\ worker[w].pc = "tenant"
  /\ LET e == worker[w].event
         c == Body[e].customer
     IN Goto(w, IF c \notin customers THEN Conclude(w, "unknown_customer")
                ELSE [worker[w] EXCEPT !.tenant = CustomerMap[c],
                                       !.pc = IF Decide(e) = "upsert" THEN "price" ELSE "write"])

\* Variant: a price without a mapping is a store error, which Stripe retries.
Unpriceable(w) == Idle

\* A price without a mapping concludes the event.
NoPrice(w) == Conclude(w, "unmapped_price")

\* price_tier.
ResolvePrice(w) ==
  /\ worker[w].pc = "price"
  /\ LET p == Body[worker[w].event].price IN
     Goto(w, IF p \notin prices THEN NoPrice(w)
             ELSE [worker[w] EXCEPT !.pc = "write", !.tier = PriceMap[p]])

\* ON CONFLICT (stripe_subscription_id): the tenant of an existing row stays.
UpsertedRow(w, s) ==
  [tenant |-> IF entitlement[s] = None THEN worker[w].tenant ELSE entitlement[s].tenant,
   tier |-> worker[w].tier, status |-> "active"]

\* Variant: the event is logged before the tier is applied.
LoggedFirst(d) == "record"

\* Variant: a failed payment cuts the tier at once.
CutAtOnce(d) == "tier"

\* What follows the entitlement: an upsert and a cancellation apply a tier, a
\* missed payment does not.
AfterWrite(d) == IF d = "past_due" THEN "record" ELSE "tier"

\* upsert_stripe_entitlement, cancel_entitlement and mark_entitlement_past_due.
WriteEntitlement(w) ==
  /\ worker[w].pc = "write"
  /\ LET e == worker[w].event
         s == Body[e].sub
         d == Decide(e)
         set(row) == entitlement' = [entitlement EXCEPT ![s] = row]
         go(o, t) == worker' = [worker EXCEPT ![w].pc = AfterWrite(d), ![w].outcome = o, ![w].tier = t]
     IN \/ /\ d = "upsert" /\ set(UpsertedRow(w, s)) /\ go("applied", worker[w].tier)
        \/ /\ d # "upsert" /\ entitlement[s] = None
           /\ UNCHANGED entitlement /\ worker' = [worker EXCEPT ![w] = Conclude(w, "unknown_subscription")]
        \/ /\ d = "cancel" /\ entitlement[s] # None
           /\ set([entitlement[s] EXCEPT !.status = "canceled"]) /\ go("canceled", "free")
        \/ /\ d = "past_due" /\ entitlement[s] # None
           /\ set([entitlement[s] EXCEPT !.status = "past_due"]) /\ go("past_due", "free")
  /\ UNCHANGED <<customers, prices, tier, quota, eventLog, acked, faults, landed>>

\* apply_tier: org.plan_tier and quota_config in one transaction.  An unknown
\* tenant is an error, see Fail.
ApplyTier(w) ==
  /\ worker[w].pc = "tier" /\ worker[w].tenant \in Orgs
  /\ tier' = [tier EXCEPT ![worker[w].tenant] = worker[w].tier]
  /\ quota' = [quota EXCEPT ![worker[w].tenant] = worker[w].tier]
  /\ landed' = landed \cup {worker[w].event}
  /\ worker' = [worker EXCEPT ![w].pc = "record"]
  /\ UNCHANGED <<customers, prices, entitlement, eventLog, acked, faults>>

\* record_billing_event: ON CONFLICT (event_id) DO NOTHING.
Record(w) ==
  /\ worker[w].pc = "record"
  /\ LET e == worker[w].event IN
     eventLog' = [eventLog EXCEPT ![e] = IF @ = None THEN worker[w].outcome ELSE @]
  /\ worker' = [worker EXCEPT ![w].pc = "reply"]
  /\ UNCHANGED <<customers, prices, tier, quota, entitlement, acked, faults, landed>>

\* 200.
Reply(w) ==
  /\ worker[w].pc = "reply"
  /\ acked' = acked \cup {worker[w].event} /\ worker' = [worker EXCEPT ![w] = Idle]
  /\ UNCHANGED <<tables, faults, landed>>

\* 500 for a store error or an unknown tenant, a crash, or an answer that does
\* not reach Stripe: the delivery ends where it is and the event stays unacked.
Fail(w) ==
  /\ worker[w].pc # "idle" /\ faults < MaxFaults
  /\ faults' = faults + 1 /\ worker' = [worker EXCEPT ![w] = Idle]
  /\ UNCHANGED <<tables, acked, landed>>

NoSuchOrg(w) ==
  /\ worker[w].pc = "tier" /\ worker[w].tenant \notin Orgs
  /\ Goto(w, Idle)

Step(w) ==
  \/ CheckSeen(w) \/ ResolveTenant(w) \/ ResolvePrice(w) \/ WriteEntitlement(w)
  \/ ApplyTier(w) \/ NoSuchOrg(w) \/ Record(w) \/ Reply(w)

BillingNext ==
  \/ Administer
  \/ \E w \in Workers : Step(w) \/ Fail(w) \/ \E e \in Events : Deliver(w, e)

BillingSpec == BillingInit /\ [][BillingNext]_billingVars

\* Stripe goes on delivering what was not acknowledged, and the server runs.
RetriedSpec ==
  /\ BillingSpec
  /\ \A w \in Workers : WF_billingVars(Step(w))
  /\ \A e \in Events : WF_billingVars(\E w \in Workers : Deliver(w, e))

-----------------------------------------------------------------------------
Good(e) == Body[e].type \in {"created", "updated"} /\ Body[e].status \in {"active", "trialing"}

Ended(e) == Body[e].type = "deleted" \/ Body[e].status = "canceled"

\* The subscription was moved to a price that the operator has mapped to free.
MovedToFree(e) == Good(e) /\ PriceMap[Body[e].price] = "free"

\* A tier is only ever raised by a subscription in good standing: an org on a
\* paid tier has an event of its own customer, of a status known to be good,
\* whose price maps to that tier.
PaidWasSold ==
  \A t \in Orgs : tier[t] = "free" \/
    \E e \in landed : /\ Good(e) /\ CustomerMap[Body[e].customer] = t
                      /\ PriceMap[Body[e].price] = tier[t]

\* What the event log calls applied or canceled has reached the org: a crash
\* between the writes leaves an event that Stripe will deliver again, never one
\* that is logged as done and is not.
LoggedHasLanded ==
  \A e \in Events : eventLog[e] \in {"applied", "canceled"} => e \in landed

\* Grace: an org loses a paid tier only when its subscription has ended or was
\* moved to a free price, never because a payment failed or a delivery was
\* repeated or cut short.
CutStep ==
  \A t \in Orgs : (tier[t] # "free" /\ tier'[t] = "free") =>
    \E w \in Workers : /\ worker[w].pc = "tier" /\ worker[w].tenant = t
                       /\ Ended(worker[w].event) \/ MovedToFree(worker[w].event)

CutOnlyWhenEnded == [][CutStep]_billingVars

\* A 200 is given only for an event that is in the log, so that no event is
\* dropped: Stripe stops delivering what it has a 200 for.
AckedIsLogged == \A e \in acked : eventLog[e] # None

\* What the webhook promises of the tables and of its answers.
BillingSafety == BillingTypeOK /\ PaidWasSold /\ LoggedHasLanded /\ AckedIsLogged

\* Every event settles in the log, the ones nothing can be done about too.
EveryEventSettles == <>[](\A e \in Events : eventLog[e] # None /\ e \in acked)

\* With nothing left to deliver or to finish, the org of a canceled subscription
\* is on the free tier.
CanceledIsFree ==
  (acked = Events /\ \A w \in Workers : worker[w].pc = "idle") =>
    \A s \in Subscriptions :
      (entitlement[s] # None /\ entitlement[s].status = "canceled") =>
        tier[entitlement[s].tenant] = "free"

-----------------------------------------------------------------------------
(* The inductive invariant behind BillingSafety and CutOnlyWhenEnded. *)

\* A delivery on its way to a tier: what it will write was sold to the tenant it
\* resolved, or ends what was sold.
Sells(q) ==
  LET b == Body[q.event] IN
  /\ Good(q.event) /\ q.tenant = CustomerMap[b.customer]
  /\ b.price \in DOMAIN PriceMap /\ q.tier = PriceMap[b.price]
Ends(q) == Ended(q.event) /\ q.tier = "free"

\* What a delivery knows at each of its steps, with the events that landed and the
\* event log; nothing it read can change any more.
DeliveryOK(q, done, log) ==
  /\ q.pc # "idle" => q.event \in Events
  /\ q.pc \in {"price", "write", "tier"} =>
       /\ Body[q.event].customer \in DOMAIN CustomerMap
       /\ q.tenant = CustomerMap[Body[q.event].customer]
  /\ q.pc = "price" => Decide(q.event) = "upsert"
  /\ q.pc = "write" /\ Decide(q.event) = "upsert" => Sells(q)
  /\ q.pc = "tier" => (Sells(q) \/ Ends(q)) /\ q.outcome \in {"applied", "canceled"}
  /\ q.pc = "record" =>
       q.outcome \in Outcomes /\ (q.outcome \in {"applied", "canceled"} => q.event \in done)
  /\ q.pc = "reply" => log[q.event] # None

BillingInv == BillingSafety /\ \A w \in Workers : DeliveryOK(worker[w], landed, eventLog)
=============================================================================
