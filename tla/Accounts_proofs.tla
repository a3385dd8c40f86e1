-------------------------- MODULE Accounts_proofs --------------------------
(***************************************************************************)
(* Proofs about the operators' accounts: what the Stripe webhook writes    *)
(* under any interleaving of redelivered events, what the sessions of an   *)
(* operator still open once they, the membership or the organisation have  *)
(* ended, and how many tries the login limiter admits within a window.     *)
(***************************************************************************)
EXTENDS StripeBilling, OperatorSessions, LoginLimiter, FiniteSetTheorems, TLAPS

-----------------------------------------------------------------------------
(* The webhook.                                                            *)

Deliveries == [pc : Steps, event : Events \cup {None}, tenant : Tenants \cup {None},
               tier : Tiers \cup {None}, outcome : Outcomes \cup {None}]

(* decide: only a subscription in good standing sells, and only its end    *)
(* cancels.                                                                *)
LEMMA DecideFacts ==
  ASSUME NEW e
  PROVE  /\ Decide(e) = "upsert" => Good(e)
         /\ Decide(e) = "cancel" => Ended(e)
BY DEF Decide, Good, Ended

(* What a delivery knows stays true: what has landed or is logged stays so. *)
LEMMA KnowledgeKept ==
  ASSUME NEW q, NEW done, NEW log, NEW done2, NEW log2, DeliveryOK(q, done, log),
         done \subseteq done2, \A e \in Events : log[e] # None => log2[e] # None
  PROVE  DeliveryOK(q, done2, log2)
BY DEF DeliveryOK

(* One delivery moves on; the tables grow, and never forget what was       *)
(* landed or logged.                                                       *)
LEMMA DeliveryMoves ==
  ASSUME BillingInv, NEW w \in Workers, NEW q \in Deliveries,
         worker' = [worker EXCEPT ![w] = q], DeliveryOK(q, landed', eventLog'),
         landed \subseteq landed', \A e \in Events : eventLog[e] # None => eventLog'[e] # None
  PROVE  /\ worker' \in [Workers -> Deliveries]
         /\ \A v \in Workers : DeliveryOK(worker'[v], landed', eventLog')
<1>0. worker \in [Workers -> Deliveries] /\ \A v \in Workers : DeliveryOK(worker[v], landed, eventLog)
  BY DEF BillingInv, BillingSafety, BillingTypeOK, Deliveries
<1>1. /\ worker' \in [Workers -> Deliveries] /\ worker'[w] = q
      /\ \A v \in Workers : v # w => worker'[v] = worker[v]
  BY <1>0
<1>2. \A v \in Workers : DeliveryOK(worker[v], landed', eventLog')
  BY <1>0, KnowledgeKept
<1> QED
  BY <1>1, <1>2

(* The invariant of the next state, part by part.                          *)
LEMMA BillingParts ==
  ASSUME BillingTypeOK', PaidWasSold', LoggedHasLanded', AckedIsLogged',
         \A v \in Workers : DeliveryOK(worker'[v], landed', eventLog')
  PROVE  BillingInv'
<1>1. (\A v \in Workers : DeliveryOK(worker[v], landed, eventLog))'
  BY DEF DeliveryOK, Sells, Ends, Good, Ended, Decide
<1> QED
  BY <1>1 DEF BillingInv, BillingSafety

(* A step of a delivery that writes nothing.                               *)
LEMMA Moves ==
  ASSUME BillingInv, NEW w \in Workers, NEW q \in Deliveries,
         worker' = [worker EXCEPT ![w] = q], DeliveryOK(q, landed, eventLog),
         UNCHANGED <<tables, landed>>, acked' \subseteq Events,
         \A e \in acked' : eventLog[e] # None, faults' \in 0 .. MaxFaults
  PROVE  BillingInv'
<1>1. UNCHANGED <<customers, prices, tier, quota, entitlement, eventLog, landed>>
  BY DEF tables
<1>2. /\ worker' \in [Workers -> Deliveries]
      /\ \A v \in Workers : DeliveryOK(worker'[v], landed', eventLog')
  BY <1>1, DeliveryMoves
<1>3. BillingTypeOK'
  BY <1>1, <1>2 DEF BillingInv, BillingSafety, BillingTypeOK, Deliveries, Steps, Tiers, Rows, Statuses, Outcomes
<1>4. PaidWasSold' /\ LoggedHasLanded' /\ AckedIsLogged'
  BY <1>1 DEF BillingInv, BillingSafety, PaidWasSold, LoggedHasLanded, AckedIsLogged, Good
<1> QED
  BY <1>2, <1>3, <1>4, BillingParts

LEMMA DeliveryFacts ==
  ASSUME BillingInv, NEW w \in Workers
  PROVE  /\ worker[w] \in Deliveries /\ DeliveryOK(worker[w], landed, eventLog)
         /\ worker[w].pc # "idle" => worker[w].event \in Events
         /\ BillingTypeOK /\ PaidWasSold /\ LoggedHasLanded /\ AckedIsLogged
BY DEF BillingInv, BillingSafety, BillingTypeOK, Deliveries, DeliveryOK

LEMMA ConcludeFacts ==
  ASSUME BillingInv, NEW w \in Workers, worker[w].pc # "idle",
         NEW o \in Outcomes \ {"applied", "canceled"}
  PROVE  Conclude(w, o) \in Deliveries /\ DeliveryOK(Conclude(w, o), landed, eventLog)
<1>1. worker[w] \in Deliveries /\ worker[w].event \in Events
  BY DeliveryFacts
<1> DEFINE q == Conclude(w, o)
<1>2. q \in Deliveries /\ q.pc = "record" /\ q.outcome = o /\ q.event = worker[w].event
  BY <1>1 DEF Conclude, Deliveries, Steps
<1> HIDE DEF q
<1>3. DeliveryOK(q, landed, eventLog)
  BY <1>1, <1>2 DEF DeliveryOK
<1> QED
  BY <1>2, <1>3 DEF q

LEMMA IdleFacts ==
  ASSUME NEW done, NEW log
  PROVE  Idle \in Deliveries /\ DeliveryOK(Idle, done, log)
BY DEF Idle, Deliveries, DeliveryOK, Steps

(* The steps that read, and the ends of a delivery.                        *)
LEMMA ReadingStep ==
  ASSUME BillingConstants, BillingInv, NEW w \in Workers,
         \/ \E e \in Events : Deliver(w, e)
         \/ CheckSeen(w) \/ ResolveTenant(w) \/ ResolvePrice(w) \/ NoSuchOrg(w) \/ Reply(w) \/ Fail(w)
  PROVE  BillingInv'
<1>0. /\ worker[w] \in Deliveries /\ DeliveryOK(worker[w], landed, eventLog)
      /\ worker[w].pc # "idle" => worker[w].event \in Events
      /\ BillingTypeOK /\ PaidWasSold /\ LoggedHasLanded /\ AckedIsLogged
  BY DeliveryFacts
<1>1. ASSUME NEW q \in Deliveries, DeliveryOK(q, landed, eventLog),
             worker' = [worker EXCEPT ![w] = q], UNCHANGED <<tables, acked, faults, landed>>
      PROVE  BillingInv'
  BY <1>0, <1>1, Moves DEF BillingTypeOK, AckedIsLogged
<1>2. ASSUME NEW e \in Events, Deliver(w, e)
      PROVE  BillingInv'
  <2> DEFINE q == [Idle EXCEPT !.pc = "gate", !.event = e]
  <2>1. q \in Deliveries /\ q.pc = "gate" /\ q.event = e
    BY DEF Idle, Deliveries, Steps
  <2>2. worker' = [worker EXCEPT ![w] = q] /\ UNCHANGED <<tables, acked, faults, landed>>
    BY <1>2 DEF Deliver
  <2> HIDE DEF q
  <2>3. DeliveryOK(q, landed, eventLog)
    BY <2>1 DEF DeliveryOK
  <2> QED
    BY <1>1, <2>1, <2>2, <2>3
<1>3. CASE CheckSeen(w)
  <2> DEFINE e == worker[w].event
  <2>0. e \in Events /\ worker[w].pc = "gate"
    BY <1>0, <1>3 DEF CheckSeen
  <2>1. CASE eventLog[e] # None
    <3> DEFINE q == [worker[w] EXCEPT !.pc = "reply", !.outcome = "replayed"]
    <3>1. Goto(w, q)
      BY <1>3, <2>1 DEF CheckSeen
    <3>2. q \in Deliveries /\ q.pc = "reply" /\ q.event = e
      BY <1>0 DEF Deliveries, Steps, Outcomes
    <3> HIDE DEF q
    <3>3. DeliveryOK(q, landed, eventLog)
      BY <2>0, <2>1, <3>2 DEF DeliveryOK
    <3> QED
      BY <1>1, <3>1, <3>2, <3>3 DEF Goto
  <2>2. CASE eventLog[e] = None /\ Decide(e) = "ignore"
    <3>1. Goto(w, Conclude(w, "ignored"))
      BY <1>3, <2>2 DEF CheckSeen
    <3>2. Conclude(w, "ignored") \in Deliveries /\ DeliveryOK(Conclude(w, "ignored"), landed, eventLog)
      BY <2>0, ConcludeFacts DEF Outcomes
    <3> QED
      BY <1>1, <3>1, <3>2 DEF Goto
  <2>3. CASE eventLog[e] = None /\ Decide(e) # "ignore"
    <3> DEFINE q == [worker[w] EXCEPT !.pc = "tenant"]
    <3>1. Goto(w, q)
      BY <1>3, <2>3 DEF CheckSeen
    <3>2. q \in Deliveries /\ q.pc = "tenant" /\ q.event = e
      BY <1>0 DEF Deliveries, Steps
    <3> HIDE DEF q
    <3>3. DeliveryOK(q, landed, eventLog)
      BY <2>0, <3>2 DEF DeliveryOK
    <3> QED
      BY <1>1, <3>1, <3>2, <3>3 DEF Goto
  <2> QED
    BY <2>1, <2>2, <2>3
<1>4. CASE ResolveTenant(w)
  <2> DEFINE e == worker[w].event
             c == Body[e].customer
  <2>0. e \in Events /\ worker[w].pc = "tenant"
    BY <1>0, <1>4 DEF ResolveTenant
  <2>1. CASE c \notin customers
    <3>1. Goto(w, Conclude(w, "unknown_customer"))
      BY <1>4, <2>1 DEF ResolveTenant
    <3>2. Conclude(w, "unknown_customer") \in Deliveries
          /\ DeliveryOK(Conclude(w, "unknown_customer"), landed, eventLog)
      BY <2>0, ConcludeFacts DEF Outcomes
    <3> QED
      BY <1>1, <3>1, <3>2 DEF Goto
  <2>2. CASE c \in customers
    <3> DEFINE q == [worker[w] EXCEPT !.tenant = CustomerMap[c],
                                      !.pc = IF Decide(e) = "upsert" THEN "price" ELSE "write"]
    <3>1. Goto(w, q)
      BY <1>4, <2>2 DEF ResolveTenant
    <3>2. c \in DOMAIN CustomerMap /\ CustomerMap[c] \in Tenants
      BY <1>0, <2>2 DEF BillingTypeOK, BillingConstants
    <3>3. /\ q \in Deliveries /\ q.event = e /\ q.tenant = CustomerMap[c]
          /\ q.pc = IF Decide(e) = "upsert" THEN "price" ELSE "write"
      BY <1>0, <3>2 DEF Deliveries, Steps
    <3> HIDE DEF q
    <3>4. DeliveryOK(q, landed, eventLog)
      BY <2>0, <3>2, <3>3 DEF DeliveryOK
    <3> QED
      BY <1>1, <3>1, <3>3, <3>4 DEF Goto
  <2> QED
    BY <2>1, <2>2
<1>5. CASE ResolvePrice(w)
  <2> DEFINE e == worker[w].event
             p == Body[e].price
  <2>0. /\ e \in Events /\ worker[w].pc = "price" /\ Decide(e) = "upsert"
        /\ Body[e].customer \in DOMAIN CustomerMap /\ worker[w].tenant = CustomerMap[Body[e].customer]
    BY <1>0, <1>5 DEF ResolvePrice, DeliveryOK
  <2>1. CASE p \notin prices
    <3>1. Goto(w, Conclude(w, "unmapped_price"))
      BY <1>5, <2>1 DEF ResolvePrice, NoPrice
    <3>2. Conclude(w, "unmapped_price") \in Deliveries
          /\ DeliveryOK(Conclude(w, "unmapped_price"), landed, eventLog)
      BY <2>0, ConcludeFacts DEF Outcomes
    <3> QED
      BY <1>1, <3>1, <3>2 DEF Goto
  <2>2. CASE p \in prices
    <3> DEFINE q == [worker[w] EXCEPT !.pc = "write", !.tier = PriceMap[p]]
    <3>1. Goto(w, q)
      BY <1>5, <2>2 DEF ResolvePrice
    <3>2. p \in DOMAIN PriceMap /\ PriceMap[p] \in Tiers
      BY <1>0, <2>2 DEF BillingTypeOK, BillingConstants
    <3>3. /\ q \in Deliveries /\ q.event = e /\ q.tenant = worker[w].tenant
          /\ q.pc = "write" /\ q.tier = PriceMap[p]
      BY <1>0, <3>2 DEF Deliveries, Steps
    <3> HIDE DEF q
    <3>4. Sells(q)
      BY <2>0, <3>2, <3>3, DecideFacts DEF Sells
    <3>5. DeliveryOK(q, landed, eventLog)
      BY <2>0, <3>3, <3>4 DEF DeliveryOK
    <3> QED
      BY <1>1, <3>1, <3>3, <3>5 DEF Goto
  <2> QED
    BY <2>1, <2>2
<1>6. CASE NoSuchOrg(w)
  BY <1>1, <1>6, IdleFacts DEF NoSuchOrg, Goto
<1>7. CASE Reply(w)
  <2>1. worker[w].event \in Events /\ eventLog[worker[w].event] # None
    BY <1>0, <1>7 DEF Reply, DeliveryOK
  <2>2. /\ acked' = acked \cup {worker[w].event} /\ worker' = [worker EXCEPT ![w] = Idle]
        /\ UNCHANGED <<tables, faults, landed>>
    BY <1>7 DEF Reply
  <2>3. acked' \subseteq Events /\ faults' \in 0 .. MaxFaults /\ \A e \in acked' : eventLog[e] # None
    BY <1>0, <2>1, <2>2 DEF BillingTypeOK, AckedIsLogged
  <2> QED
    BY <2>2, <2>3, Moves, IdleFacts
<1>8. CASE Fail(w)
  <2>1. /\ faults' = faults + 1 /\ faults < MaxFaults /\ worker' = [worker EXCEPT ![w] = Idle]
        /\ UNCHANGED <<tables, acked, landed>>
    BY <1>8 DEF Fail
  <2>2. acked' \subseteq Events /\ faults' \in 0 .. MaxFaults /\ \A e \in acked' : eventLog[e] # None
    BY <1>0, <2>1 DEF BillingTypeOK, AckedIsLogged, BillingConstants
  <2> QED
    BY <2>1, <2>2, Moves, IdleFacts
<1> QED
  BY <1>2, <1>3, <1>4, <1>5, <1>6, <1>7, <1>8

(* upsert_stripe_entitlement, cancel_entitlement, mark_entitlement_past_due: *)
(* the row is written, and the delivery knows which tier is due.           *)
LEMMA EntitlementStep ==
  ASSUME BillingConstants, BillingInv, NEW w \in Workers, WriteEntitlement(w)
  PROVE  BillingInv'
<1> DEFINE e == worker[w].event
           s == Body[e].sub
           d == Decide(e)
<1>0. /\ worker[w] \in Deliveries /\ DeliveryOK(worker[w], landed, eventLog)
      /\ worker[w].pc = "write" /\ e \in Events
      /\ BillingTypeOK /\ PaidWasSold /\ LoggedHasLanded /\ AckedIsLogged
      /\ worker \in [Workers -> Deliveries]
  BY DeliveryFacts DEF WriteEntitlement, BillingTypeOK, Deliveries
<1>1. UNCHANGED <<customers, prices, tier, quota, eventLog, acked, faults, landed>>
  BY DEF WriteEntitlement
<1>2. /\ Body[e].customer \in DOMAIN CustomerMap /\ worker[w].tenant = CustomerMap[Body[e].customer]
      /\ worker[w].tenant \in Tenants
  BY <1>0 DEF DeliveryOK, BillingConstants
<1>3. ASSUME NEW q \in Deliveries, worker' = [worker EXCEPT ![w] = q], DeliveryOK(q, landed, eventLog),
             entitlement' \in [Subscriptions -> Rows \cup {None}]
      PROVE  BillingInv'
  <2>1. /\ worker' \in [Workers -> Deliveries]
        /\ \A v \in Workers : DeliveryOK(worker'[v], landed', eventLog')
    BY <1>1, <1>3, DeliveryMoves
  <2>2. BillingTypeOK'
    BY <1>0, <1>1, <1>3, <2>1 DEF BillingTypeOK, Deliveries, Steps, Tiers, Rows, Statuses, Outcomes
  <2>3. PaidWasSold' /\ LoggedHasLanded' /\ AckedIsLogged'
    BY <1>0, <1>1 DEF PaidWasSold, LoggedHasLanded, AckedIsLogged, Good
  <2> QED
    BY <2>1, <2>2, <2>3, BillingParts
<1>4. ASSUME NEW o \in Outcomes, NEW u \in Tiers \cup {None}, NEW p \in Steps,
             worker' = [worker EXCEPT ![w].pc = p, ![w].outcome = o, ![w].tier = u],
             entitlement' \in [Subscriptions -> Rows \cup {None}],
             \/ p = "record" /\ o \notin {"applied", "canceled"}
             \/ /\ p = "tier" /\ o \in {"applied", "canceled"}
                /\ (d = "upsert" /\ u = worker[w].tier) \/ (d = "cancel" /\ u = "free")
      PROVE  BillingInv'
  <2> DEFINE q == [worker[w] EXCEPT !.pc = p, !.outcome = o, !.tier = u]
  <2>1. worker' = [worker EXCEPT ![w] = q]
    BY <1>0, <1>4 DEF Deliveries
  <2>2. /\ q \in Deliveries /\ q.pc = p /\ q.outcome = o /\ q.tier = u
        /\ q.event = e /\ q.tenant = worker[w].tenant
    BY <1>0, <1>4 DEF Deliveries
  <2> HIDE DEF q
  <2>3. p = "tier" => Sells(q) \/ Ends(q)
    <3>1. CASE d = "upsert" /\ u = worker[w].tier
      <4>1. Sells(worker[w])
        BY <1>0, <3>1 DEF DeliveryOK
      <4> QED
        BY <3>1, <4>1, <2>2 DEF Sells
    <3>2. CASE d = "cancel" /\ u = "free"
      BY <3>2, <2>2, DecideFacts DEF Ends
    <3> QED
      BY <1>4, <3>1, <3>2
  <2>4. DeliveryOK(q, landed, eventLog)
    BY <1>0, <1>2, <1>4, <2>2, <2>3 DEF DeliveryOK
  <2> QED
    BY <1>3, <1>4, <2>1, <2>2, <2>4
<1>5. ASSUME NEW row, s \in Subscriptions => row \in Rows, entitlement' = [entitlement EXCEPT ![s] = row]
      PROVE  entitlement' \in [Subscriptions -> Rows \cup {None}]
  <2>1. entitlement \in [Subscriptions -> Rows \cup {None}]
    BY <1>0 DEF BillingTypeOK
  <2> QED
    BY <1>5, <2>1
<1>6. s \in Subscriptions => entitlement[s] \in Rows \cup {None}
  BY <1>0 DEF BillingTypeOK
<1>7. CASE /\ d = "upsert" /\ entitlement' = [entitlement EXCEPT ![s] = UpsertedRow(w, s)]
           /\ worker' = [worker EXCEPT ![w].pc = AfterWrite(d), ![w].outcome = "applied",
                                       ![w].tier = worker[w].tier]
  <2>1. Sells(worker[w])
    BY <1>0, <1>7 DEF DeliveryOK
  <2>2. worker[w].tier \in Tiers
    BY <2>1 DEF Sells, BillingConstants
  <2>3. s \in Subscriptions => UpsertedRow(w, s) \in Rows
    BY <1>2, <1>6, <2>2 DEF UpsertedRow, Rows, Statuses
  <2>4. entitlement' \in [Subscriptions -> Rows \cup {None}]
    BY <1>5, <1>7, <2>3
  <2>5. AfterWrite(d) = "tier"
    BY <1>7 DEF AfterWrite
  <2> QED
    BY <1>4, <1>7, <2>2, <2>4, <2>5 DEF Outcomes, Steps
<1>8. CASE UNCHANGED entitlement /\ worker' = [worker EXCEPT ![w] = Conclude(w, "unknown_subscription")]
  <2>1. Conclude(w, "unknown_subscription") \in Deliveries
        /\ DeliveryOK(Conclude(w, "unknown_subscription"), landed, eventLog)
    BY <1>0, ConcludeFacts DEF Outcomes
  <2>2. entitlement' \in [Subscriptions -> Rows \cup {None}]
    BY <1>0, <1>8 DEF BillingTypeOK
  <2> QED
    BY <1>3, <1>8, <2>1, <2>2
<1>9. ASSUME NEW st \in Statuses, entitlement[s] # None,
             entitlement' = [entitlement EXCEPT ![s] = [entitlement[s] EXCEPT !.status = st]]
      PROVE  entitlement' \in [Subscriptions -> Rows \cup {None}]
  <2>1. s \in Subscriptions => [entitlement[s] EXCEPT !.status = st] \in Rows
    BY <1>6, <1>9 DEF Rows
  <2> QED
    BY <1>5, <1>9, <2>1
<1>10. CASE /\ d = "cancel" /\ entitlement[s] # None
            /\ entitlement' = [entitlement EXCEPT ![s] = [entitlement[s] EXCEPT !.status = "canceled"]]
            /\ worker' = [worker EXCEPT ![w].pc = AfterWrite(d), ![w].outcome = "canceled", ![w].tier = "free"]
  <2>1. entitlement' \in [Subscriptions -> Rows \cup {None}]
    BY <1>9, <1>10 DEF Statuses
  <2>2. AfterWrite(d) = "tier"
    BY <1>10 DEF AfterWrite
  <2> QED
    BY <1>4, <1>10, <2>1, <2>2 DEF Outcomes, Steps, Tiers
<1>11. CASE /\ d = "past_due" /\ entitlement[s] # None
            /\ entitlement' = [entitlement EXCEPT ![s] = [entitlement[s] EXCEPT !.status = "past_due"]]
            /\ worker' = [worker EXCEPT ![w].pc = AfterWrite(d), ![w].outcome = "past_due", ![w].tier = "free"]
  <2>1. entitlement' \in [Subscriptions -> Rows \cup {None}]
    BY <1>9, <1>11 DEF Statuses
  <2>2. AfterWrite(d) = "record"
    BY <1>11 DEF AfterWrite
  <2> QED
    BY <1>4, <1>11, <2>1, <2>2 DEF Outcomes, Steps, Tiers
<1> QED
  BY <1>7, <1>8, <1>10, <1>11 DEF WriteEntitlement

(* apply_tier: a paid tier comes with the event that sold it.              *)
LEMMA TierStep ==
  ASSUME BillingConstants, BillingInv, NEW w \in Workers, ApplyTier(w)
  PROVE  BillingInv' /\ CutStep
<1> DEFINE e == worker[w].event
           o == worker[w].tenant
           n == worker[w].tier
           q == [worker[w] EXCEPT !.pc = "record"]
<1>0. /\ worker[w] \in Deliveries /\ DeliveryOK(worker[w], landed, eventLog)
      /\ worker[w].pc = "tier" /\ e \in Events /\ o \in Orgs
      /\ BillingTypeOK /\ PaidWasSold /\ LoggedHasLanded /\ AckedIsLogged
      /\ worker \in [Workers -> Deliveries]
  BY DeliveryFacts DEF ApplyTier, BillingTypeOK, Deliveries
<1>1. /\ UNCHANGED <<customers, prices, entitlement, eventLog, acked, faults>>
      /\ tier' = [tier EXCEPT ![o] = n] /\ quota' = [quota EXCEPT ![o] = n]
      /\ landed' = landed \cup {e} /\ worker' = [worker EXCEPT ![w] = q]
  <2>1. [worker EXCEPT ![w].pc = "record"] = [worker EXCEPT ![w] = q]
    BY <1>0
  <2> QED
    BY <2>1 DEF ApplyTier
<1>2. (Sells(worker[w]) \/ Ends(worker[w])) /\ n \in Tiers
  BY <1>0 DEF DeliveryOK, Sells, Ends, Tiers, BillingConstants
<1>3. q \in Deliveries /\ q.pc = "record" /\ q.event = e /\ q.outcome = worker[w].outcome
  BY <1>0 DEF Deliveries, Steps
<1>4. worker[w].outcome \in {"applied", "canceled"}
  BY <1>0 DEF DeliveryOK
<1>5. /\ tier' \in [Orgs -> Tiers] /\ quota' \in [Orgs -> Tiers]
      /\ tier'[o] = n /\ \A t \in Orgs : t # o => tier'[t] = tier[t]
  BY <1>0, <1>1, <1>2 DEF BillingTypeOK
<1>6. CutStep
  <2> SUFFICES ASSUME NEW t \in Orgs, tier[t] # "free", tier'[t] = "free"
               PROVE  /\ worker[w].pc = "tier" /\ worker[w].tenant = t
                      /\ Ended(worker[w].event) \/ MovedToFree(worker[w].event)
    BY DEF CutStep
  <2>1. t = o /\ n = "free"
    BY <1>5
  <2> QED
    BY <1>0, <1>2, <2>1 DEF Sells, Ends, MovedToFree
<1> HIDE DEF q
<1>7. DeliveryOK(q, landed', eventLog')
  BY <1>0, <1>1, <1>3, <1>4 DEF DeliveryOK, Outcomes
<1>8. /\ worker' \in [Workers -> Deliveries]
      /\ \A v \in Workers : DeliveryOK(worker'[v], landed', eventLog')
  BY <1>1, <1>3, <1>7, DeliveryMoves
<1>9. BillingTypeOK'
  BY <1>0, <1>1, <1>5, <1>8 DEF BillingTypeOK, Deliveries, Steps, Tiers, Rows, Statuses, Outcomes
<1>10. PaidWasSold'
  <2> SUFFICES ASSUME NEW t \in Orgs, tier'[t] # "free"
               PROVE  \E x \in landed' : /\ Good(x) /\ CustomerMap[Body[x].customer] = t
                                         /\ PriceMap[Body[x].price] = tier'[t]
    BY DEF PaidWasSold, Good
  <2>1. CASE t = o
    <3>1. Sells(worker[w])
      BY <1>2, <1>5, <2>1 DEF Ends
    <3>2. Good(e) /\ CustomerMap[Body[e].customer] = t /\ PriceMap[Body[e].price] = tier'[t] /\ e \in landed'
      BY <1>1, <1>5, <2>1, <3>1 DEF Sells
    <3> QED
      BY <3>2
  <2>2. CASE t # o
    BY <1>0, <1>1, <1>5, <2>2 DEF PaidWasSold
  <2> QED
    BY <2>1, <2>2
<1>11. LoggedHasLanded' /\ AckedIsLogged'
  BY <1>0, <1>1 DEF LoggedHasLanded, AckedIsLogged
<1> QED
  BY <1>6, <1>8, <1>9, <1>10, <1>11, BillingParts

(* record_billing_event: what is logged as done has landed.                *)
LEMMA RecordStep ==
  ASSUME BillingConstants, BillingInv, NEW w \in Workers, Record(w)
  PROVE  BillingInv'
<1> DEFINE e == worker[w].event
           q == [worker[w] EXCEPT !.pc = "reply"]
<1>0. /\ worker[w] \in Deliveries /\ DeliveryOK(worker[w], landed, eventLog)
      /\ worker[w].pc = "record" /\ e \in Events
      /\ BillingTypeOK /\ PaidWasSold /\ LoggedHasLanded /\ AckedIsLogged
      /\ worker \in [Workers -> Deliveries]
  BY DeliveryFacts DEF Record, BillingTypeOK, Deliveries
<1>1. /\ UNCHANGED <<customers, prices, tier, quota, entitlement, acked, faults, landed>>
      /\ eventLog' = [eventLog EXCEPT ![e] = IF @ = None THEN worker[w].outcome ELSE @]
      /\ worker' = [worker EXCEPT ![w] = q]
  <2>1. [worker EXCEPT ![w].pc = "reply"] = [worker EXCEPT ![w] = q]
    BY <1>0
  <2> QED
    BY <2>1 DEF Record
<1>2. worker[w].outcome \in Outcomes /\ (worker[w].outcome \in {"applied", "canceled"} => e \in landed)
  BY <1>0 DEF DeliveryOK
<1>3. /\ eventLog' \in [Events -> Outcomes \cup {None}] /\ eventLog'[e] # None
      /\ \A x \in Events : x # e \/ eventLog[e] # None => eventLog'[x] = eventLog[x]
      /\ eventLog[e] = None => eventLog'[e] = worker[w].outcome
      /\ \A x \in Events : eventLog[x] # None => eventLog'[x] # None
  BY <1>0, <1>1, <1>2 DEF BillingTypeOK, BillingConstants
<1>4. q \in Deliveries /\ q.pc = "reply" /\ q.event = e
  BY <1>0 DEF Deliveries, Steps
<1> HIDE DEF q
<1>5. DeliveryOK(q, landed', eventLog')
  BY <1>0, <1>3, <1>4 DEF DeliveryOK
<1>6. /\ worker' \in [Workers -> Deliveries]
      /\ \A v \in Workers : DeliveryOK(worker'[v], landed', eventLog')
  BY <1>1, <1>3, <1>4, <1>5, DeliveryMoves
<1>7. BillingTypeOK'
  BY <1>0, <1>1, <1>3, <1>6 DEF BillingTypeOK, Deliveries, Steps, Tiers, Rows, Statuses, Outcomes
<1>8. PaidWasSold' /\ LoggedHasLanded' /\ AckedIsLogged'
  BY <1>0, <1>1, <1>2, <1>3 DEF BillingTypeOK, PaidWasSold, LoggedHasLanded, AckedIsLogged, Good
<1> QED
  BY <1>6, <1>7, <1>8, BillingParts

(* The operator's maps grow, or nothing happens.                           *)
LEMMA AdministerStep ==
  ASSUME BillingInv, Administer \/ UNCHANGED billingVars
  PROVE  BillingInv'
<1>0. BillingTypeOK /\ PaidWasSold /\ LoggedHasLanded /\ AckedIsLogged
      /\ \A v \in Workers : DeliveryOK(worker[v], landed, eventLog)
  BY DEF BillingInv, BillingSafety
<1>1. /\ UNCHANGED <<tier, quota, entitlement, eventLog, worker, acked, faults, landed>>
      /\ customers' \subseteq DOMAIN CustomerMap /\ prices' \subseteq DOMAIN PriceMap
  BY <1>0 DEF Administer, BindCustomer, MapPrice, billingVars, tables, BillingTypeOK
<1>2. BillingTypeOK' /\ PaidWasSold' /\ LoggedHasLanded' /\ AckedIsLogged'
  BY <1>0, <1>1 DEF BillingTypeOK, PaidWasSold, LoggedHasLanded, AckedIsLogged, Good,
                    Steps, Tiers, Rows, Statuses, Outcomes
<1> QED
  BY <1>0, <1>1, <1>2, BillingParts

LEMMA BillingInitial ==
  ASSUME BillingConstants, BillingInit
  PROVE  BillingInv
<1>1. Idle \in Deliveries /\ DeliveryOK(Idle, landed, eventLog)
  BY IdleFacts
<1>2. BillingTypeOK
  BY <1>1 DEF BillingTypeOK, BillingInit, Tiers, Deliveries, BillingConstants
<1>3. PaidWasSold /\ AckedIsLogged /\ \A w \in Workers : DeliveryOK(worker[w], landed, eventLog)
  BY <1>1 DEF PaidWasSold, AckedIsLogged, BillingInit
<1>4. LoggedHasLanded
  BY DEF LoggedHasLanded, BillingInit, BillingConstants, Outcomes
<1> QED
  BY <1>2, <1>3, <1>4 DEF BillingInv, BillingSafety

LEMMA BillingStep ==
  ASSUME BillingConstants, BillingInv, [BillingNext]_billingVars
  PROVE  BillingInv'
BY ReadingStep, EntitlementStep, TierStep, RecordStep, AdministerStep DEF BillingNext, Step

(* Whatever deliveries overlap, repeat or break off: a paid tier was sold  *)
(* to that tenant at the price that maps to it, an event the log calls     *)
(* applied or canceled has reached the org, and Stripe has a 200 only for  *)
(* what is in the log.                                                     *)
THEOREM BillingSafetyTheorem ==
  ASSUME BillingConstants
  PROVE  BillingSpec => []BillingSafety
<1>1. BillingInit => BillingInv
  BY BillingInitial
<1>2. BillingInv /\ [BillingNext]_billingVars => BillingInv'
  BY BillingStep
<1>3. BillingInv => BillingSafety
  BY DEF BillingInv
<1> QED
  BY <1>1, <1>2, <1>3, PTL DEF BillingSpec

(* Grace: apply_tier is the only step that takes a paid tier away, and it  *)
(* does so only for a delivery of the subscription's end or of its move to *)
(* a price mapped to free.                                                 *)
THEOREM CutOnlyWhenEndedTheorem ==
  ASSUME BillingConstants
  PROVE  BillingSpec => CutOnlyWhenEnded
<1>1. BillingInit => BillingInv
  BY BillingInitial
<1>2. BillingInv /\ [BillingNext]_billingVars => BillingInv'
  BY BillingStep
<1>3. BillingInv /\ [BillingNext]_billingVars => [CutStep]_billingVars
  <2> SUFFICES ASSUME BillingInv, BillingNext PROVE CutStep \/ UNCHANGED billingVars
    OBVIOUS
  <2>1. ASSUME NEW w \in Workers, ApplyTier(w)
        PROVE  CutStep
    BY <2>1, TierStep
  <2>2. CASE UNCHANGED tier
    BY <2>2 DEF CutStep
  <2>3. (\E w \in Workers : ApplyTier(w)) \/ UNCHANGED tier
    BY DEF BillingNext, Step, Administer, BindCustomer, MapPrice, Deliver, CheckSeen, ResolveTenant,
           ResolvePrice, WriteEntitlement, NoSuchOrg, Record, Reply, Fail, Goto, tables
  <2> QED
    BY <2>1, <2>2, <2>3
<1> QED
  BY <1>1, <1>2, <1>3, PTL DEF BillingSpec, CutOnlyWhenEnded

-----------------------------------------------------------------------------
(* The sessions of an operator.                                            *)

Credentials == [family : Families, revoked : BOOLEAN, expires : Nat]

(* What every step leaves of the past: credentials keep their family,      *)
(* families stay opened, and what ends, ends now.                          *)
Grows ==
  /\ now <= now'
  /\ \A s \in DOMAIN sessions : s \in DOMAIN sessions' /\ sessions'[s].family = sessions[s].family
  /\ \A f \in Families : families[f] # "unused" => families'[f] # "unused"
  /\ \A f \in Families : ended'[f] = ended[f] \/ ended'[f] = now
  /\ \A fact \in Facts : since'[fact] = since[fact] \/ since'[fact] = Never \/ since'[fact] = now

LEMMA SessionFacts ==
  ASSUME SessionConstants, AccessInv
  PROVE  /\ now \in Nat /\ DOMAIN sessions = 1 .. Len(sessions) /\ Len(sessions) \in Nat
         /\ \A s \in DOMAIN sessions : sessions[s] \in Credentials
         /\ \A r \in Requests : request[r] \in Handlers /\ HandlerOK(request[r])
         /\ SessionsTypeOK /\ EndsKept /\ CredentialsOK
<1>1. /\ SessionsTypeOK /\ EndsKept /\ CredentialsOK
      /\ \A r \in Requests : HandlerOK(request[r])
  BY DEF AccessInv
<1>2. /\ sessions \in Seq(Credentials) /\ now \in Nat /\ request \in [Requests -> Handlers]
  BY <1>1 DEF SessionsTypeOK, Credentials
<1>3. DOMAIN sessions = 1 .. Len(sessions) /\ Len(sessions) \in Nat
      /\ \A s \in DOMAIN sessions : sessions[s] \in Credentials
  BY <1>2
<1> QED
  BY <1>1, <1>2, <1>3

(* A handler that does not move knows what it knew.                        *)
LEMMA HandlerKept ==
  ASSUME SessionConstants, AccessInv, Grows, SessionsTypeOK', NEW r \in Requests,
         request'[r] = request[r]
  PROVE  HandlerOK(request[r])'
<1>0. request[r] \in Handlers /\ HandlerOK(request[r]) /\ SessionsTypeOK
  BY SessionFacts
<1> DEFINE q == request[r]
<1>1. q.at \in Nat /\ now \in Nat /\ now' \in Nat /\ now <= now' /\ q.at <= now
  BY <1>0 DEF Handlers, SessionsTypeOK, HandlerOK, Grows
<1>2. q.at <= now'
  BY <1>1
<1>3. q.kind = "refresh" => q.session \in DOMAIN sessions' /\ q.family = sessions'[q.session].family
  BY <1>0 DEF HandlerOK, Grows
<1>4. /\ q.pc \in {"status", "role", "grant", "respond"} /\ since'["member"] # Never => q.at <= since'["member"]
      /\ q.pc \in {"role", "grant", "respond"} /\ since'["active"] # Never => q.at <= since'["active"]
  BY <1>0, <1>1 DEF HandlerOK, Began, Grows, Facts
<1>5. q.pc = "respond" => /\ q.family \in Families /\ families'[q.family] # "unused"
                          /\ ended'[q.family] # Never => q.at <= ended'[q.family]
  BY <1>0, <1>1 DEF HandlerOK, Began, Grows
<1>6. q.pc = "revoke" => q.kind = "refresh"
  BY <1>0 DEF HandlerOK
<1> QED
  BY <1>2, <1>3, <1>4, <1>5, <1>6 DEF HandlerOK, Began

(* So do the tokens: each was signed with the clock of its handler.        *)
LEMMA TokensKept ==
  ASSUME SessionConstants, AccessInv, Grows, SessionsTypeOK',
         \A t \in minted' \ minted :
           /\ families'[t.family] # "unused" /\ t.exp <= now' + AccessTtl
           /\ ended'[t.family] # Never => t.exp <= ended'[t.family] + AccessTtl
           /\ \A fact \in Facts : since'[fact] # Never => t.exp <= since'[fact] + AccessTtl
  PROVE  /\ (\A t \in minted : families[t.family] # "unused" /\ t.exp <= now + AccessTtl)'
         /\ AccessEnds' /\ CutOff'
<1>0. /\ minted \subseteq [family : Families, exp : Nat] /\ minted' \subseteq [family : Families, exp : Nat]
      /\ now \in Nat /\ now' \in Nat /\ now <= now' /\ AccessTtl \in Nat
  BY DEF AccessInv, SessionsTypeOK, Grows, SessionConstants
<1>1. ASSUME NEW t \in minted'
      PROVE  families'[t.family] # "unused" /\ t.exp <= now' + AccessTtl
  <2>1. t.family \in Families /\ t.exp \in Nat
    BY <1>0
  <2>2. CASE t \in minted
    BY <1>0, <2>1, <2>2 DEF AccessInv, Grows
  <2> QED
    BY <2>2
<1>2. ASSUME NEW t \in minted', ended'[t.family] # Never
      PROVE  t.exp <= ended'[t.family] + AccessTtl
  <2>1. t.family \in Families
    BY <1>0
  <2>2. CASE t \in minted
    BY <1>2, <2>1, <2>2 DEF AccessInv, AccessEnds, Grows
  <2> QED
    BY <1>2, <2>2
<1>3. ASSUME NEW fact \in Facts, since'[fact] # Never, NEW t \in minted'
      PROVE  t.exp <= since'[fact] + AccessTtl
  <2>1. CASE t \in minted
    <3>1. DOMAIN since = Facts
      BY DEF AccessInv, SessionsTypeOK
    <3> QED
      BY <1>3, <2>1, <3>1 DEF AccessInv, CutOff, Grows
  <2> QED
    BY <1>3, <2>1
<1>4. DOMAIN since' = Facts
  BY DEF SessionsTypeOK, Facts
<1> QED
  BY <1>1, <1>2, <1>3, <1>4 DEF AccessEnds, CutOff

(* The invariant of the next state, from what a step may disturb.          *)
LEMMA AccessParts ==
  ASSUME SessionConstants, AccessInv, Grows, SessionsTypeOK', EndsKept', CredentialsOK',
         \A r \in Requests : request'[r] = request[r] \/ HandlerOK(request[r])',
         \A t \in minted' \ minted :
           /\ families'[t.family] # "unused" /\ t.exp <= now' + AccessTtl
           /\ ended'[t.family] # Never => t.exp <= ended'[t.family] + AccessTtl
           /\ \A fact \in Facts : since'[fact] # Never => t.exp <= since'[fact] + AccessTtl
  PROVE  AccessInv'
<1>1. \A r \in Requests : HandlerOK(request[r])'
  BY HandlerKept
<1>2. /\ (\A t \in minted : families[t.family] # "unused" /\ t.exp <= now + AccessTtl)'
      /\ AccessEnds' /\ CutOff'
  BY TokensKept
<1> QED
  BY <1>1, <1>2 DEF AccessInv

(* A step in which one handler moves and nothing else changes.             *)
LEMMA HandlerMoves ==
  ASSUME SessionConstants, AccessInv, NEW r \in Requests, NEW q \in Handlers, HandlerOK(q),
         request' = [request EXCEPT ![r] = q], UNCHANGED <<now, policy, store, minted>>
  PROVE  AccessInv'
<1>0. UNCHANGED <<now, member, active, since, families, sessions, ended, minted>>
  BY DEF policy, store
<1>1. SessionsTypeOK /\ EndsKept /\ CredentialsOK /\ now \in Nat
  BY SessionFacts
<1>2. /\ request' \in [Requests -> Handlers] /\ request'[r] = q
      /\ \A u \in Requests : u # r => request'[u] = request[u]
  BY <1>1 DEF SessionsTypeOK
<1>3. SessionsTypeOK'
  BY <1>0, <1>1, <1>2 DEF SessionsTypeOK, Facts, Handlers
<1>4. EndsKept' /\ CredentialsOK'
  BY <1>0, <1>1 DEF EndsKept, CredentialsOK, TombstoneHolds, Facts
<1>5. Grows
  BY <1>0, <1>1 DEF Grows
<1>6. HandlerOK(request[r])'
  BY <1>0, <1>2 DEF HandlerOK, Began
<1> QED
  BY <1>0, <1>2, <1>3, <1>4, <1>5, <1>6, AccessParts

LEMMA NoRequestFacts ==
  ASSUME SessionConstants, AccessInv
  PROVE  NoRequest \in Handlers /\ HandlerOK(NoRequest)
<1>1. now \in Nat
  BY SessionFacts
<1> QED
  BY <1>1 DEF NoRequest, Handlers, HandlerOK, Began

(* A handler goes on with what it was given.                               *)
LEMMA GoesOn ==
  ASSUME SessionConstants, AccessInv, NEW r \in Requests,
         NEW step \in {"idle", "tenant", "status", "role", "grant", "revoke", "respond"}, Go(r, step)
  PROVE  \E q \in Handlers :
           /\ request' = [request EXCEPT ![r] = q]
           /\ IF step = "idle" THEN q = NoRequest
              ELSE /\ q.pc = step /\ q.kind = request[r].kind /\ q.family = request[r].family
                   /\ q.session = request[r].session /\ q.at = request[r].at
<1>0. request \in [Requests -> Handlers] /\ request[r] \in Handlers
  BY DEF AccessInv, SessionsTypeOK
<1>1. CASE step = "idle"
  BY <1>1, NoRequestFacts DEF Go
<1>2. CASE step # "idle"
  <2> DEFINE q == [request[r] EXCEPT !.pc = step]
  <2>1. request' = [request EXCEPT ![r] = q]
    BY <1>0, <1>2 DEF Go
  <2>2. /\ q \in Handlers /\ q.pc = step /\ q.kind = request[r].kind /\ q.family = request[r].family
        /\ q.session = request[r].session /\ q.at = request[r].at
    BY <1>0 DEF Handlers
  <2> QED
    BY <1>2, <2>1, <2>2
<1> QED
  BY <1>1, <1>2

(* The start of a handler and the calls of the policy backend: what it     *)
(* reads was so after it began.                                            *)
LEMMA PolicyStep ==
  ASSUME SessionConstants, AccessInv, NEW r \in Requests,
         \/ Login(r) \/ (\E s \in DOMAIN sessions : Authenticate(r, s))
         \/ Tenant(r) \/ Status(r) \/ RoleOf(r) \/ Abandon(r)
  PROVE  AccessInv'
<1>0. /\ now \in Nat /\ DOMAIN sessions = 1 .. Len(sessions) /\ Len(sessions) \in Nat
      /\ \A s \in DOMAIN sessions : sessions[s] \in Credentials
      /\ request[r] \in Handlers /\ HandlerOK(request[r])
      /\ SessionsTypeOK /\ EndsKept
  BY SessionFacts
<1>1. CASE Login(r)
  <2> DEFINE q == [NoRequest EXCEPT !.pc = "tenant", !.kind = "login", !.at = now]
  <2>1. q \in Handlers /\ q.pc = "tenant" /\ q.kind = "login" /\ q.at = now
    BY <1>0 DEF NoRequest, Handlers
  <2>2. request' = [request EXCEPT ![r] = q] /\ UNCHANGED <<now, policy, store, minted>>
    BY <1>1 DEF Login
  <2> HIDE DEF q
  <2>3. HandlerOK(q)
    BY <1>0, <2>1 DEF HandlerOK, Began
  <2> QED
    BY <2>1, <2>2, <2>3, HandlerMoves
<1>2. ASSUME NEW s \in DOMAIN sessions, Authenticate(r, s)
      PROVE  AccessInv'
  <2> DEFINE q == [pc |-> "tenant", kind |-> "refresh", family |-> sessions[s].family, session |-> s, at |-> now]
  <2>1. sessions[s].family \in Families /\ s \in Nat
    BY <1>0 DEF Credentials
  <2>2. /\ q \in Handlers /\ q.pc = "tenant" /\ q.kind = "refresh" /\ q.at = now
        /\ q.session = s /\ q.family = sessions[s].family
    BY <1>0, <2>1 DEF Handlers
  <2>3. request' = [request EXCEPT ![r] = q] /\ UNCHANGED <<now, policy, store, minted>>
    BY <1>2 DEF Authenticate
  <2> HIDE DEF q
  <2>4. HandlerOK(q)
    BY <1>0, <2>2 DEF HandlerOK, Began
  <2> QED
    BY <2>2, <2>3, <2>4, HandlerMoves
<1>3. CASE Tenant(r) \/ Status(r) \/ RoleOf(r) \/ Abandon(r)
  <2>1. PICK step \in {"idle", "status", "role", "grant", "revoke"} :
          /\ Go(r, step) /\ (step = "revoke" => request[r].kind = "refresh")
          /\ request[r].pc \in {"tenant", "status", "role"}
          /\ step = "status" => member
          /\ step = "role" => request[r].pc = "status" /\ active
          /\ step = "grant" => request[r].pc = "role" /\ member
    BY <1>3 DEF Tenant, Status, RoleOf, Abandon, At, Denied
  <2>2. UNCHANGED <<now, policy, store, minted>>
    BY <1>3 DEF Tenant, Status, RoleOf, Abandon
  <2>3. PICK q \in Handlers :
           /\ request' = [request EXCEPT ![r] = q]
           /\ IF step = "idle" THEN q = NoRequest
              ELSE /\ q.pc = step /\ q.kind = request[r].kind /\ q.family = request[r].family
                   /\ q.session = request[r].session /\ q.at = request[r].at
    BY <2>1, GoesOn
  <2>4. HandlerOK(q)
    <3>1. CASE step = "idle"
      BY <2>3, <3>1, NoRequestFacts
    <3>2. CASE step # "idle"
      <4>1. (member => since["member"] = Never) /\ (active => since["active"] = Never)
        BY <1>0 DEF EndsKept
      <4> QED
        BY <1>0, <2>1, <2>3, <3>2, <4>1 DEF HandlerOK, Began
    <3> QED
      BY <3>1, <3>2
  <2> QED
    BY <2>2, <2>3, <2>4, HandlerMoves
<1> QED
  BY <1>1, <1>2, <1>3

(* The end of a family: the tombstone, and every linked credential.        *)
LEMMA RevokeStep ==
  ASSUME SessionConstants, AccessInv, NEW f \in Families, RevokeFamily(f),
         UNCHANGED <<now, policy, minted>>, request' \in [Requests -> Handlers],
         \A r \in Requests : request'[r] = request[r] \/ request'[r] = NoRequest
  PROVE  AccessInv'
<1>0. /\ now \in Nat /\ DOMAIN sessions = 1 .. Len(sessions) /\ Len(sessions) \in Nat
      /\ \A s \in DOMAIN sessions : sessions[s] \in Credentials
      /\ SessionsTypeOK /\ EndsKept /\ CredentialsOK
      /\ UNCHANGED <<now, member, active, since, minted>>
  BY SessionFacts DEF policy
<1>1. /\ families' = [families EXCEPT ![f] = "revoked"]
      /\ ended' = [ended EXCEPT ![f] = IF @ = Never THEN now ELSE @]
      /\ sessions' = [s \in DOMAIN sessions |->
           IF sessions[s].family = f THEN [sessions[s] EXCEPT !.revoked = TRUE] ELSE sessions[s]]
  BY DEF RevokeFamily
<1>2. /\ DOMAIN sessions' = DOMAIN sessions
      /\ \A s \in DOMAIN sessions :
           /\ sessions'[s] \in Credentials /\ sessions'[s].family = sessions[s].family
           /\ sessions'[s].revoked = (sessions[s].revoked \/ sessions[s].family = f)
  <2>1. DOMAIN sessions' = DOMAIN sessions
    BY <1>1
  <2>2. ASSUME NEW s \in DOMAIN sessions
        PROVE  /\ sessions'[s] \in Credentials /\ sessions'[s].family = sessions[s].family
               /\ sessions'[s].revoked = (sessions[s].revoked \/ sessions[s].family = f)
    <3>1. sessions[s] \in Credentials /\ sessions[s].revoked \in BOOLEAN
      BY <1>0 DEF Credentials
    <3>2. CASE sessions[s].family = f
      <4>1. sessions'[s] = [sessions[s] EXCEPT !.revoked = TRUE]
        BY <1>1, <3>2
      <4> QED
        BY <4>1, <3>1, <3>2 DEF Credentials
    <3>3. CASE sessions[s].family # f
      BY <1>1, <3>1, <3>3
    <3> QED
      BY <3>2, <3>3
  <2> QED
    BY <2>1, <2>2
<1>3. sessions' \in Seq(Credentials)
  <2>1. sessions' \in [1 .. Len(sessions) -> Credentials]
    BY <1>0, <1>1, <1>2
  <2> QED
    BY <1>0, <2>1
<1>4. /\ families' \in [Families -> {"unused", "open", "revoked"}] /\ families'[f] = "revoked"
      /\ \A g \in Families : g # f => families'[g] = families[g] /\ ended'[g] = ended[g]
      /\ ended' \in [Families -> Nat \cup {Never}]
      /\ ended'[f] = IF ended[f] = Never THEN now ELSE ended[f]
  BY <1>0, <1>1 DEF SessionsTypeOK
<1>5. SessionsTypeOK'
  BY <1>0, <1>3, <1>4 DEF SessionsTypeOK, Credentials, Facts, Handlers
<1>6. EndsKept'
  <2>1. ended'[f] # Never /\ ended'[f] <= now
    BY <1>0, <1>4 DEF EndsKept, SessionConstants
  <2>2. \A g \in Families : g # f => /\ ended'[g] # Never => families'[g] = "revoked" /\ ended'[g] <= now
                                     /\ families'[g] = "revoked" => ended'[g] # Never
    BY <1>0, <1>4 DEF EndsKept
  <2>3. \A g \in Families : /\ ended'[g] # Never => families'[g] = "revoked" /\ ended'[g] <= now'
                            /\ families'[g] = "revoked" => ended'[g] # Never
    BY <2>1, <2>2, <1>0, <1>4
  <2>4. (since'["member"] # Never <=> ~member') /\ (since'["active"] # Never <=> ~active')
        /\ \A fact \in Facts : since'[fact] # Never => since'[fact] <= now'
    BY <1>0 DEF EndsKept
  <2> QED
    BY <2>3, <2>4 DEF EndsKept, Facts
<1>7. CredentialsOK'
  <2>1. \A s \in DOMAIN sessions' : families'[sessions'[s].family] # "unused"
    BY <1>0, <1>2, <1>4 DEF CredentialsOK, Credentials
  <2>2. \A s \in DOMAIN sessions' : ~sessions'[s].revoked => ~sessions[s].revoked /\ sessions[s].family # f
    BY <1>2
  <2>3. \A s, t \in DOMAIN sessions' :
          (sessions'[s].family = sessions'[t].family /\ ~sessions'[s].revoked /\ ~sessions'[t].revoked) => s = t
    BY <1>0, <1>2, <2>2 DEF CredentialsOK
  <2>4. ASSUME NEW s \in DOMAIN sessions', families'[sessions'[s].family] = "revoked"
        PROVE  sessions'[s].revoked
    <3>1. s \in DOMAIN sessions /\ sessions[s].family \in Families /\ sessions'[s].family = sessions[s].family
      BY <1>0, <1>2 DEF Credentials
    <3>2. CASE sessions[s].family = f
      BY <1>2, <3>1, <3>2
    <3>3. CASE sessions[s].family # f
      <4>1. sessions[s].revoked
        BY <1>0, <1>4, <2>4, <3>1, <3>3 DEF CredentialsOK, TombstoneHolds
      <4> QED
        BY <1>2, <3>1, <4>1
    <3> QED
      BY <3>2, <3>3
  <2>5. TombstoneHolds'
    BY <2>4 DEF TombstoneHolds
  <2> QED
    BY <2>1, <2>3, <2>5 DEF CredentialsOK
<1>8. Grows
  BY <1>0, <1>2, <1>4 DEF Grows
<1>9. ASSUME NEW r \in Requests, request'[r] = NoRequest
      PROVE  HandlerOK(request[r])'
  BY <1>0, <1>9 DEF NoRequest, HandlerOK, Began
<1> QED
  BY <1>0, <1>5, <1>6, <1>7, <1>8, <1>9, AccessParts

(* A new credential: the family is open, its other credentials are revoked, *)
(* and the handler that asked for it goes on to sign.                      *)
LEMMA GrantStep ==
  ASSUME SessionConstants, AccessInv, NEW r \in Requests, NEW q \in Handlers, NEW c \in Credentials,
         NEW base \in Seq(Credentials), Len(base) = Len(sessions), sessions' = Append(base, c),
         \A s \in DOMAIN sessions : /\ base[s].family = sessions[s].family
                                    /\ sessions[s].revoked => base[s].revoked
                                    /\ base[s].family = c.family => base[s].revoked,
         families' \in [Families -> {"unused", "open", "revoked"}], families'[c.family] = "open",
         \A g \in Families : g # c.family => families'[g] = families[g],
         families[c.family] # "revoked",
         request' = [request EXCEPT ![r] = q], request[r].pc = "grant",
         q.pc = "respond", q.family = c.family, q.at = request[r].at, q.session = request[r].session,
         q.kind = request[r].kind, q.kind = "refresh" => request[r].family = c.family,
         UNCHANGED <<now, policy, minted, ended>>
  PROVE  AccessInv'
<1>0. /\ now \in Nat /\ DOMAIN sessions = 1 .. Len(sessions) /\ Len(sessions) \in Nat
      /\ \A s \in DOMAIN sessions : sessions[s] \in Credentials
      /\ request[r] \in Handlers /\ HandlerOK(request[r])
      /\ SessionsTypeOK /\ EndsKept /\ CredentialsOK
      /\ UNCHANGED <<now, member, active, since, minted, ended>>
  BY SessionFacts DEF policy
<1> DEFINE n == Len(sessions) + 1
<1>1. /\ sessions' \in Seq(Credentials) /\ DOMAIN sessions' = 1 .. n /\ sessions'[n] = c
      /\ \A s \in DOMAIN sessions : s \in DOMAIN sessions' /\ s # n /\ sessions'[s] = base[s]
      /\ \A s \in DOMAIN sessions' : s \in DOMAIN sessions \/ s = n
  BY <1>0
<1> HIDE DEF n
<1>2. /\ request' \in [Requests -> Handlers] /\ request'[r] = q
      /\ \A u \in Requests : u # r => request'[u] = request[u]
  BY <1>0 DEF SessionsTypeOK
<1>3. SessionsTypeOK'
  BY <1>0, <1>1, <1>2 DEF SessionsTypeOK, Credentials, Facts, Handlers
<1>4. c.family \in Families /\ ended[c.family] = Never /\ c.revoked \in BOOLEAN
  BY <1>0 DEF Credentials, EndsKept
<1>5. EndsKept'
  <2>1. \A g \in Families : /\ ended[g] # Never => families'[g] = "revoked" /\ ended[g] <= now
                            /\ families'[g] = "revoked" => ended[g] # Never
    BY <1>0, <1>4 DEF EndsKept
  <2>2. (since'["member"] # Never <=> ~member') /\ (since'["active"] # Never <=> ~active')
        /\ \A fact \in Facts : since'[fact] # Never => since'[fact] <= now'
    BY <1>0 DEF EndsKept
  <2> QED
    BY <1>0, <2>1, <2>2 DEF EndsKept, Facts
<1>6. CredentialsOK'
  <2>1. \A s \in DOMAIN sessions : /\ sessions'[s].family = sessions[s].family
                                   /\ ~sessions'[s].revoked => ~sessions[s].revoked
                                   /\ sessions'[s].family = c.family => sessions'[s].revoked
                                   /\ sessions[s].family \in Families
    BY <1>0, <1>1 DEF Credentials
  <2>2. \A s \in DOMAIN sessions' : families'[sessions'[s].family] # "unused"
    BY <1>0, <1>1, <2>1 DEF CredentialsOK
  <2>3. ASSUME NEW s \in DOMAIN sessions', NEW t \in DOMAIN sessions',
               sessions'[s].family = sessions'[t].family, ~sessions'[s].revoked, ~sessions'[t].revoked
        PROVE  s = t
    <3>1. CASE s = n
      BY <1>1, <2>1, <2>3, <3>1
    <3>2. CASE t = n
      BY <1>1, <2>1, <2>3, <3>2
    <3>3. CASE s # n /\ t # n
      BY <1>0, <1>1, <2>1, <2>3, <3>3 DEF CredentialsOK
    <3> QED
      BY <3>1, <3>2, <3>3
  <2>4. ASSUME NEW s \in DOMAIN sessions', families'[sessions'[s].family] = "revoked"
        PROVE  sessions'[s].revoked
    <3>1. s # n
      BY <1>1, <2>4
    <3>2. s \in DOMAIN sessions /\ families[sessions[s].family] = "revoked"
      BY <1>1, <2>1, <2>4, <3>1
    <3>3. sessions[s].revoked
      BY <1>0, <3>2 DEF CredentialsOK, TombstoneHolds
    <3> QED
      BY <1>1, <3>2, <3>3
  <2>5. TombstoneHolds'
    BY <2>4 DEF TombstoneHolds
  <2> QED
    BY <2>2, <2>3, <2>5 DEF CredentialsOK
<1>7. Grows
  BY <1>0, <1>1 DEF Grows
<1>8. HandlerOK(request[r])'
  <2>1. q.at <= now /\ (q.kind = "refresh" => q.session \in DOMAIN sessions' /\ q.family = sessions'[q.session].family)
    BY <1>0, <1>1 DEF HandlerOK
  <2>2. /\ since["member"] # Never => q.at <= since["member"]
        /\ since["active"] # Never => q.at <= since["active"]
    BY <1>0 DEF HandlerOK, Began
  <2> QED
    BY <1>0, <1>2, <1>4, <2>1, <2>2 DEF HandlerOK, Began
<1> QED
  BY <1>0, <1>2, <1>3, <1>5, <1>6, <1>7, <1>8, AccessParts

(* issue_operator_refresh: the first credential of a family.               *)
LEMMA IssueStep ==
  ASSUME SessionConstants, AccessInv, NEW r \in Requests, NEW f \in Families, Issue(r, f)
  PROVE  AccessInv'
<1>0. /\ DOMAIN sessions = 1 .. Len(sessions) /\ sessions \in Seq(Credentials)
      /\ request \in [Requests -> Handlers] /\ request[r] \in Handlers
      /\ families \in [Families -> {"unused", "open", "revoked"}]
      /\ CredentialsOK
  BY SessionFacts DEF SessionsTypeOK, Credentials
<1> DEFINE c == NewSession(f, request[r].at)
           q == [request[r] EXCEPT !.pc = "respond", !.family = f]
<1>1. /\ request[r].pc = "grant" /\ request[r].kind = "login" /\ families[f] = "unused"
      /\ families' = [families EXCEPT ![f] = "open"] /\ sessions' = Append(sessions, c)
      /\ UNCHANGED <<now, policy, minted, ended>>
      /\ request' = [request EXCEPT ![r].pc = "respond", ![r].family = f]
  BY DEF Issue, At
<1>2. request' = [request EXCEPT ![r] = q]
  BY <1>0, <1>1 DEF Handlers
<1>3. /\ q \in Handlers /\ q.pc = "respond" /\ q.family = f /\ q.at = request[r].at
      /\ q.session = request[r].session /\ q.kind = "login"
  BY <1>0, <1>1 DEF Handlers
<1>4. c \in Credentials /\ c.family = f
  BY <1>0 DEF NewSession, Credentials, Handlers, SessionConstants
<1> HIDE DEF c, q
<1>5. \A s \in DOMAIN sessions : sessions[s].family # f
  BY <1>0, <1>1 DEF CredentialsOK
<1>6. /\ families' \in [Families -> {"unused", "open", "revoked"}] /\ families'[f] = "open"
      /\ \A g \in Families : g # f => families'[g] = families[g]
  BY <1>0, <1>1
<1>7. PICK base \in Seq(Credentials) : base = sessions
  BY <1>0
<1>8. /\ \A s \in DOMAIN sessions : /\ base[s].family = sessions[s].family
                                    /\ sessions[s].revoked => base[s].revoked
                                    /\ base[s].family = c.family => base[s].revoked
      /\ Len(base) = Len(sessions) /\ sessions' = Append(base, c)
      /\ families'[c.family] = "open" /\ families[c.family] # "revoked"
      /\ \A g \in Families : g # c.family => families'[g] = families[g]
      /\ q.family = c.family /\ q.kind = request[r].kind /\ (q.kind = "refresh" => request[r].family = c.family)
      /\ request[r].pc = "grant" /\ UNCHANGED <<now, policy, minted, ended>>
      /\ families' \in [Families -> {"unused", "open", "revoked"}]
  BY <1>1, <1>3, <1>4, <1>5, <1>6, <1>7
<1> QED
  BY <1>2, <1>3, <1>4, <1>8, GrantStep

(* rotate_operator_refresh: the successor of a credential that is still    *)
(* the usable one.                                                         *)
LEMMA RotateStep ==
  ASSUME SessionConstants, AccessInv, NEW r \in Requests, Rotate(r)
  PROVE  AccessInv'
<1> DEFINE k == request[r].session
           f == request[r].family
           c == NewSession(f, request[r].at)
           base == [sessions EXCEPT ![k].revoked = TRUE]
<1>0. /\ DOMAIN sessions = 1 .. Len(sessions) /\ sessions \in Seq(Credentials)
      /\ \A s \in DOMAIN sessions : sessions[s] \in Credentials
      /\ families \in [Families -> {"unused", "open", "revoked"}]
      /\ request[r] \in Handlers /\ HandlerOK(request[r]) /\ CredentialsOK
  BY SessionFacts DEF SessionsTypeOK, Credentials
<1>1. /\ request[r].pc = "grant" /\ request[r].kind = "refresh"
      /\ k \in DOMAIN sessions /\ f = sessions[k].family /\ f \in Families
  BY <1>0 DEF Rotate, At, HandlerOK, Credentials
<1>2. CASE ~Usable(k, request[r].at)
  <2>1. Go(r, "idle") /\ UNCHANGED <<now, policy, store, minted>>
    BY <1>2 DEF Rotate, store
  <2>2. request' = [request EXCEPT ![r] = NoRequest]
    BY <2>1 DEF Go
  <2> QED
    BY <2>1, <2>2, NoRequestFacts, HandlerMoves
<1>3. CASE Usable(k, request[r].at)
  <2>1. /\ sessions' = Append(base, c) /\ Go(r, "respond")
        /\ UNCHANGED <<now, policy, families, minted, ended>>
    BY <1>3 DEF Rotate
  <2>2. ~sessions[k].revoked /\ families[f] = "open"
    BY <1>1, <1>3 DEF Usable
  <2>3. c \in Credentials /\ c.family = f
    BY <1>0, <1>1 DEF NewSession, Credentials, Handlers, SessionConstants
  <2>4. /\ base \in Seq(Credentials) /\ Len(base) = Len(sessions)
        /\ base[k].family = f /\ base[k].revoked = TRUE
        /\ \A s \in DOMAIN sessions : s # k => base[s] = sessions[s]
    <3>1. base \in [1 .. Len(sessions) -> Credentials] /\ Len(sessions) \in Nat
      <4>1. base = [s \in DOMAIN sessions |-> IF s = k THEN [sessions[k] EXCEPT !.revoked = TRUE]
                                              ELSE sessions[s]]
        OBVIOUS
      <4>2. [sessions[k] EXCEPT !.revoked = TRUE] \in Credentials
        BY <1>0, <1>1 DEF Credentials
      <4> HIDE DEF base
      <4> QED
        BY <1>0, <4>1, <4>2
    <3>2. base[k] = [sessions[k] EXCEPT !.revoked = TRUE]
      BY <1>0, <1>1
    <3>3. base[k].family = f /\ base[k].revoked = TRUE
      BY <1>0, <1>1, <3>2 DEF Credentials
    <3>4. base \in Seq(Credentials) /\ Len(base) = Len(sessions)
      <4> HIDE DEF base
      <4> QED
        BY <3>1
    <3> QED
      BY <1>0, <3>3, <3>4
  <2>5. PICK q \in Handlers :
           /\ request' = [request EXCEPT ![r] = q]
           /\ q.pc = "respond" /\ q.kind = request[r].kind /\ q.family = request[r].family
           /\ q.session = request[r].session /\ q.at = request[r].at
    BY <2>1, GoesOn
  <2> HIDE DEF c, base
  <2>6. ASSUME NEW s \in DOMAIN sessions
        PROVE  /\ base[s].family = sessions[s].family
               /\ sessions[s].revoked => base[s].revoked
               /\ base[s].family = f => base[s].revoked
    <3>1. CASE s = k
      BY <1>1, <2>4, <3>1
    <3>2. CASE s # k
      <4>1. sessions[s].family = f => sessions[s].revoked
        BY <1>0, <1>1, <2>2, <3>2 DEF CredentialsOK
      <4> QED
        BY <2>4, <3>2, <4>1
    <3> QED
      BY <3>1, <3>2
  <2>7. /\ \A s \in DOMAIN sessions : /\ base[s].family = sessions[s].family
                                      /\ sessions[s].revoked => base[s].revoked
                                      /\ base[s].family = c.family => base[s].revoked
        /\ families' \in [Families -> {"unused", "open", "revoked"}]
        /\ families'[c.family] = "open" /\ families[c.family] # "revoked"
        /\ \A g \in Families : g # c.family => families'[g] = families[g]
        /\ q.family = c.family /\ (q.kind = "refresh" => request[r].family = c.family)
        /\ UNCHANGED <<now, policy, minted, ended>>
    BY <1>0, <1>1, <2>1, <2>2, <2>3, <2>5, <2>6
  <2> QED
    BY <1>1, <2>1, <2>3, <2>4, <2>5, <2>7, GrantStep
<1> QED
  BY <1>2, <1>3

(* session_response: the token is signed with the time its handler began.  *)
LEMMA RespondStep ==
  ASSUME SessionConstants, AccessInv, NEW r \in Requests, Respond(r)
  PROVE  AccessInv'
<1> DEFINE q == request[r]
           t == [family |-> q.family, exp |-> q.at + AccessTtl]
<1>0. /\ now \in Nat /\ q \in Handlers /\ HandlerOK(q) /\ SessionsTypeOK /\ EndsKept /\ CredentialsOK
      /\ AccessTtl \in Nat /\ q.pc = "respond" /\ q.at \in Nat
      /\ request \in [Requests -> Handlers]
  BY SessionFacts DEF SessionConstants, Respond, At, Handlers, SessionsTypeOK
<1>1. /\ UNCHANGED <<now, member, active, since, families, sessions, ended>> /\ minted' = minted \cup {t}
      /\ request' = [request EXCEPT ![r] = NoRequest]
  BY DEF Respond, policy, store, Go
<1>2. /\ q.family \in Families /\ families[q.family] # "unused" /\ q.at <= now
      /\ ended[q.family] # Never => q.at <= ended[q.family]
      /\ \A fact \in Facts : since[fact] # Never => q.at <= since[fact]
  BY <1>0 DEF HandlerOK, Began, Facts
<1>3. t \in [family : Families, exp : Nat]
  BY <1>0, <1>2
<1>4. request' \in [Requests -> Handlers] /\ request'[r] = NoRequest
      /\ \A u \in Requests : u # r => request'[u] = request[u]
  BY <1>0, <1>1, NoRequestFacts
<1>5. SessionsTypeOK'
  BY <1>0, <1>1, <1>3, <1>4 DEF SessionsTypeOK, Facts, Handlers
<1>6. EndsKept' /\ CredentialsOK' /\ Grows
  BY <1>0, <1>1 DEF EndsKept, CredentialsOK, TombstoneHolds, Facts, Grows
<1>7. HandlerOK(request[r])'
  BY <1>0, <1>1, <1>4 DEF NoRequest, HandlerOK, Began
<1>8. /\ families'[t.family] # "unused" /\ t.exp <= now' + AccessTtl
      /\ ended'[t.family] # Never => t.exp <= ended'[t.family] + AccessTtl
      /\ \A fact \in Facts : since'[fact] # Never => t.exp <= since'[fact] + AccessTtl
  BY <1>0, <1>1, <1>2 DEF SessionsTypeOK
<1> QED
  BY <1>1, <1>4, <1>5, <1>6, <1>7, <1>8, AccessParts

(* A refresh that policy denies, a token that cannot be signed, a logout.  *)
LEMMA EndStep ==
  ASSUME SessionConstants, AccessInv,
         (\E r \in Requests : Deny(r) \/ SignFails(r)) \/ (\E s \in DOMAIN sessions : Logout(s))
  PROVE  AccessInv'
<1>0. /\ \A s \in DOMAIN sessions : sessions[s].family \in Families
      /\ \A r \in Requests : HandlerOK(request[r])
      /\ request \in [Requests -> Handlers]
  BY SessionFacts DEF Credentials, SessionsTypeOK
<1>1. ASSUME NEW r \in Requests, Deny(r) \/ SignFails(r)
      PROVE  AccessInv'
  <2>1. request[r].family \in Families
    BY <1>0, <1>1 DEF Deny, SignFails, At, HandlerOK, Began
  <2>2. /\ RevokeFamily(request[r].family) /\ UNCHANGED <<now, policy, minted>>
        /\ request' = [request EXCEPT ![r] = NoRequest]
    BY <1>1 DEF Deny, SignFails, Go
  <2>3. /\ request' \in [Requests -> Handlers]
        /\ \A u \in Requests : request'[u] = request[u] \/ request'[u] = NoRequest
    BY <1>0, <2>2, NoRequestFacts
  <2> QED
    BY <2>1, <2>2, <2>3, RevokeStep
<1>2. ASSUME NEW s \in DOMAIN sessions, Logout(s)
      PROVE  AccessInv'
  BY <1>0, <1>2, RevokeStep DEF Logout
<1> QED
  BY <1>1, <1>2

(* The policy changes, time passes, or nothing happens: what goes out now  *)
(* goes out after every handler began.                                     *)
LEMMA OutsideStep ==
  ASSUME SessionConstants, AccessInv, Membership \/ OrgStatus \/ Clock \/ UNCHANGED sessionVars
  PROVE  AccessInv'
<1>0. now \in Nat /\ SessionsTypeOK /\ EndsKept /\ CredentialsOK
  BY SessionFacts
<1>1. UNCHANGED <<families, sessions, ended, request, minted>>
  BY DEF Membership, OrgStatus, Clock, sessionVars, store
<1>2. now' \in Nat /\ now <= now' /\ (now' = now \/ UNCHANGED <<member, active, since>>)
  BY <1>0 DEF Membership, OrgStatus, Clock, sessionVars, policy
<1>3. member' \in BOOLEAN /\ active' \in BOOLEAN
  <2>1. member \in BOOLEAN /\ active \in BOOLEAN
    BY <1>0 DEF SessionsTypeOK
  <2> QED
    BY <2>1, Zenon DEF Membership, OrgStatus, Clock, sessionVars, policy
<1>4. /\ since' \in [Facts -> Nat \cup {Never}]
      /\ \A fact \in Facts : since'[fact] = since[fact] \/ since'[fact] = Never \/ since'[fact] = now
      /\ since'["member"] # Never <=> ~member'
      /\ since'["active"] # Never <=> ~active'
  <2>0. /\ since \in [Facts -> Nat \cup {Never}] /\ Never # now
        /\ since["member"] # Never <=> ~member
        /\ since["active"] # Never <=> ~active
    BY <1>0 DEF SessionsTypeOK, EndsKept, SessionConstants
  <2>1. CASE Membership
    <3>1. /\ since' = [since EXCEPT !["member"] = IF member' THEN Never ELSE now] /\ active' = active
      BY <2>1 DEF Membership, Out
    <3>2. /\ since' \in [Facts -> Nat \cup {Never}] /\ since'["active"] = since["active"]
          /\ since'["member"] = IF member' THEN Never ELSE now
      BY <1>0, <2>0, <3>1 DEF Facts
    <3> QED
      BY <2>0, <3>1, <3>2 DEF Facts
  <2>2. CASE OrgStatus
    <3>1. /\ since' = [since EXCEPT !["active"] = IF active' THEN Never ELSE now] /\ member' = member
      BY <2>2 DEF OrgStatus, Out
    <3>2. /\ since' \in [Facts -> Nat \cup {Never}] /\ since'["member"] = since["member"]
          /\ since'["active"] = IF active' THEN Never ELSE now
      BY <1>0, <2>0, <3>1 DEF Facts
    <3> QED
      BY <2>0, <3>1, <3>2 DEF Facts
  <2>3. CASE UNCHANGED <<member, active, since>>
    BY <2>0, <2>3
  <2> QED
    BY <2>1, <2>2, <2>3 DEF Clock, sessionVars, policy
<1>5. SessionsTypeOK'
  BY <1>0, <1>1, <1>2, <1>3, <1>4 DEF SessionsTypeOK, Facts, Handlers
<1>6. EndsKept'
  <2>1. \A fact \in Facts : since'[fact] # Never => since'[fact] <= now'
    BY <1>0, <1>2, <1>4 DEF EndsKept, SessionsTypeOK
  <2>2. \A f \in Families : ended[f] # Never => families[f] = "revoked" /\ ended[f] <= now'
    BY <1>0, <1>2 DEF EndsKept, SessionsTypeOK
  <2>3. \A f \in Families : families[f] = "revoked" => ended[f] # Never
    BY <1>0 DEF EndsKept
  <2> QED
    BY <1>1, <1>4, <2>1, <2>2, <2>3 DEF EndsKept, Facts
<1>7. CredentialsOK'
  BY <1>0, <1>1 DEF CredentialsOK, TombstoneHolds
<1>8. Grows
  BY <1>1, <1>2, <1>4 DEF Grows
<1> QED
  BY <1>1, <1>5, <1>6, <1>7, <1>8, AccessParts

LEMMA AccessInitial ==
  ASSUME SessionConstants, SessionsInit
  PROVE  AccessInv
<1>1. NoRequest \in Handlers
  BY DEF NoRequest, Handlers
<1>2. SessionsTypeOK
  BY <1>1 DEF SessionsTypeOK, SessionsInit, Facts
<1>3. EndsKept
  BY DEF EndsKept, SessionsInit, Facts
<1>4. CredentialsOK
  BY DEF CredentialsOK, TombstoneHolds, SessionsInit
<1>5. \A r \in Requests : HandlerOK(request[r])
  BY DEF HandlerOK, Began, NoRequest, SessionsInit
<1>6. AccessEnds /\ CutOff /\ minted = {}
  BY DEF AccessEnds, CutOff, SessionsInit
<1> QED
  BY <1>2, <1>3, <1>4, <1>5, <1>6 DEF AccessInv

(* At most one credential of a family that is not revoked.                 *)
LEMMA OneLiveCredential ==
  ASSUME SessionConstants, AccessInv
  PROVE  OneLive
<1> SUFFICES ASSUME NEW f \in Families
             PROVE  Cardinality({s \in DOMAIN sessions : sessions[s].family = f /\ ~sessions[s].revoked}) <= 1
  BY DEF OneLive
<1> DEFINE E == {s \in DOMAIN sessions : sessions[s].family = f /\ ~sessions[s].revoked}
<1>1. \A s, t \in E : s = t
  BY SessionFacts DEF CredentialsOK
<1> HIDE DEF E
<1>2. CASE E = {}
  BY <1>2, FS_EmptySet DEF E
<1>3. CASE E # {}
  <2>1. PICK t : t \in E
    BY <1>3
  <2>2. E = {t}
    BY <1>1, <2>1
  <2>3. Cardinality(E) = 1
    BY <2>2, FS_Singleton
  <2> QED
    BY <2>3 DEF E
<1> QED
  BY <1>2, <1>3

(* A family has one usable credential at most, none once it is revoked,    *)
(* however its refreshes race; and no access token, signed late or not,    *)
(* outlives by more than its lifetime the end of its family, of the        *)
(* operator's membership or of the organisation.                           *)
THEOREM AccessSafetyTheorem ==
  ASSUME SessionConstants
  PROVE  SessionsSpec => []AccessSafety
<1>1. SessionsInit => AccessInv
  BY AccessInitial
<1>2. AccessInv /\ [SessionsNext]_sessionVars => AccessInv'
  <2> SUFFICES ASSUME AccessInv, [SessionsNext]_sessionVars PROVE AccessInv'
    OBVIOUS
  <2> QED
    BY PolicyStep, EndStep, IssueStep, RotateStep, RespondStep, OutsideStep DEF SessionsNext
<1>3. AccessInv => AccessSafety
  BY OneLiveCredential, SessionFacts DEF AccessSafety, AccessInv, CredentialsOK
<1> QED
  BY <1>1, <1>2, <1>3, PTL DEF SessionsSpec

-----------------------------------------------------------------------------
(* The operator login limiter.                                             *)

LEMMA WindowFinite ==
  ASSUME NEW as, IsFiniteSet(as), NEW k, NEW s
  PROVE  IsFiniteSet(InWindow(as, k, s)) /\ Cardinality(InWindow(as, k, s)) \in Nat
<1>1. InWindow(as, k, s) \in SUBSET as
  BY DEF InWindow
<1> QED
  BY <1>1, FS_Subset, FS_CardinalityType

(* prune and evict_oldest: what leaves the map is over, or is on record as *)
(* dropped.                                                                *)
LEMMA WindowsPruned ==
  ASSUME LimiterConstants, NEW as, NEW map, NEW kept, NEW out, NEW out2, NEW t \in Nat,
         WindowsOK(as, map, out, t), out \subseteq out2,
         \A k \in DOMAIN kept : k \in DOMAIN map /\ kept[k] = map[k],
         \A k \in DOMAIN map : k \in DOMAIN kept \/ k \in out2 \/ ~(t - map[k].start < Window)
  PROVE  WindowsOK(as, kept, out2, t)
<1> SUFFICES ASSUME NEW k \in Identities \ out2
             PROVE  /\ k \in DOMAIN kept => kept[k].count = Cardinality(InWindow(as, k, kept[k].start))
                    /\ \A s \in Nat : Cardinality(InWindow(as, k, s)) <= Limit
                    /\ \A s \in Nat : t - s < Window /\ ~(k \in DOMAIN kept /\ kept[k].start = s)
                                      => InWindow(as, k, s) = {}
  BY DEF WindowsOK
<1>1. /\ k \in DOMAIN map => map[k].count = Cardinality(InWindow(as, k, map[k].start))
      /\ \A s \in Nat : Cardinality(InWindow(as, k, s)) <= Limit
      /\ \A s \in Nat : t - s < Window /\ ~(k \in DOMAIN map /\ map[k].start = s)
                        => InWindow(as, k, s) = {}
  BY DEF WindowsOK
<1> QED
  BY <1>1

(* reserve: one more attempt in the window of the identity's entry.        *)
LEMMA WindowCharged ==
  ASSUME LimiterConstants, NEW as, IsFiniteSet(as), NEW kept, NEW map, NEW out, NEW t \in Nat,
         WindowsOK(as, kept, out, t),
         NEW k \in Identities, NEW start \in Nat, NEW count \in Nat, count < Limit,
         k \in DOMAIN kept => kept[k].start = start /\ kept[k].count = count,
         k \notin DOMAIN kept => start = t /\ count = 0,
         NEW c, c \notin as, c.key = k, c.start = start,
         DOMAIN map = DOMAIN kept \cup {k}, map[k].start = start, map[k].count = count + 1,
         \A j \in DOMAIN kept \ {k} : map[j] = kept[j]
  PROVE  WindowsOK(as \cup {c}, map, out, t)
<1> SUFFICES ASSUME NEW j \in Identities \ out
             PROVE  /\ j \in DOMAIN map => map[j].count = Cardinality(InWindow(as \cup {c}, j, map[j].start))
                    /\ \A s \in Nat : Cardinality(InWindow(as \cup {c}, j, s)) <= Limit
                    /\ \A s \in Nat : t - s < Window /\ ~(j \in DOMAIN map /\ map[j].start = s)
                                      => InWindow(as \cup {c}, j, s) = {}
  BY DEF WindowsOK
<1>1. /\ j \in DOMAIN kept => kept[j].count = Cardinality(InWindow(as, j, kept[j].start))
      /\ \A s \in Nat : Cardinality(InWindow(as, j, s)) <= Limit
      /\ \A s \in Nat : t - s < Window /\ ~(j \in DOMAIN kept /\ kept[j].start = s)
                        => InWindow(as, j, s) = {}
  BY DEF WindowsOK
<1>2. \A s : ~(j = k /\ s = start) => InWindow(as \cup {c}, j, s) = InWindow(as, j, s)
  BY DEF InWindow
<1>3. CASE j # k
  BY <1>1, <1>2, <1>3
<1>4. CASE j = k
  <2>1. InWindow(as \cup {c}, j, start) = InWindow(as, j, start) \cup {c} /\ c \notin InWindow(as, j, start)
    BY <1>4 DEF InWindow
  <2>2. Cardinality(InWindow(as \cup {c}, j, start)) = Cardinality(InWindow(as, j, start)) + 1
    BY <2>1, WindowFinite, FS_AddElement
  <2>3. Cardinality(InWindow(as, j, start)) = count
    <3>1. CASE k \in DOMAIN kept
      BY <1>1, <1>4, <3>1
    <3>2. CASE k \notin DOMAIN kept
      <4>1. t - t < Window /\ t = start
        BY <3>2 DEF LimiterConstants
      <4>2. InWindow(as, j, start) = {}
        BY <1>1, <1>4, <3>2, <4>1
      <4> QED
        BY <3>2, <4>2, FS_EmptySet
    <3> QED
      BY <3>1, <3>2
  <2>4. Limit \in Nat /\ count + 1 <= Limit
    BY DEF LimiterConstants
  <2>5. \A s \in Nat : Cardinality(InWindow(as \cup {c}, j, s)) <= Limit
    BY <1>1, <1>2, <2>2, <2>3, <2>4
  <2>6. ASSUME NEW s \in Nat, t - s < Window, ~(j \in DOMAIN map /\ map[j].start = s)
        PROVE  InWindow(as \cup {c}, j, s) = {}
    <3>1. s # start
      BY <1>4, <2>6
    <3> QED
      BY <1>1, <1>2, <1>4, <2>6, <3>1
  <2> QED
    BY <1>4, <2>2, <2>3, <2>5, <2>6
<1> QED
  BY <1>3, <1>4

(* refund: the attempt leaves its window, and the entry with the last one. *)
LEMMA WindowRefunded ==
  ASSUME LimiterConstants, NEW as, IsFiniteSet(as), NEW map, NEW map2, NEW out, NEW t \in Nat,
         WindowsOK(as, map, out, t), NEW c \in as, c.start \in Nat,
         \A k \in DOMAIN map : map[k].start \in Nat /\ map[k].count \in Nat,
         LET k == c.key IN
         \/ k \notin DOMAIN map /\ map2 = map
         \/ k \in DOMAIN map /\ map[k].start # c.start /\ map2 = map
         \/ /\ k \in DOMAIN map /\ map[k].start = c.start /\ map[k].count <= 1
            /\ DOMAIN map2 = DOMAIN map \ {k} /\ \A j \in DOMAIN map2 : map2[j] = map[j]
         \/ /\ k \in DOMAIN map /\ map[k].start = c.start /\ map[k].count > 1
            /\ DOMAIN map2 = DOMAIN map /\ \A j \in DOMAIN map \ {k} : map2[j] = map[j]
            /\ map2[k].start = map[k].start /\ map2[k].count = map[k].count - 1
  PROVE  WindowsOK(as \ {c}, map2, out, t)
<1> SUFFICES ASSUME NEW j \in Identities \ out
             PROVE  /\ j \in DOMAIN map2 => map2[j].count = Cardinality(InWindow(as \ {c}, j, map2[j].start))
                    /\ \A s \in Nat : Cardinality(InWindow(as \ {c}, j, s)) <= Limit
                    /\ \A s \in Nat : t - s < Window /\ ~(j \in DOMAIN map2 /\ map2[j].start = s)
                                      => InWindow(as \ {c}, j, s) = {}
  BY DEF WindowsOK
<1>1. /\ j \in DOMAIN map => map[j].count = Cardinality(InWindow(as, j, map[j].start))
      /\ \A s \in Nat : Cardinality(InWindow(as, j, s)) <= Limit
      /\ \A s \in Nat : t - s < Window /\ ~(j \in DOMAIN map /\ map[j].start = s)
                        => InWindow(as, j, s) = {}
  BY DEF WindowsOK
<1>2. \A s : ~(j = c.key /\ s = c.start) => InWindow(as \ {c}, j, s) = InWindow(as, j, s)
  BY DEF InWindow
<1>3. CASE j # c.key
  BY <1>1, <1>2, <1>3
<1>4. CASE j = c.key
  <2>1. InWindow(as \ {c}, j, c.start) = InWindow(as, j, c.start) \ {c} /\ c \in InWindow(as, j, c.start)
    BY <1>4 DEF InWindow
  <2>2. /\ IsFiniteSet(InWindow(as, j, c.start)) /\ Cardinality(InWindow(as, j, c.start)) \in Nat
        /\ IsFiniteSet(InWindow(as, j, c.start) \ {c})
        /\ Cardinality(InWindow(as, j, c.start) \ {c}) = Cardinality(InWindow(as, j, c.start)) - 1
        /\ Cardinality(InWindow(as, j, c.start) \ {c}) \in Nat
    <3>1. IsFiniteSet(InWindow(as, j, c.start)) /\ Cardinality(InWindow(as, j, c.start)) \in Nat
      BY WindowFinite
    <3>2. /\ IsFiniteSet(InWindow(as, j, c.start) \ {c})
          /\ Cardinality(InWindow(as, j, c.start) \ {c}) = Cardinality(InWindow(as, j, c.start)) - 1
      BY <2>1, <3>1, FS_RemoveElement
    <3> QED
      BY <3>1, <3>2, FS_CardinalityType
  <2>3. \A s \in Nat : Cardinality(InWindow(as \ {c}, j, s)) <= Limit
    <3>1. ASSUME NEW m \in Nat, m <= Limit PROVE m - 1 <= Limit
      BY <3>1 DEF LimiterConstants
    <3>2. Cardinality(InWindow(as, j, c.start) \ {c}) <= Limit
      BY <1>1, <2>2, <3>1
    <3> QED
      BY <1>1, <1>2, <2>1, <3>2
  <2>4. CASE map2 = map /\ (j \in DOMAIN map => map[j].start # c.start)
    BY <1>1, <1>2, <2>1, <2>3, <2>4
  <2>5. CASE /\ j \in DOMAIN map /\ map[j].start = c.start /\ map[j].count <= 1
             /\ DOMAIN map2 = DOMAIN map \ {j} /\ \A i \in DOMAIN map2 : map2[i] = map[i]
    <3>1. Cardinality(InWindow(as, j, c.start)) <= 1
      BY <1>1, <2>5
    <3>2. ASSUME NEW m \in Nat, NEW n \in Nat, n = m - 1, m <= 1 PROVE n = 0
      BY <3>2
    <3>3. Cardinality(InWindow(as, j, c.start) \ {c}) = 0
      BY <2>2, <3>1, <3>2
    <3>4. InWindow(as \ {c}, j, c.start) = {}
      BY <2>1, <2>2, <3>3, FS_EmptySet
    <3> QED
      BY <1>1, <1>2, <2>3, <2>5, <3>4
  <2>6. CASE /\ j \in DOMAIN map /\ map[j].start = c.start /\ map[j].count > 1
             /\ DOMAIN map2 = DOMAIN map /\ \A i \in DOMAIN map \ {j} : map2[i] = map[i]
             /\ map2[j].start = map[j].start /\ map2[j].count = map[j].count - 1
    BY <1>1, <1>2, <2>1, <2>2, <2>3, <2>6
  <2> QED
    BY <1>4, <2>4, <2>5, <2>6
<1> QED
  BY <1>3, <1>4

(* A handler that holds no attempt before takes one only in Reserve; the   *)
(* others keep it, give it back, or leave it on record.                    *)
LEMMA LoginMoves ==
  ASSUME LimiterTypeOK, AttemptsDistinct, NEW l \in Logins, NEW r \in LoginRecords,
         login' = [login EXCEPT ![l] = r], UNCHANGED <<clock, tries>>,
         \/ /\ l \in Holders /\ r.pc = "running" /\ UNCHANGED <<failed, gone>>
            /\ r.key = login[l].key /\ r.start = login[l].start /\ r.try = login[l].try
         \/ /\ l \in Holders /\ r.pc \in {"idle", "orphan"}
            /\ \/ failed' = failed \cup {Charge(l)} /\ gone' = gone
               \/ gone' = gone \cup {Charge(l)} /\ failed' = failed
         \/ l \notin Holders /\ r.pc = "idle" /\ UNCHANGED <<failed, gone>>
         \/ l \in Holders /\ r.pc = "idle" /\ UNCHANGED <<failed, gone>>
  PROVE  /\ failed' \subseteq Reservations /\ gone' \subseteq Reservations
         /\ login' \in [Logins -> LoginRecords] /\ \A m \in Holders' : login'[m].key \in Identities
         /\ AttemptsDistinct'
         /\ ~(l \in Holders /\ r.pc = "idle" /\ UNCHANGED <<failed, gone>>) => Charges' = Charges
         /\ l \in Holders /\ r.pc = "idle" /\ UNCHANGED <<failed, gone>> =>
              Charges' = Charges \ {Charge(l)} /\ Charge(l) \in Charges
<1>1. login' \in [Logins -> LoginRecords] /\ login'[l] = r /\ \A m \in Logins \ {l} : login'[m] = login[m]
  BY DEF LimiterTypeOK
<1>2. /\ \A m \in Logins \ {l} : m \in Holders' <=> m \in Holders
      /\ l \in Holders' <=> r.pc \in {"verify", "running"}
      /\ Holders \subseteq Logins /\ Holders' \subseteq Logins
  BY <1>1 DEF Holders
<1>3. \A m \in Holders : Charge(m) \in Reservations /\ Charge(m).try = login[m].try
  BY DEF LimiterTypeOK, Charge, Reservations, Holders, LoginRecords
<1>4. \A m \in Holders' : m \in Holders /\ Charge(m)' = Charge(m)
  BY <1>1, <1>2 DEF Charge
<1>5. failed' \subseteq Reservations /\ gone' \subseteq Reservations
  BY <1>3 DEF LimiterTypeOK
<1>6. \A m \in Holders' : login'[m].key \in Identities /\ login'[m].try = login[m].try
  BY <1>1, <1>2 DEF LimiterTypeOK
<1>7. /\ Charges = failed \cup gone \cup {Charge(m) : m \in Holders}
      /\ Charges' = failed' \cup gone' \cup {Charge(m) : m \in Holders'}
  <2>1. {Charge(m)' : m \in Holders'} = {Charge(m) : m \in Holders'}
    BY <1>4
  <2> QED
    BY <2>1 DEF Charges
<1>8. Charges' \subseteq Charges
  BY <1>4, <1>7
<1>9. IsFiniteSet(Charges') /\ \A a \in Charges' : a.try <= tries' /\ a.start <= clock'
  BY <1>8, FS_Subset DEF AttemptsDistinct
<1>10. /\ \A i, m \in Holders' : login'[i].try = login'[m].try => i = m
       /\ \A m \in Holders' : \A a \in failed' \cup gone' : a.try # login'[m].try
  <2>1. \A i, m \in Holders' : login'[i].try = login'[m].try => i = m
    BY <1>4, <1>6 DEF AttemptsDistinct
  <2>2. ASSUME NEW m \in Holders', NEW a \in failed' \cup gone' PROVE a.try # login'[m].try
    <3>1. CASE a \in failed \cup gone
      BY <1>4, <1>6, <3>1 DEF AttemptsDistinct
    <3>2. CASE a = Charge(l) /\ l \in Holders /\ r.pc \in {"idle", "orphan"}
      <4>1. m # l
        BY <1>2, <3>2
      <4> QED
        BY <1>3, <1>4, <1>6, <3>2, <4>1 DEF AttemptsDistinct
    <3> QED
      BY <3>1, <3>2
  <2> QED
    BY <2>1, <2>2
<1>11. AttemptsDistinct'
  BY <1>9, <1>10 DEF AttemptsDistinct
<1>12. CASE l \in Holders /\ r.pc = "idle" /\ UNCHANGED <<failed, gone>>
  <2>1. Holders' = Holders \ {l}
    BY <1>2, <1>12
  <2>2. \A m \in Holders \ {l} : Charge(m) # Charge(l)
    BY <1>3, <1>12 DEF AttemptsDistinct
  <2>3. Charge(l) \notin failed \cup gone
    BY <1>3, <1>12 DEF AttemptsDistinct
  <2>4. Charges' = Charges \ {Charge(l)} /\ Charge(l) \in Charges
    BY <1>7, <1>12, <2>1, <2>2, <2>3
  <2> QED
    BY <1>1, <1>5, <1>6, <1>11, <1>12, <2>4
<1>13. CASE ~(l \in Holders /\ r.pc = "idle" /\ UNCHANGED <<failed, gone>>)
  <2>1. Charges \subseteq Charges'
    <3>1. failed \subseteq failed' /\ gone \subseteq gone'
      OBVIOUS
    <3>2. \A m \in Holders : m \in Holders' \/ Charge(m) \in failed' \cup gone'
      BY <1>2, <1>13
    <3> QED
      BY <1>7, <3>1, <3>2
  <2> QED
    BY <1>1, <1>5, <1>6, <1>8, <1>11, <1>13, <2>1
<1> QED
  BY <1>12, <1>13

(* verify_login_with_gate: what keeps every charge as it is.               *)
LEMMA VerifyStep ==
  ASSUME LimiterConstants, LimiterInv, NEW l \in Logins,
         Acquire(l) \/ Wrong(l) \/ Dropped(l) \/ JobEnds(l)
  PROVE  LimiterInv'
<1>0. /\ LimiterTypeOK /\ AttemptsDistinct /\ WindowsOK(Charges, attempts, evicted, clock)
      /\ login \in [Logins -> LoginRecords]
  BY DEF LimiterInv, LimiterTypeOK
<1>1. UNCHANGED <<clock, tries, attempts, evicted>>
  BY DEF Acquire, Wrong, Dropped, JobEnds
<1>2. PICK r \in LoginRecords :
        /\ login' = [login EXCEPT ![l] = r]
        /\ \/ /\ l \in Holders /\ r.pc = "running" /\ UNCHANGED <<failed, gone>>
              /\ r.key = login[l].key /\ r.start = login[l].start /\ r.try = login[l].try
           \/ /\ l \in Holders /\ r.pc \in {"idle", "orphan"}
              /\ \/ failed' = failed \cup {Charge(l)} /\ gone' = gone
                 \/ gone' = gone \cup {Charge(l)} /\ failed' = failed
           \/ l \notin Holders /\ r.pc = "idle" /\ UNCHANGED <<failed, gone>>
  <2>1. /\ [login[l] EXCEPT !.pc = "running"] \in LoginRecords /\ [login[l] EXCEPT !.pc = "orphan"] \in LoginRecords
        /\ NoLogin \in LoginRecords /\ NoLogin.pc = "idle"
    BY <1>0 DEF LoginRecords, NoLogin
  <2>2. CASE Acquire(l)
    <3> DEFINE r == [login[l] EXCEPT !.pc = "running"]
    <3>1. /\ r \in LoginRecords /\ login' = [login EXCEPT ![l] = r] /\ r.pc = "running"
          /\ r.key = login[l].key /\ r.start = login[l].start /\ r.try = login[l].try
      BY <1>0, <2>1, <2>2 DEF Acquire, LoginRecords
    <3>2. l \in Holders /\ UNCHANGED <<failed, gone>>
      BY <2>2 DEF Acquire, Holders
    <3> QED
      BY <3>1, <3>2
  <2>3. CASE Dropped(l)
    <3> DEFINE r == [login[l] EXCEPT !.pc = "orphan"]
    <3>1. r \in LoginRecords /\ login' = [login EXCEPT ![l] = r] /\ r.pc = "orphan"
      BY <1>0, <2>1, <2>3 DEF Dropped, LoginRecords
    <3>2. l \in Holders /\ failed' = failed /\ gone' = gone \cup {Charge(l)}
      BY <2>3 DEF Dropped, Holders
    <3> QED
      BY <3>1, <3>2
  <2>4. CASE Wrong(l)
    <3>1. l \in Holders /\ gone' = gone /\ failed' = failed \cup {Charge(l)}
      BY <2>4 DEF Wrong, Holders
    <3> QED
      BY <2>1, <2>4, <3>1 DEF Wrong, Done
  <2>5. CASE JobEnds(l)
    <3>1. l \notin Holders /\ UNCHANGED <<failed, gone>>
      BY <2>5 DEF JobEnds, Holders
    <3> QED
      BY <2>1, <2>5, <3>1 DEF JobEnds, Done
  <2> QED
    BY <2>2, <2>3, <2>4, <2>5
<1>3. /\ failed' \subseteq Reservations /\ gone' \subseteq Reservations
      /\ login' \in [Logins -> LoginRecords] /\ \A m \in Holders' : login'[m].key \in Identities
      /\ AttemptsDistinct' /\ Charges' = Charges
  <2>1. l \in Holders => Charge(l) \notin failed \cup gone
    BY <1>0 DEF AttemptsDistinct, Charge
  <2>2. ~(l \in Holders /\ r.pc = "idle" /\ UNCHANGED <<failed, gone>>)
    BY <1>2, <2>1
  <2> QED
    BY <1>0, <1>1, <1>2, <2>2, LoginMoves
<1>4. LimiterTypeOK'
  BY <1>0, <1>1, <1>3 DEF LimiterTypeOK, Entries, Reservations, LoginRecords
<1>5. WindowsOK(Charges, attempts, evicted, clock)'
  BY <1>0, <1>1, <1>3 DEF WindowsOK
<1> QED
  BY <1>3, <1>4, <1>5 DEF LimiterInv

(* refund, after a right password, a failed job or a busy verifier.        *)
LEMMA RefundStep ==
  ASSUME LimiterConstants, LimiterInv, NEW l \in Logins, Unavailable(l) \/ Refunded(l)
  PROVE  LimiterInv'
<1>0. /\ LimiterTypeOK /\ AttemptsDistinct /\ WindowsOK(Charges, attempts, evicted, clock)
      /\ login \in [Logins -> LoginRecords] /\ clock \in Nat /\ IsFiniteSet(Charges)
  BY DEF LimiterInv, LimiterTypeOK, AttemptsDistinct
<1>1. /\ UNCHANGED <<clock, tries, evicted, failed, gone>> /\ Refund(l) /\ l \in Holders
      /\ login' = [login EXCEPT ![l] = NoLogin]
  BY DEF Unavailable, Refunded, Holders, Done
<1>2. NoLogin \in LoginRecords /\ NoLogin.pc = "idle"
  BY DEF LoginRecords, NoLogin
<1>3. /\ login' \in [Logins -> LoginRecords] /\ \A m \in Holders' : login'[m].key \in Identities
      /\ AttemptsDistinct' /\ Charges' = Charges \ {Charge(l)} /\ Charge(l) \in Charges
  BY <1>0, <1>1, <1>2, LoginMoves
<1> DEFINE c == Charge(l)
           k == login[l].key
<1>4. c.key = k /\ c.start = login[l].start /\ c.start \in Nat
  BY <1>0, <1>1 DEF Charge, LoginRecords, Holders
<1>5. \A j \in DOMAIN attempts : attempts[j] \in Entries /\ attempts[j].start \in Nat /\ attempts[j].count \in Nat
  BY <1>0 DEF LimiterTypeOK, Entries
<1>6. \/ c.key \notin DOMAIN attempts /\ attempts' = attempts
      \/ c.key \in DOMAIN attempts /\ attempts[c.key].start # c.start /\ attempts' = attempts
      \/ /\ c.key \in DOMAIN attempts /\ attempts[c.key].start = c.start /\ attempts[c.key].count <= 1
         /\ DOMAIN attempts' = DOMAIN attempts \ {c.key} /\ \A j \in DOMAIN attempts' : attempts'[j] = attempts[j]
      \/ /\ c.key \in DOMAIN attempts /\ attempts[c.key].start = c.start /\ attempts[c.key].count > 1
         /\ DOMAIN attempts' = DOMAIN attempts /\ \A j \in DOMAIN attempts \ {c.key} : attempts'[j] = attempts[j]
         /\ attempts'[c.key].start = attempts[c.key].start /\ attempts'[c.key].count = attempts[c.key].count - 1
         /\ attempts'[c.key] \in Entries
  <2>1. CASE k \notin DOMAIN attempts \/ attempts[k].start # login[l].start
    BY <1>1, <1>4, <2>1 DEF Refund
  <2>2. CASE k \in DOMAIN attempts /\ attempts[k].start = login[l].start /\ attempts[k].count <= 1
    BY <1>1, <1>4, <2>2 DEF Refund, Restrict
  <2>3. CASE k \in DOMAIN attempts /\ attempts[k].start = login[l].start /\ ~(attempts[k].count <= 1)
    <3>1. attempts' = [attempts EXCEPT ![k].count = @ - 1]
      BY <1>1, <1>4, <2>3 DEF Refund
    <3>2. /\ DOMAIN attempts' = DOMAIN attempts /\ \A j \in DOMAIN attempts \ {k} : attempts'[j] = attempts[j]
          /\ attempts'[k] = [attempts[k] EXCEPT !.count = @ - 1]
      BY <2>3, <3>1
    <3>3. attempts[k] \in Entries /\ attempts[k].count > 1 /\ attempts[k].count - 1 \in Nat
      BY <1>5, <2>3
    <3>4. /\ attempts'[k].start = attempts[k].start /\ attempts'[k].count = attempts[k].count - 1
          /\ attempts'[k] \in Entries
      BY <3>2, <3>3 DEF Entries
    <3> QED
      BY <1>4, <2>3, <3>2, <3>3, <3>4
  <2> QED
    BY <2>1, <2>2, <2>3
<1> HIDE DEF c, k
<1>7. \A j \in DOMAIN attempts' : j \in Identities /\ attempts'[j] \in Entries /\ attempts'[j].start <= clock
  BY <1>0, <1>6 DEF LimiterTypeOK
<1>8. LimiterTypeOK'
  BY <1>0, <1>1, <1>3, <1>7 DEF LimiterTypeOK, Entries, Reservations, LoginRecords
<1>9. c \in Charges /\ Charges' = Charges \ {c}
  BY <1>3 DEF c
<1>10. WindowsOK(Charges \ {c}, attempts', evicted, clock)
  <2>1. \A j \in DOMAIN attempts : attempts[j].start \in Nat /\ attempts[j].count \in Nat
    BY <1>5
  <2> QED
    BY <1>0, <1>4, <1>6, <1>9, <2>1, WindowRefunded
<1>11. WindowsOK(Charges, attempts, evicted, clock)'
  BY <1>1, <1>9, <1>10 DEF WindowsOK
<1> QED
  BY <1>3, <1>8, <1>11 DEF LimiterInv

(* reserve: over, dropped and other identities' windows stay right, and an *)
(* admitted attempt is counted where it is held.                           *)
LEMMA ReserveStep ==
  ASSUME LimiterConstants, LimiterInv, NEW l \in Logins, NEW k \in Identities, Reserve(l, k)
  PROVE  LimiterInv'
<1>0. /\ LimiterTypeOK /\ AttemptsDistinct /\ WindowsOK(Charges, attempts, evicted, clock)
      /\ login \in [Logins -> LoginRecords] /\ clock \in Nat /\ tries \in Nat /\ IsFiniteSet(Charges)
  BY DEF LimiterInv, LimiterTypeOK, AttemptsDistinct
<1>1. /\ login[l].pc = "idle" /\ tries' = tries + 1 /\ UNCHANGED <<clock, failed, gone>>
      /\ l \notin Holders
  BY DEF Reserve, Holders
<1> DEFINE cur == Current(attempts)
<1>2. PICK out \in Victims(cur, k) :
        LET kept == Restrict(cur, DOMAIN cur \ out)
            entry == Entry(kept, k)
        IN /\ evicted' = evicted \cup out
           /\ IF entry.count >= Limit
              THEN attempts' = Put(kept, k, entry) /\ login' = login
              ELSE /\ attempts' = Put(kept, k, [start |-> entry.start, count |-> entry.count + 1, last |-> clock])
                   /\ login' = [login EXCEPT ![l] =
                        [pc |-> "verify", key |-> k, start |-> entry.start, try |-> tries']]
  BY DEF Reserve
<1> DEFINE kept == Restrict(cur, DOMAIN cur \ out)
           entry == Entry(kept, k)
<1>3. /\ \A j \in DOMAIN kept : j \in DOMAIN attempts /\ kept[j] = attempts[j]
      /\ \A j \in DOMAIN attempts : j \in DOMAIN kept \/ j \in evicted' \/ ~(clock - attempts[j].start < Window)
  <2>1. /\ DOMAIN cur = {j \in DOMAIN attempts : clock - attempts[j].start < Window}
        /\ \A j \in DOMAIN cur : cur[j] = attempts[j]
    BY DEF Current, Restrict
  <2>2. DOMAIN kept = DOMAIN cur \ out /\ \A j \in DOMAIN kept : kept[j] = cur[j]
    BY DEF Restrict
  <2> QED
    BY <1>2, <2>1, <2>2
<1>4. entry \in Entries /\ (k \in DOMAIN kept => entry = kept[k])
      /\ (k \notin DOMAIN kept => entry.start = clock /\ entry.count = 0)
  BY <1>0, <1>3 DEF Entry, Entries, LimiterTypeOK
<1>5. /\ evicted \subseteq evicted'
      /\ \/ entry.count >= Limit /\ attempts' = Put(kept, k, entry) /\ login' = login
         \/ /\ ~(entry.count >= Limit)
            /\ attempts' = Put(kept, k, [start |-> entry.start, count |-> entry.count + 1, last |-> clock])
            /\ login' = [login EXCEPT ![l] =
                 [pc |-> "verify", key |-> k, start |-> entry.start, try |-> tries']]
  BY <1>2
<1> HIDE DEF cur, kept, entry
<1>6. WindowsOK(Charges, kept, evicted', clock)
  BY <1>0, <1>3, <1>5, WindowsPruned
<1>7. entry.start \in Nat /\ entry.count \in Nat /\ Limit \in Nat \ {0}
  BY <1>4 DEF Entries, LimiterConstants
<1>8. CASE entry.count >= Limit /\ attempts' = Put(kept, k, entry) /\ login' = login
  <2>1. k \in DOMAIN kept /\ entry = kept[k]
    BY <1>4, <1>7, <1>8
  <2>2. DOMAIN attempts' = DOMAIN kept /\ \A j \in DOMAIN kept : attempts'[j] = kept[j]
    BY <1>8, <2>1 DEF Put
  <2>3. Charges' = Charges /\ Holders' = Holders
    BY <1>1, <1>8 DEF Charges, Holders, Charge
  <2>4. WindowsOK(Charges, attempts', evicted', clock)
    <3>1. \A j \in DOMAIN attempts' : j \in DOMAIN kept /\ attempts'[j] = kept[j]
      BY <2>2
    <3>2. \A j \in DOMAIN kept : j \in DOMAIN attempts' \/ j \in evicted' \/ ~(clock - kept[j].start < Window)
      BY <2>2
    <3> QED
      BY <1>0, <1>6, <3>1, <3>2, WindowsPruned
  <2>5. WindowsOK(Charges, attempts, evicted, clock)'
    BY <1>1, <2>3, <2>4 DEF WindowsOK
  <2>6. \A j \in DOMAIN attempts' : j \in Identities /\ attempts'[j] \in Entries /\ attempts'[j].start <= clock
    BY <1>0, <1>3, <2>2 DEF LimiterTypeOK
  <2>7. LimiterTypeOK'
    BY <1>0, <1>1, <1>8, <2>3, <2>6 DEF LimiterTypeOK, Entries, Reservations, LoginRecords
  <2>8. AttemptsDistinct'
    <3>1. \A a \in Charges : a.try \in Nat /\ a.try <= tries'
      BY <1>0, <1>1 DEF AttemptsDistinct, LimiterTypeOK, Charges, Charge, Reservations, LoginRecords, Holders
    <3> QED
      BY <1>0, <1>1, <1>8, <2>3, <3>1 DEF AttemptsDistinct
  <2> QED
    BY <2>5, <2>7, <2>8 DEF LimiterInv
<1>9. CASE /\ ~(entry.count >= Limit)
           /\ attempts' = Put(kept, k, [start |-> entry.start, count |-> entry.count + 1, last |-> clock])
           /\ login' = [login EXCEPT ![l] =
                [pc |-> "verify", key |-> k, start |-> entry.start, try |-> tries']]
  <2> DEFINE r == [pc |-> "verify", key |-> k, start |-> entry.start, try |-> tries']
             c == [key |-> k, start |-> entry.start, try |-> tries']
             e == [start |-> entry.start, count |-> entry.count + 1, last |-> clock]
  <2>1. r \in LoginRecords /\ c \in Reservations /\ r.pc = "verify" /\ r.try = tries + 1 /\ r.key = k
        /\ c.key = k /\ c.start = entry.start /\ c.try = tries + 1
    BY <1>0, <1>1, <1>7 DEF LoginRecords, Reservations
  <2>2. e \in Entries /\ e.start = entry.start /\ e.count = entry.count + 1
    BY <1>0, <1>7 DEF Entries
  <2>3. /\ login' \in [Logins -> LoginRecords] /\ login'[l] = r
        /\ \A m \in Logins \ {l} : login'[m] = login[m]
    BY <1>0, <1>9, <2>1
  <2>4. /\ DOMAIN attempts' = DOMAIN kept \cup {k} /\ attempts'[k] = e
        /\ \A j \in DOMAIN kept \ {k} : attempts'[j] = kept[j]
    BY <1>9 DEF Put
  <2>5. Charge(l)' = c
    BY <2>3 DEF Charge
  <2> HIDE DEF r, c, e
  <2>6. Holders' = Holders \cup {l} /\ \A m \in Holders : m # l /\ m \in Logins /\ Charge(m)' = Charge(m)
    BY <1>1, <2>1, <2>3 DEF Holders, Charge
  <2>7. Charges' = Charges \cup {c}
    <3>1. {Charge(m)' : m \in Holders'} = {Charge(m) : m \in Holders} \cup {c}
      BY <2>5, <2>6
    <3> QED
      BY <1>1, <3>1 DEF Charges
  <2>8. \A a \in Charges : a.try \in Nat /\ a.try <= tries /\ a.start \in Nat /\ a.start <= clock
    BY <1>0 DEF AttemptsDistinct, LimiterTypeOK, Charges, Charge, Reservations, LoginRecords, Holders
  <2>9. c \notin Charges
    BY <1>0, <2>1, <2>8
  <2>10. WindowsOK(Charges \cup {c}, attempts', evicted', clock)
    <3>1. /\ entry.count < Limit
          /\ k \in DOMAIN kept => kept[k].start = entry.start /\ kept[k].count = entry.count
          /\ k \notin DOMAIN kept => entry.start = clock /\ entry.count = 0
      BY <1>4, <1>7, <1>9
    <3>2. attempts'[k].start = entry.start /\ attempts'[k].count = entry.count + 1
      BY <2>2, <2>4
    <3> QED
      BY <1>0, <1>6, <1>7, <2>1, <2>4, <2>9, <3>1, <3>2, WindowCharged
  <2>11. WindowsOK(Charges, attempts, evicted, clock)'
    BY <1>1, <2>7, <2>10 DEF WindowsOK
  <2>15. entry.start <= clock
    BY <1>0, <1>3, <1>4 DEF LimiterTypeOK
  <2>12. \A j \in DOMAIN attempts' : j \in Identities /\ attempts'[j] \in Entries /\ attempts'[j].start <= clock
    BY <1>0, <1>3, <2>2, <2>4, <2>15 DEF LimiterTypeOK
  <2>13. \A m \in Holders' : login'[m].key \in Identities
    BY <1>0, <2>1, <2>3, <2>6 DEF LimiterTypeOK
  <2>14. LimiterTypeOK'
    BY <1>0, <1>1, <2>3, <2>12, <2>13 DEF LimiterTypeOK, Entries, Reservations, LoginRecords
  <2>16. AttemptsDistinct'
    <3>1. IsFiniteSet(Charges') /\ \A a \in Charges' : a.try <= tries' /\ a.start <= clock'
      BY <1>0, <1>1, <2>1, <2>7, <2>8, <2>15, FS_AddElement
    <3>2. \A i, m \in Holders' : login'[i].try = login'[m].try => i = m
      <4>1. \A m \in Holders : login'[m] = login[m] /\ login[m].try \in Nat /\ login[m].try <= tries
        <5>1. \A m \in Holders : Charge(m) \in Charges /\ Charge(m).try = login[m].try
          BY DEF Charges, Charge
        <5> QED
          BY <2>3, <2>6, <2>8, <5>1
      <4> QED
        BY <1>0, <2>1, <2>3, <2>6, <4>1 DEF AttemptsDistinct
    <3>3. \A m \in Holders' : \A a \in failed' \cup gone' : a.try # login'[m].try
      <4>1. \A a \in failed \cup gone : a.try \in Nat /\ a.try <= tries
        BY <2>8 DEF Charges
      <4> QED
        BY <1>0, <1>1, <2>1, <2>3, <2>6, <4>1 DEF AttemptsDistinct
    <3> QED
      BY <3>1, <3>2, <3>3 DEF AttemptsDistinct
  <2> QED
    BY <2>11, <2>14, <2>16 DEF LimiterInv
<1> QED
  BY <1>5, <1>8, <1>9

LEMMA ClockStep ==
  ASSUME LimiterConstants, LimiterInv, ClockTicks
  PROVE  LimiterInv'
<1>0. /\ LimiterTypeOK /\ AttemptsDistinct /\ WindowsOK(Charges, attempts, evicted, clock)
      /\ clock \in Nat /\ Window \in Nat
  BY DEF LimiterInv, LimiterTypeOK, LimiterConstants
<1>1. clock' = clock + 1 /\ UNCHANGED <<attempts, login, tries, failed, gone, evicted>>
  BY DEF ClockTicks
<1>2. Charges' = Charges /\ Holders' = Holders
  BY <1>1 DEF Charges, Holders, Charge
<1>3. \A a \in Charges : a.start \in Nat /\ a.start <= clock
  BY <1>0 DEF AttemptsDistinct, LimiterTypeOK, Charges, Charge, Reservations, LoginRecords, Holders
<1>4. LimiterTypeOK'
  <2>1. \A k \in DOMAIN attempts : attempts[k].start \in Nat /\ attempts[k].start <= clock + 1
    BY <1>0 DEF LimiterTypeOK, Entries
  <2> QED
    BY <1>0, <1>1, <1>2, <2>1 DEF LimiterTypeOK, Entries, Reservations, LoginRecords
<1>5. AttemptsDistinct'
  BY <1>0, <1>1, <1>2, <1>3 DEF AttemptsDistinct
<1>6. WindowsOK(Charges, attempts, evicted, clock + 1)
  <2> SUFFICES ASSUME NEW k \in Identities \ evicted, NEW s \in Nat, clock + 1 - s < Window,
                      ~(k \in DOMAIN attempts /\ attempts[k].start = s)
               PROVE  InWindow(Charges, k, s) = {}
    BY <1>0 DEF WindowsOK
  <2>1. CASE clock - s < Window
    BY <1>0, <2>1 DEF WindowsOK
  <2>2. CASE ~(clock - s < Window)
    BY <1>0, <2>2
  <2> QED
    BY <2>1, <2>2
<1>7. WindowsOK(Charges, attempts, evicted, clock)'
  BY <1>1, <1>2, <1>6 DEF WindowsOK
<1> QED
  BY <1>4, <1>5, <1>7 DEF LimiterInv

LEMMA LimiterInitial ==
  ASSUME LimiterConstants, LimiterInit
  PROVE  LimiterInv
<1>1. Holders = {} /\ Charges = {} /\ DOMAIN attempts = {}
  BY DEF LimiterInit, Holders, Charges, NoLogin
<1>2. LimiterTypeOK
  BY <1>1 DEF LimiterInit, LimiterTypeOK, NoLogin, LoginRecords
<1>3. AttemptsDistinct
  BY <1>1, FS_EmptySet DEF LimiterInit, AttemptsDistinct
<1>4. \A k, s : InWindow(Charges, k, s) = {}
  BY <1>1 DEF InWindow
<1>5. WindowsOK(Charges, attempts, evicted, clock)
  <2>1. \A k, s : Cardinality(InWindow(Charges, k, s)) = 0
    BY <1>4, FS_EmptySet
  <2>2. 0 <= Limit
    BY DEF LimiterConstants
  <2> QED
    BY <1>1, <1>4, <2>1, <2>2 DEF WindowsOK
<1> QED
  BY <1>2, <1>3, <1>5 DEF LimiterInv

LEMMA LimiterStays ==
  ASSUME LimiterInv, UNCHANGED limiterVars
  PROVE  LimiterInv'
<1>1. Charges' = Charges /\ Holders' = Holders
  BY DEF limiterVars, Charges, Holders, Charge
<1>2. LimiterTypeOK'
  BY <1>1 DEF LimiterInv, LimiterTypeOK, limiterVars, Entries, Reservations, LoginRecords
<1>3. AttemptsDistinct'
  BY <1>1 DEF LimiterInv, AttemptsDistinct, limiterVars
<1>4. WindowsOK(Charges, attempts, evicted, clock)'
  BY <1>1 DEF LimiterInv, limiterVars, WindowsOK
<1> QED
  BY <1>2, <1>3, <1>4 DEF LimiterInv

(* However many logins of an identity are verified at once, succeed, fail, *)
(* are refused a verifier or lose their caller, the limiter's count of a   *)
(* window is the number of attempts charged to it, and no window ever has  *)
(* more wrong attempts than the limit, as long as the identity was not     *)
(* dropped to make room for another (LoginRateLimiter, verify_login_with_gate). *)
THEOREM LimiterSafetyTheorem ==
  ASSUME LimiterConstants
  PROVE  LimiterSpec => []LimiterSafety
<1>1. LimiterInit => LimiterInv
  BY LimiterInitial
<1>2. LimiterInv /\ [LimiterNext]_limiterVars => LimiterInv'
  <2> SUFFICES ASSUME LimiterInv, [LimiterNext]_limiterVars PROVE LimiterInv'
    OBVIOUS
  <2> QED
    BY VerifyStep, RefundStep, ReserveStep, ClockStep, LimiterStays DEF LimiterNext
<1>3. LimiterInv => LimiterSafety
  <2> SUFFICES ASSUME LimiterInv PROVE LimiterSafety
    OBVIOUS
  <2>1. WindowsOK(Charges, attempts, evicted, clock) /\ IsFiniteSet(Charges)
    BY DEF LimiterInv, AttemptsDistinct
  <2>2. ChargesMatch
    BY <2>1 DEF ChargesMatch, WindowsOK, LimiterInv, LimiterTypeOK
  <2>3. ASSUME NEW k \in Identities \ evicted, NEW start \in 0 .. MaxClock
        PROVE  Cardinality(InWindow(failed, k, start)) <= Limit
    <3>1. InWindow(failed, k, start) \in SUBSET InWindow(Charges, k, start)
      BY DEF InWindow, Charges
    <3>2. IsFiniteSet(InWindow(Charges, k, start)) /\ Cardinality(InWindow(Charges, k, start)) \in Nat
      BY <2>1, WindowFinite
    <3>3. /\ Cardinality(InWindow(failed, k, start)) <= Cardinality(InWindow(Charges, k, start))
          /\ IsFiniteSet(InWindow(failed, k, start))
      BY <3>1, <3>2, FS_Subset
    <3>4. Cardinality(InWindow(Charges, k, start)) <= Limit
      BY <2>1 DEF WindowsOK
    <3>5. Cardinality(InWindow(failed, k, start)) \in Nat
      BY <3>3, FS_CardinalityType
    <3> QED
      BY <3>2, <3>3, <3>4, <3>5 DEF LimiterConstants
  <2> QED
    BY <2>2, <2>3 DEF LimiterSafety, LimitHonoured
<1> QED
  BY <1>1, <1>2, <1>3, PTL DEF LimiterSpec
=============================================================================
