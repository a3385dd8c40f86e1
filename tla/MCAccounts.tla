----------------------------- MODULE MCAccounts -----------------------------
(* Safety of what stands between an account and the services, each part on   *)
(* its own: the subscription, the operator's sessions and the login limiter.  *)
EXTENDS StripeBilling, OperatorSessions, LoginLimiter, TLC

VARIABLE part   \* the component this behaviour is about

Event(type, status, customer, sub, price) ==
  [type |-> type, status |-> status, customer |-> customer, sub |-> sub, price |-> price]

\* The life of one subscription: sold, behind, ended.
Life == [sold |-> Event("created", "active", "c1", "s1", "p1"),
         late |-> Event("updated", "past_due", "c1", "s1", "p1"),
         ended |-> Event("deleted", "active", "c1", "s1", "p1")]

\* A payment missed before the sale is known, a charge of no subscription, and
\* a sale to a tenant without an org.
Orphan == [missed |-> Event("payment_failed", None, "c1", "s1", None),
           oneoff |-> Event("payment_failed", None, "c1", None, None),
           trial |-> Event("updated", "trialing", "c2", "s2", "p2")]

AllEvents == DOMAIN Life \cup DOMAIN Orphan
Bodies == Life @@ Orphan
TwoPrices == [p1 |-> "pro", p2 |-> "team"]
TwoCustomers == [c1 |-> "t1", c2 |-> "t2"]

Symmetry == Permutations(Workers)

ASSUME BillingConstants /\ SessionConstants /\ LimiterConstants

-----------------------------------------------------------------------------
(* The webhook with fewer inputs, on the same state.                        *)

OneLife == INSTANCE StripeBilling WITH
  Events <- DOMAIN Life, PriceMap <- [p1 |-> "pro"], CustomerMap <- [c1 |-> "t1"]
Orphans == INSTANCE StripeBilling WITH
  Events <- DOMAIN Orphan, PriceMap <- [p2 |-> "team"]

-----------------------------------------------------------------------------
(* A behaviour is about one part; the others stay where they begin.         *)

BillingStep ==
  /\ \/ part = "life" /\ OneLife!BillingNext
     \/ part = "orphan" /\ Orphans!BillingNext
  /\ UNCHANGED <<part, sessionVars, limiterVars>>

SessionStep ==
  /\ part = "sessions" /\ SessionsNext
  /\ UNCHANGED <<part, billingVars, limiterVars>>

LimiterStep ==
  /\ part = "logins" /\ LimiterNext
  /\ UNCHANGED <<part, billingVars, sessionVars>>

partVars == <<part, billingVars, sessionVars, limiterVars>>

\* These components may stop for good.
AtRest == UNCHANGED partVars

PartsInit ==
  /\ part \in {"life", "orphan", "sessions", "logins"}
  /\ BillingInit /\ SessionsInit /\ LimiterInit

PartsNext ==
  \/ BillingStep
  \/ SessionStep
  \/ LimiterStep
  \/ AtRest

PartsSpec == PartsInit /\ [][PartsNext]_partVars
=============================================================================
