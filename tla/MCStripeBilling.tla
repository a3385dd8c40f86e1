-------------------------- MODULE MCStripeBilling --------------------------
(* Model checking of the webhook alone: the short life of a subscription.    *)
EXTENDS StripeBilling

Event(type, status, customer, sub, price) ==
  [type |-> type, status |-> status, customer |-> customer, sub |-> sub, price |-> price]

MCShort == [sold |-> Event("created", "active", "c1", "s1", "p1"),
            ended |-> Event("deleted", "active", "c1", "s1", "p1")]

ShortEvents == DOMAIN MCShort
OneCustomer == [c1 |-> "t1"]
OnePrice == [p1 |-> "pro"]
=============================================================================
