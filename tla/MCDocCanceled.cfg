CONSTANTS
    Events <- ShortEvents
    Body <- MCShort
    Workers = {w1, w2}
    Tenants = {"t1", "t2"}
    Subscriptions = {"s1", "s2"}
    PriceMap <- OnePrice
    CustomerMap <- OneCustomer
    Orgs = {"t1"}
    None = None
    MaxFaults = 1
SPECIFICATION BillingSpec
INVARIANTS
    CanceledIsFree
CHECK_DEADLOCK FALSE
