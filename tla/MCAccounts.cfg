CONSTANTS
    Workers = {w1, w2}
    Events <- AllEvents
    Body <- Bodies
    Tenants = {"t1", "t2"}
    Subscriptions = {"s1", "s2"}
    PriceMap <- TwoPrices
    CustomerMap <- TwoCustomers
    Orgs = {"t1"}
    None = None
    MaxFaults = 1
    Requests = {w1, w2}
    Families = {"f1"}
    AccessTtl = 1
    RefreshTtl = 1
    Never = None
    MaxSessions = 3
    MaxTime = 1
    Logins = {w1, w2}
    Identities = {"a", "b"}
    Limit = 2
    Window = 2
    MaxKeys = 1
    Permits = 1
    MaxClock = 2
    MaxTries = 4
SPECIFICATION PartsSpec
INVARIANTS
    BillingSafety
    AccessSafety
    LimiterSafety
PROPERTIES
    CutOnlyWhenEnded
SYMMETRY Symmetry
