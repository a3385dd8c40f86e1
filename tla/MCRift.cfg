CONSTANTS
    Events = {e1, e2}
    None = None
    WireCap = 1
    InboxCap = 1
    MaxRetained = 2
    MaxCrashes = 2
SPECIFICATION FairSpec
INVARIANTS
    ActedOnce
    GapFree
PROPERTIES
    CommittedIsDelivered
