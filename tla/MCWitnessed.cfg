CONSTANTS
    Requests = {r1, r2}
    NoRequest = NoRequest
    NeedsApproval = {r1}
    Slots = {s1}
    SlotOf <- MCOneSlot
    PrincipalOf <- MCPrincipalOf
    Actors = {alice, bob}
    NoActor = NoActor
    ApprovalIds = {1}
    ApprovalTtl = 1
    MaxLag = 0
    MaxTime = 0
    Results = {ok, huge}
    NoResult = NoResult
    Oversized = {huge}
    Tasks = {t1, t2}
    Witnessed = TRUE
    Failures = {"crash", "abandon", "storage"}
SYMMETRY TaskSymmetry
SPECIFICATION Spec
INVARIANTS
    IntentBeforeEffect
    ReportedDurable
    ReceiptsTruthful
    FourEyes
PROPERTIES
    ConcludedIsOver
CHECK_DEADLOCK TRUE
