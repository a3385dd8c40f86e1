CONSTANTS
    Requests = {r1, r2}
    NoRequest = NoRequest
    NeedsApproval = {r1}
    Slots = {s1}
    SlotOf <- MCOneSlot
    PrincipalOf <- MCPrincipalOf
    Actors = {alice}
    NoActor = NoActor
    ApprovalIds = {1, 2}
    ApprovalTtl = 1
    MaxLag = 0
    MaxTime = 2
    Results = {ok, huge}
    NoResult = NoResult
    Oversized = {huge}
    Tasks = {t1, t2}
    Witnessed = FALSE
    Failures = {"crash", "abandon", "storage"}
SYMMETRY TaskSymmetry
SPECIFICATION Spec
INVARIANTS
    AtMostOnce
    ApprovedEffect
    ClaimedUnderApproval
PROPERTIES
    RefinesOnce
CHECK_DEADLOCK TRUE
