CONSTANTS
    Requests = {r1, r2}
    NoRequest = NoRequest
    NeedsApproval = {}
    Slots = {r1, r2}
    SlotOf <- MCOwnSlots
    PrincipalOf <- MCPrincipalOf
    Actors = {}
    NoActor = NoActor
    ApprovalIds = {}
    ApprovalTtl = 1
    MaxLag = 0
    MaxTime = 0
    Results = {ok}
    NoResult = NoResult
    Oversized = {}
    Tasks = {t1, t2}
    Witnessed = TRUE
    Failures = {}
SPECIFICATION Spec
INVARIANTS
    BlockedIsRecoverable
CHECK_DEADLOCK TRUE
