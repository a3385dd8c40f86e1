CONSTANTS
    MaxRounds = 2
    MaxCalls = 2
    Compression = TRUE
    KeepRecent = 2
    MaxSessions = 2
    MaxTasks = 2
    MaxFaults = 1
    Callers = {c1, c2, c3}
    Calls = {c1, c2, c3}
    Threshold = 2
    Recovery = 1
    ProbeMax = 1
    Silent = TRUE
    Requests <- AllRequests
    Invocation <- Invocations
    Role <- Roles
    TierNames = {"local", "free", "pro"}
    Limits <- TierLimits
    Rpm <- TierRpm
    Share = 2
    DayTicks = 1
    None = None
    MaxTime = 2
    MaxSetbacks = 1
    MaxChanges = 1
    Clients = {c1, c2, c3}
    MaxTurns = 2
    MaxQuestions = 2
    MaxCrashes = 2
    MaxLost = 1
SPECIFICATION PartsSpec
INVARIANTS
    SessionSafety
    GateSafety
    
    NothingRepeated
    NoWedge
SYMMETRY Symmetry
