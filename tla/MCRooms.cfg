CONSTANTS
    Procs = {p1, p2}
    MaxRev = 3
    MaxRetries = 1
    MaxFaults = 1
    MaxStatusFaults = 1
    Proposals = {"p1", "p2"}
    MaxAttempts = 2
    MaxConcurrent = 1
    ChannelCap = 1
    Agents = {1, 2, 3}
    SlotOf <- InOrder
    NoAgent = 0
    Topics = {"t1", "t2"}
    NoTopic = "none"
    TurnBudget = 2
    ThreadCeiling = 3
    MaxRounds = 2
    TopicsCap = 2
    EmbedFails = TRUE
    MaxSeeds = 2
SPECIFICATION PartsSpec
INVARIANTS
    CascadeSafety
    ExecutionSafety
    SupervisionSafety
PROPERTIES
    HistoryKept
SYMMETRY Symmetry
