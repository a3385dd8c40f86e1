CONSTANTS
    Steps = {1, 2, 3}
    Definitions <- ThreeStepGraphs
    Inline = {1, 3}
    Handlers = {"h1"}
    MaxRetries = 1
    MaxDepth = 2
    MaxCrashes = 1
    TaskIds = {"t1", "t2", "t3"}
    Agents = {"a1", "a2"}
    Paths = {"p1"}
    Owners = {"o"}
    Projects = {"p"}
    Sweepers = {"s1"}
    OwnerOf <- OneOwner
    ProjectOf <- OneProject
    Interval = 1
    Ttl = 1
    Refresh = 1
    Given = {"active", "blocked", "completed", "queued"}
    Plan <- AnyPlan
    Beating = {"t1", "t2"}
    MaxSkew = 1
    MaxTime = 2
    Events = {1, 2, 3}
    Topics = {"a", "b"}
    Consumers = {"c1"}
    TopicOf <- TwoTopics
    RingSize = 1
    BatchLimit = 2
    MaxBusCrashes = 1
    Runtimes = {"r1", "r2"}
    Nobody = "nobody"
    Jobs = {"often", "rare"}
    Period <- OftenAndRare
    Start = 2
    MaxClock = 3
    MaxFaults = 2
SPECIFICATION PartsSpec
INVARIANTS
    LoomSafety
    DefinitionsSound
    ChiasmSafety
    AxonSafety
    
PROPERTIES
    TerminalKept
    StaleKept
