CONSTANTS
    Requests = {r1, r2}
    Actors = {alice, bob}
    NoActor = NoActor
    ApprovalIds = {1, 2, 3}
    ApprovalTtl = 2
    MaxLag = 1
    MaxTime = 4
    Slots = {s1}
    SlotOf <- MCSlotOf
    Results = {ok, redacted, huge}
    NoResult = NoResult
    Oversized = {huge}
    Contents = {a, b}
    MaxHistory = 6
    Hashes <- MCHashes
    GenesisHash <- MCGenesis
    AuthenticCheckpoints <- MCCheckpoints
SYMMETRY StoresSymmetry
SPECIFICATION StoresSpec
INVARIANTS
    DecisionIsFinal
    ReceiptsLinked
    LedgerOnLog
PROPERTIES
    DecidedInTime
CHECK_DEADLOCK TRUE
