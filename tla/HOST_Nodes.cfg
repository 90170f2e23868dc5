\* The programs end: an estimate is written or fails, a proof is submitted.
CHECK_DEADLOCK FALSE
SPECIFICATION Spec
CONSTANTS
    MaxHeight = 3
    Fork = 2
    Derived <- TwoBranches
    MaxResets = 1
    Unsafe = "unsafe"
    Claims = {1, 2}
    Overflow = 99
    Settings <- SampleSettings
    Buffer = 1
    PostDelay = 2
    Modes = {"mainnet", "testnet", "cluster", "mock"}
    ProvenGame <- SampleGame
    RangeSplitCount = 2
    MaxConcurrent = 2
    Timeout = 2
    AuctionTimeout = 1
    ServerDeadline = 3
INVARIANTS
    VerdictMatchesL1Head
    PlanCoversRange
    ReportIsComplete
    ProvesTheGame
PROPERTIES
    ProvingEnds
