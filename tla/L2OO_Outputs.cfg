SPECIFICATION Spec
CONSTANTS
    alice = alice
    bob = bob
    genesis = genesis
    next = next
    NoAddress = NoAddress
    Actors = {alice}
    ConfigNames = {genesis}
    GenesisConfig = genesis
    FallbackTimeout = 1
    L2BlockTime = 1
    HashWindow = 2
    Intervals = {0, 1}
    Periods = {1, 3}
    L1Blocks = {1}
    Powers = {"delete", "interval", "optimistic", "factory", "upgrade", "configs", "proposers"}
    MaxOutputs = 4
    MaxBlock = 4
    MaxTime = 5
    MaxGames = 1
CHECK_DEADLOCK FALSE
INVARIANTS
    SearchFindsFirst
    ProvenExtendsPrevious
PROPERTIES
    FinalizedNeverDeleted
    OutputsComeWithGames
