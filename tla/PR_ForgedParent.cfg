SPECIFICATION ProposerSpec
CONSTANTS
    me = me
    other = other
    NoAddress = NoAddress
    Actors = {me, other}
    MaxGames = 3
    MaxBlock = 3
    MaxStride = 1
    MaxTime = 1
    LastCreation = 2
    InitBond = 2
    ChallengerBond = 1
    FallbackTimeout = 9
    DeploymentTimestamp = 1
    InitProposers = {me, other}
    InitChallengers = {other}
    OwnerPowers = {}
    FinalityDelay = 9
    GuardianPowers = {}
    MaxChallengeDuration = 1
    MaxProveDuration = 0
    TypesInUse = {"succinct"}
    Self = me
    ProposalInterval = 1
    FastFinality = FALSE
    ProvingLimit = 1
    MaxDefenses = 1
    MaxDeadlineLag = 9
    MaxCloseGameFailures = 1
    WithBackup = TRUE
    RemovalsFinal = {TRUE}
    FirstL2Head = 3
    MaxMempool = 0
    MaxFaults = 0
    OtherPowers = {"forge","propose"}
CHECK_DEADLOCK FALSE
INVARIANTS
    HeadOnValidChain
