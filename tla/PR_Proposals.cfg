SPECIFICATION ProposerSpec
CONSTANTS
    me = me
    other = other
    NoAddress = NoAddress
    Actors = {me, other}
    MaxGames = 2
    MaxBlock = 2
    MaxStride = 2
    MaxTime = 2
    LastCreation = 2
    InitBond = 2
    ChallengerBond = 1
    FallbackTimeout = 9
    DeploymentTimestamp = 1
    InitProposers = {me, other}
    InitChallengers = {other}
    OwnerPowers = {}
    FinalityDelay = 9
    GuardianPowers = {}
    MaxChallengeDuration = 1
    MaxProveDuration = 0
    TypesInUse = {"succinct"}
    Self = me
    ProposalInterval = 1
    FastFinality = FALSE
    ProvingLimit = 1
    MaxDefenses = 1
    MaxDeadlineLag = 9
    MaxCloseGameFailures = 1
    WithBackup = TRUE
    RemovalsFinal = {TRUE}
    FirstL2Head = 1
    MaxMempool = 1
    MaxFaults = 1
    OtherPowers = {"challenge","settle"}
CHECK_DEADLOCK FALSE
INVARIANTS
    GuardIsTemporary
PROPERTIES
    NoDuplicateProposal
