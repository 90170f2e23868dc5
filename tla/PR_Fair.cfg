SPECIFICATION FairSpec
CONSTANTS
    me = me
    other = other
    NoAddress = NoAddress
    Actors = {me, other}
    MaxGames = 1
    MaxBlock = 1
    MaxStride = 2
    MaxTime = 3
    LastCreation = 1
    InitBond = 2
    ChallengerBond = 1
    FallbackTimeout = 9
    DeploymentTimestamp = 1
    InitProposers = {me, other}
    InitChallengers = {other}
    OwnerPowers = {}
    FinalityDelay = 0
    GuardianPowers = {}
    MaxChallengeDuration = 0
    MaxProveDuration = 1
    TypesInUse = {"succinct", "other"}
    Self = me
    ProposalInterval = 1
    FastFinality = FALSE
    ProvingLimit = 1
    MaxDefenses = 1
    MaxDeadlineLag = 9
    MaxCloseGameFailures = 2
    WithBackup = FALSE
    RemovalsFinal = {TRUE}
    FirstL2Head = 1
    MaxMempool = 0
    MaxFaults = 1
    OtherPowers = {"forge", "challenge", "prove", "settle"}
CHECK_DEADLOCK FALSE
INVARIANTS
    BondsRemembered
PROPERTIES
    OwnGamesGetResolved
    OwnBondsGetPaid
