SPECIFICATION PacedSpec
CONSTANTS
    me = me
    other = other
    NoAddress = NoAddress
    Actors = {me, other}
    MaxGames = 2
    MaxBlock = 2
    MaxStride = 2
    MaxTime = 6
    LastCreation = 1
    InitBond = 2
    ChallengerBond = 1
    FallbackTimeout = 9
    DeploymentTimestamp = 1
    InitProposers = {me, other}
    InitChallengers = {other}
    OwnerPowers = {}
    FinalityDelay = 9
    GuardianPowers = {}
    MaxChallengeDuration = 1
    MaxProveDuration = 3
    TypesInUse = {"succinct"}
    Self = me
    ProposalInterval = 1
    FastFinality = TRUE
    ProvingLimit = 1
    MaxDefenses = 1
    MaxDeadlineLag = 9
    MaxCloseGameFailures = 1
    WithBackup = FALSE
    RemovalsFinal = {TRUE}
    FirstL2Head = 2
    MaxMempool = 0
    MaxFaults = 1
    OtherPowers = {"challenge","settle"}
CHECK_DEADLOCK FALSE
INVARIANTS
    CanonicalClaimsSurvive
    ProofsWithinLimits
