SPECIFICATION PacedSpec
CONSTANTS
    me = me
    other = other
    NoAddress = NoAddress
    Actors = {me, other}
    MaxGames = 2
    MaxBlock = 2
    MaxStride = 1
    MaxTime = 4
    LastCreation = 1
    InitBond = 2
    ChallengerBond = 1
    FallbackTimeout = 9
    DeploymentTimestamp = 1
    InitProposers = {other}
    InitChallengers = {me}
    OwnerPowers = {}
    FinalityDelay = 0
    GuardianPowers = {}
    MaxChallengeDuration = 2
    MaxProveDuration = 0
    TypesInUse = {"succinct"}
    Self = me
    Modes = {"active"}
    MaxCloseGameFailures = 1
    MaxMempool = 0
CHECK_DEADLOCK FALSE
INVARIANTS
    AnchorIsProtected
    HonestBondIsSafe
PROPERTIES
    OnlyChallengesLies
