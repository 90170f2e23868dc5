SPECIFICATION FairSpec
CONSTANTS
    me = me
    other = other
    NoAddress = NoAddress
    Actors = {me, other}
    MaxGames = 1
    MaxBlock = 1
    MaxStride = 1
    MaxTime = 4
    LastCreation = 1
    InitBond = 2
    ChallengerBond = 1
    FallbackTimeout = 9
    DeploymentTimestamp = 1
    InitProposers = {other}
    InitChallengers = {me}
    OwnerPowers = {}
    FinalityDelay = 0
    GuardianPowers = {"blacklist"}
    MaxChallengeDuration = 1
    MaxProveDuration = 0
    TypesInUse = {"succinct", "other"}
    Self = me
    Modes = {"active", "malicious", "malicious monitor"}
    MaxCloseGameFailures = 1
    MaxMempool = 1
CHECK_DEADLOCK FALSE
INVARIANTS
    NothingForgotten
PROPERTIES
    OnlyChallengesLies
    OwnDisputesGetResolved
    OwnWinsGetPaid
