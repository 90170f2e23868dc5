SPECIFICATION Spec
CONSTANTS
    alice = alice
    Actors = {alice}
    NoAddress = NoAddress
    MaxGames = 3
    MaxBlock = 3
    MaxStride = 1
    MaxTime = 3
    LastCreation = 2
    InitBond = 0
    ChallengerBond = 0
    FallbackTimeout = 0
    DeploymentTimestamp = 1
    InitProposers = {alice}
    InitChallengers = {alice}
    OwnerPowers = {"setProposer", "setChallenger"}
    FinalityDelay = 0
    GuardianPowers = {"blacklist", "retire", "respect", "pause"}
    MaxChallengeDuration = 0
    MaxProveDuration = 0
    TypesInUse = {"succinct", "other"}
CONSTRAINT Explored
CHECK_DEADLOCK FALSE
INVARIANTS
    ChallengedLieNeverWins
    OneHonestChallengerSuffices
PROPERTIES
    ImplementsProposalTree
    FallbackOnlyAfterSilence
