SPECIFICATION LiveSpec
CONSTANTS
    alice = alice
    bob = bob
    Actors = {alice, bob}
    NoAddress = NoAddress
    MaxGames = 2
    MaxBlock = 2
    MaxStride = 1
    MaxTime = 4
    LastCreation = 1
    InitBond = 2
    ChallengerBond = 1
    FallbackTimeout = 2
    DeploymentTimestamp = 1
    InitProposers = {NoAddress}
    InitChallengers = {bob}
    OwnerPowers = {}
    FinalityDelay = 0
    GuardianPowers = {"blacklist"}
    MaxChallengeDuration = 0
    MaxProveDuration = 1
    TypesInUse = {"succinct"}
CHECK_DEADLOCK FALSE
INVARIANTS
    TypeOK
    Solvent
    RefundIsDeposit
    LosesOnlyUnproven
PROPERTIES
    EveryBondPaidOut
