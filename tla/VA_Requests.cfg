SPECIFICATION FairSpec
CONSTANTS
    Scenarios <- Deployments
    MaxBlock = 2
    MaxL1 = 2
    SafeL1 = 1
    RangeProofInterval = 2
    EvmGasLimit = 9
    SubmissionInterval = 1
    SplitAfter = 0
    MaxPollFailures = 2
    ForeignPowers = {"propose", "rewind"}
    MaxWitnesses = 1
    MaxProofs = 1
    MaxRows = 11
INVARIANTS
    AggregationsAreBacked
    UnusableIsDetected
    OneAggregationPerStart
PROPERTIES
    InvalidatedStaysDead
    EverythingGetsProposed
