SPECIFICATION FairSpec
CONSTANTS
    MaxGames = 3
    WrongType = {1}
    MaxConcurrent = 1
    MaxRetries = 1
    StartIndexes = {0}
    MaxFaults = 1
INVARIANTS
    RetriesSurvive
    SkipsOnlyFirst
PROPERTIES
    EveryGameSettles
