CONSTANTS
    NoOne = NoOne
    Keys <- MCKeys
    Names <- MCNames
    MaxOpenConns = 2
    Scenarios <- AllScenarios
SPECIFICATION FairSpec
INVARIANTS
    EventTellsResult
    NoLostUpdate
    LockWaiterWoken
    OneHandle
    CommitKeepsAll
    LoopAnswersForAll
PROPERTIES
    ExecutionsEnd
CHECK_DEADLOCK FALSE
