CONSTANTS
    Workflows <- MCWorkflows
    MaxCrashes <- MCMaxCrashes
SPECIFICATION FairSpec
INVARIANTS
    NothingLost
    RunsOnSettled
PROPERTIES
    StoredSuccessKept
    OnRecoveryKept
    FinalIsFinal
    Concludes
