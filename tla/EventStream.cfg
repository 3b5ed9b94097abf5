CONSTANTS
    a = a
    b = b
    Steps <- MCSteps
    Skipped <- MCSkipped
    Orders <- MCOrders
    Accompanied <- ChainOnly
    CaptureSize = 1
    ViewerSize = 2
SPECIFICATION FairSpec
INVARIANTS
    NoSendOnClosed
    LogExact
    CompletedCloses
    SeenInOrder
    EarlySeesAll
PROPERTY
    AllEnds
