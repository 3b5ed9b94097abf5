CONSTANTS
    a = a
    b = b
    Steps <- MCSteps
    Skipped <- MCSkipped
    Orders <- ParallelOnly
    Accompanied <- ChainOnly
    CaptureSize = 2
    ViewerSize = 9
SPECIFICATION Spec
INVARIANT NoneTwice
