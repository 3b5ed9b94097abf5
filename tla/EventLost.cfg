CONSTANTS
    a = a
    b = b
    Steps <- MCSteps
    Skipped <- MCSkipped
    Orders <- ChainOnly
    Accompanied <- ChainOnly
    CaptureSize = 2
    ViewerSize = 9
SPECIFICATION Spec
PROPERTY LosesNothing
