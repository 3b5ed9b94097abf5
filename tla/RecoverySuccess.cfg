CONSTANTS
    Workflows <- ChainOnly
    MaxCrashes <- MCMaxCrashes
SPECIFICATION Spec
INVARIANT SuccessLeavesNothingOut
