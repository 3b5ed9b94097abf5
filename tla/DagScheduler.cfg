CONSTANTS
    s1 = s1
    s2 = s2
    NoNode = NoNode
    Dags <- ClosedDags
    Slots <- MCSlots
SPECIFICATION FairSpec
INVARIANTS
    TypeOK
    DependencyOrder
    CountMatches
    InDegreeExact
    NoBlockedSend
    DoneMeansAll
    FailureStopsDependents
    ReturnTellsAll
PROPERTIES
    ImplementsOrder
    Terminates
