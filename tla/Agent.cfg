SPECIFICATION FairSpec
CONSTANTS
    NoChannel = NoChannel
    Nothing = Nothing
    Closed = Closed
    NoRow = NoRow
    NoKey = NoKey
    AnyValue = AnyValue
    m1 = m1
    m2 = m2
    m3 = m3
    h1 = h1
    h2 = h2
    k1 = k1
    Capacity = 2
    MaxIds = 3
    Scenarios <- AllScenarios
INVARIANTS
    RingTells
    ListingsTell
    OnePerKey
    AckedForAReason
    TakenOnce
PROPERTY EverythingEnds
CHECK_DEADLOCK FALSE
