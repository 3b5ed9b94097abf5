CONSTANTS
    s1 = s1
    s2 = s2
    NoNode = NoNode
    Dags <- StrayDags
    Slots <- MCSlots
SPECIFICATION FairSpec
PROPERTY Terminates
CHECK_DEADLOCK FALSE
