CONSTANTS
    s1 = s1
    s2 = s2
    NoNode = NoNode
    Dags <- SideBranchDags
    Slots <- MCSlots
SPECIFICATION FairSpec
INVARIANT DependencyOrder
