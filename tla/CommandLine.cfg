SPECIFICATION Spec
CONSTANTS
    s1 = s1
    s2 = s2
    NoNode = NoNode
    Slots <- MCSlots
    Builtins <- MCBuiltins
    Dags <- MCDags
    Commands <- MCCommands
INVARIANTS
    RefusedForAReason
    TreeFollows
    GraphFollows
    SummaryFollows
    LoopsTold
