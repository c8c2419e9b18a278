SPECIFICATION FairSpec
CONSTANTS
    a = a
    b = b
    c = c
    x = x
    Subtask = {a, b, c}
    Foreign = {x}
    Graph <- AnyGraph
    MaxRetries = 1
INVARIANTS
    RunTypeOK
    CycleIsRefused
    WorkContinues
    ResolvedRunHasRunAll
PROPERTIES
    HoldsBack
    RunSettles
CHECK_DEADLOCK FALSE
