SPECIFICATION Spec
CONSTANTS
    a = a
    b = b
    c = c
    x = x
    Subtask = {a, b}
    Foreign = {x}
    Graph <- AnyGraph
    MaxRetries = 1
INVARIANTS
    InputsAreThere
CHECK_DEADLOCK FALSE
