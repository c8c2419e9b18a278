SPECIFICATION Spec
CONSTANTS
    Op = {o1, o2}
    Sha = {c1, c2}
    None = None
    MaxGeneration = 2
    MaxFaults = 1
    MaxCrashes = 1
INVARIANTS
    PublishedIsRecognised
CHECK_DEADLOCK FALSE
