SPECIFICATION FairSpec
CONSTANTS
    Op = {o1, o2}
    Sha = {c1, c2}
    None = None
    MaxGeneration = 2
    MaxFaults = 2
    MaxCrashes = 2
INVARIANTS
    MirrorTypeOK
    AcceptedIsRetained
    RefAndStateAgree
PROPERTIES
    ImplementsMirrorLine
    BackToService
CHECK_DEADLOCK FALSE
