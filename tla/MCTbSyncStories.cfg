SPECIFICATION StoriesSpec
CONSTANTS
    Gateway = {g1, g2}
    Payload = {p1}
    Attached = {}
    MaxFence = 2
    MaxFaults = 1
    None = None
INVARIANTS
    NothingPostedTwice
CHECK_DEADLOCK FALSE
