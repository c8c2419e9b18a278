SPECIFICATION FairSpec
CONSTANTS
    Gateway = {g1, g2}
    Payload = {p1, p2}
    Attached = {p1}
    MaxFence = 3
    MaxFaults = 2
    None = None
INVARIANTS
    TbTypeOK
    NothingPostedTwice
    StatusFollowsPosts
    TerminalIsConfirmed
    PostsOfOneOwner
PROPERTIES
    ImplementsReport
    RetriesSettle
CHECK_DEADLOCK FALSE
