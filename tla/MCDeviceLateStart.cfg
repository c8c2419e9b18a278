SPECIFICATION ClientsSpec
CONSTANTS
    t1 = t1
    t2 = t2
    o1 = o1
    o2 = o2
    sA = sA
    sB = sB
    sC = sC
    sD = sD
    None = None
    Request = {t1, t2, o1}
    Story = {sA, sB, sC}
    Immediate = {o1}
    StoryOf <- OwnStory
    Ttl = {4}
    LeaseTtl = 4
    MaxLag = 0
    HistoryLimit = 4
    MaxSequence = 3
    Prompt = TRUE
    MaxCrashes = 0
INVARIANTS
    OneOperation
CHECK_DEADLOCK FALSE
