SPECIFICATION TimersSpec
CONSTANTS
    t1 = t1
    t2 = t2
    o1 = o1
    o2 = o2
    sA = sA
    sB = sB
    sC = sC
    sD = sD
    None = None
    Request = {t1, t2}
    Story = {sA, sB, sC}
    Immediate = {}
    StoryOf <- OwnStory
    Ttl = {2}
    LeaseTtl = 2
    MaxLag = 1
    HistoryLimit = 4
    MaxSequence = 2
    Prompt = FALSE
    MaxCrashes = 1
PROPERTIES
    StoredMessageSettles
    LoserStops
CHECK_DEADLOCK FALSE
