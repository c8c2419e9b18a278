SPECIFICATION ClientsSpec
CONSTANTS
    t1 = t1
    t2 = t2
    o1 = o1
    o2 = o2
    sA = sA
    sB = sB
    sC = sC
    sD = sD
    None = None
    Request = {t1, t2, o1}
    Story = {sA, sB, sC}
    Immediate = {o1}
    StoryOf <- OwnStory
    Ttl = {4}
    LeaseTtl = 4
    MaxLag = 1
    HistoryLimit = 4
    MaxSequence = 3
    Prompt = FALSE
    MaxCrashes = 1
INVARIANTS
    ClientsTypeOK
    StoredMessageIsKnown
    OperationHoldsLease
PROPERTIES
    LostOnlyByExpiry
    RenewedByItsOperator
CHECK_DEADLOCK FALSE
