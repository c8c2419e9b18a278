SPECIFICATION ProxySpec
CONSTANTS
    Request = {r1, r2, r3}
    Story = {s1, s2, s3}
    Owner = s1
    Ttl = {1, 2}
    MaxLag = 1
    HistoryLimit = 3
    MaxSequence = 3
    None = None
SYMMETRY CallerSymmetry
INVARIANTS
    TypeOK
    NoIdleDevice
    OneEntryPerStory
    HolderHasNewestToken
    ReceiptMeansHeld
PROPERTIES
    TakenOnlyWhenDue
    EndedIsFinal
    ImplementsLine
CHECK_DEADLOCK FALSE
