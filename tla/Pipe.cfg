SPECIFICATION FairSpec
CONSTANTS
    MaxSent = 2
    MaxHead = 1
    OutCap = 1
INVARIANTS
    TypeOK
    InOrder
    NoByteLost
    EofFlushed
    CountsFinal
    EndHasCause
PROPERTIES
    ImplementsRelay
    DepartureEndsSession
    Delivered
CHECK_DEADLOCK FALSE
