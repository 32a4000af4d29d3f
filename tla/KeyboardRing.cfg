SPECIFICATION FairSpec
CONSTANTS
    Size = 4
    Scancodes <- MCScancodes
    MaxAccepted = 6
    MaxDropped = 2
INVARIANTS
    FifoOrder
    RingHoldsWaiting
    PopNotStale
PROPERTIES
    FifoSpec
    EveryScancodeReturned

