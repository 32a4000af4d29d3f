SPECIFICATION FairSpec
CONSTANTS
    Irqs <- MCIrqs
    MaxRequests = 5
INVARIANTS
    OneAtATime
    ServiceMatches
    KeyboardAlive
PROPERTY EveryRequestServed
CHECK_DEADLOCK FALSE
