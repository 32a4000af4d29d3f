SPECIFICATION Spec
CONSTANTS
    Irqs <- MCIrqs
    MaxRequests = 2
INVARIANT PanicVisible
CHECK_DEADLOCK FALSE
