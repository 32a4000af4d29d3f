SPECIFICATION TicLoopSpec
CONSTANTS
    BACKUPTICS = 12
    MaxTime = 16
INVARIANT Synchronous
CHECK_DEADLOCK FALSE
