SPECIFICATION Spec
CONSTANTS
    MaxFiles = 3
    Block = 1
    WadSize = 2
    Files <- MCFiles
    Data <- MCData
    Counts <- MCCounts
    MaxSaves = 3
    MaxLength = 4
INVARIANTS
    BuffersSound
    WadStaysReadable
    SavesCanBeLoaded
CHECK_DEADLOCK FALSE
