SPECIFICATION RoutinesSpec
CONSTANTS
    WordSize = 32
    MemSize = 6
    Width = 4
    Height = 2
    PaletteSize = 3
    Margin = 2
    Frequencies <- MCFrequencies
    Port61Values <- MCPort61Values
    HeapUnits = 7
    Start = 8
    Limit = 48
    AddressSpace = 256
    MaxInt = 127
    Requests <- MCRequests
    Values <- MCValues
    CyclesPerSec = 14
    UsecPerSec = 7
    TicRate = 3
    MaxCycles = 56
    Steps <- MCSteps
INVARIANTS
    DivisionRight
    MoveIsCopy
    DrawnAsAsked
    SoundsAsAsked
    ChainSound
    HeapSound
    NoDrift
PROPERTIES
    SteadyAndAccurate
    ContentsKept
