SPECIFICATION ClockSpec
CONSTANTS
    CyclesPerSec = 14
    UsecPerSec = 7
    TicRate = 3
    MaxCycles = 70
    Steps <- MCSteps
PROPERTY PerfectlySmooth
CHECK_DEADLOCK FALSE
