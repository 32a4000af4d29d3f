SPECIFICATION BootSpec
CONSTANTS
    ChunkSectors = 8
    Chunks = 7
    Rest = 2
    WadLba = 59
    HighSize = 64
    KernelSizes <- MCKernelSizes
    BssSizes <- MCBssSizes
    WadSizes <- MCWadSizes
    KeyBits <- MCKeyBits
    MaxTyped = 2
    Byte = 4
    Nibble = 2
    lba = 59
    sector_count = 6
    Unreliable <- MCUnreliable
INVARIANT ConfigKept
CHECK_DEADLOCK FALSE
