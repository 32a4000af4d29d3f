SPECIFICATION EngineSpec
CONSTANTS
    BACKUPTICS = 6
    MaxTime = 5
    VictoryMap = 2
    Lag = 2
    NoStateTics = 2
    TitleSteps = 2
    ZoneUnits = 10
    MINFRAGMENT = 2
    Lumps <- MCLumps
    LumpUnits <- MCLumpUnits
    Texture = "tex"
    TextureUnits = 2
    Patches <- MCPatches
    LevelUnits = {1, 2}
    MaxLevelBlocks = 2
    Nodes = {n1, n2, n3}
    Doors = {"d1"}
    Plats = {"p1"}
    Crushers = {"c1"}
    Levels <- MCLevels
    DoorSides = {"front"}
    Top = 2
    ThingHeight = 1
    VDOORWAIT = 1
    PLATWAIT = 1
    MAXPLATS = 1
    MAXCEILINGS = 1
    DoorTypes = {"door_close", "close30ThenOpen"}
    PlatTypes = {"downWaitUpStay", "perpetualRaise"}
    numChannels = 3
    Origins = {"t1", "t2"}
    Sfx = {"sfx_pistol", "sfx_dorcls", "sfx_posit1"}
    Priority <- MCPriority
SYMMETRY Symmetry
INVARIANTS
    OwnCommand
    GameKept
    RequestsKept
    SaveOfItsLevel
    ZoneSound
    PointersGood
    EachOnce
    OneMoverPerSector
    ThingsFit
    ChannelsOwned
CHECK_DEADLOCK FALSE
