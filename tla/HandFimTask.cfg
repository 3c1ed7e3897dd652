SPECIFICATION Spec
CONSTANTS
    Hucs = {1, 2}
    Sources <- MCSources
    BlockSizes = {2, 3}
    ReachesPerGroup = 2
    MaxInterruptions = 1
    Requests <- MCRequests
    Rules = {"pinned", "updated"}
    TileSize = 3
    MinDepth = 1
    MaxBlocks = 8
    MaxTiles = 5
    Jobs = {1, 2, 3}
    Asked <- MCAsked
    Prefix <- MCPrefix
    Overwriting = {2}
    MaxKills = 2
    Pairs <- MCPairs
    MaxGridShift = 2
    WindowSize = 4
    MaxRestarts = 1
    MaxFaults = 1
INVARIANTS
    TypeOK
    FloodIsReference
    EveryCellOnce
    MissingIsExact
    LegacyOutputsAreOwn
    VolumeIsClean
    ComparisonIsExact
PROPERTIES
    LegacyReplacesOnRequest
CHECK_DEADLOCK FALSE
