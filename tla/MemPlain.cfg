SPECIFICATION Spec
CONSTANTS
    Header = 12
    PageSize = 32
    Padding = 4
    Regions <- SmallRegions
    Debug = {0}
    Sizes <- SmallSizes
    NULL = NULL
    Taken = Taken
INVARIANTS TypeOK BlocksApart ChunksTilePool Coalesced
PROPERTY FreeIsRight
