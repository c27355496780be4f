SPECIFICATION FairSpec

CONSTANTS
    INODE_COUNT = 4
    DATA_COUNT = 5
    BITMAP_SIZE = 8
    DIR_ENT_COUNT = 4
    MaxBlocks = 2
    UnlinkLimit = 3
    Names = {"a", "b"}
    NoName = NoName
    Absent = Absent
    Contents = {u}
    Blank = Blank
    Garbage = {0}
    Commands <- NoCommands
    MaxSize = 16
    Careful = FALSE
    MaxCrashes = 1
    u = u
    k1 = k1
    k2 = k2
    Clients = {k1, k2}
    Scripts <- TwoFiles
    Capacity = 2
    MaxExtra = 1
    MaxOvertaken = 1

CHECK_DEADLOCK FALSE

INVARIANTS
    LagBounded
    DoneStaysDone

PROPERTIES
    CallReturns
