SPECIFICATION Spec

CONSTANTS
    INODE_COUNT = 4
    DATA_COUNT = 4
    BITMAP_SIZE = 8
    DIR_ENT_COUNT = 3
    MaxBlocks = 2
    UnlinkLimit = 3
    Names = {"a", "b"}
    NoName = NoName
    Absent = Absent
    Contents = {u, v}
    Blank = Blank
    Garbage = {0}
    Commands <- FileCommands
    MaxSize = 6
    Careful = TRUE
    MaxCrashes = 0
    Parents = {0}
    Targets = {1, 2, 3}

CHECK_DEADLOCK FALSE

PROPERTIES
    RefinesStore
