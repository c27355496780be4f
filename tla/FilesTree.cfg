SPECIFICATION Spec

CONSTANTS
    INODE_COUNT = 4
    DATA_COUNT = 5
    BITMAP_SIZE = 3
    DIR_ENT_COUNT = 3
    MaxBlocks = 2
    UnlinkLimit = 2
    Names = {"a", "b"}
    NoName = NoName
    Absent = Absent
    Contents = {u}
    Blank = Blank
    Garbage <- AnyInt
    Commands <- TreeCommands
    MaxSize = 6
    Careful = TRUE
    MaxCrashes = 0
    Parents = {0, 1}
    Targets = {1}

CHECK_DEADLOCK FALSE

INVARIANTS
    TreeIsSound
    StrayOnlyWhenFull

PROPERTIES
    OnlyNamedEntryChanges
