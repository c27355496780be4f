SPECIFICATION Spec

CONSTANTS
    INODE_COUNT = 3
    DATA_COUNT = 3
    BITMAP_SIZE = 8
    DIR_ENT_COUNT = 4
    MaxBlocks = 2
    UnlinkLimit = 3
    Names = {"a", "b"}
    NoName = NoName
    Absent = Absent
    Contents = {u, v}
    Blank = Blank
    Garbage = {0}
    Commands <- TreeChanges
    MaxSize = 8
    Careful = TRUE
    MaxCrashes = 1
    Parents = {0, 1}
    Targets = {1}

CHECK_DEADLOCK FALSE

INVARIANTS
    BlocksOwnedOnce
    AnswerHolds
    NamesUnique
