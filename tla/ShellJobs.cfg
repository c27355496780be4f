SPECIFICATION FairSpec

CONSTANTS
    MaxProcs = 5
    Scripts <- TwoLines
    Leftovers <- BlankOrLast

CHECK_DEADLOCK FALSE

INVARIANTS
    WaitsSuffice
    LinesRunOnce
    OutputWhereAsked

PROPERTIES
    EndsOrJams
