SPECIFICATION FairSpec

CONSTANTS
    Workers = {w1, w2}
    NoJob = NoJob
    Kinds <- AllKinds
    MaxRequests = 4

CHECK_DEADLOCK FALSE

INVARIANTS
    DispCountNeverOver
    WaitNeverFails

PROPERTIES
    HandlingEnds
