SPECIFICATION FairSpec

CONSTANTS
    Threads = {t1, t2, t3}
    Value = 1
    MaxOps = 4

CHECK_DEADLOCK FALSE

INVARIANTS
    MutualExclusion
    CountExact

PROPERTIES
    OperationsEnd
