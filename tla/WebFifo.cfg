SPECIFICATION FairSpec

CONSTANTS
    Workers = {w1, w2}
    Conns = {c1, c2, c3, c4}
    NoConn = NoConn
    Nobody = Nobody
    N = 2
    SchedAlg = "FIFO"
    EpochSize = 1
    EpochMod = 2
    Sizes = {1}
    Outcomes = {"ok", "error", "reset"}

CHECK_DEADLOCK FALSE

INVARIANTS
    TypeOK
    BufferIsRing
    EveryConnectionHeld
    NeverReadTwice

PROPERTIES
    NoRequestOverwritten
    RefinesQueue
    EveryoneServed
    MainGetsSlot
