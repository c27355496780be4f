SPECIFICATION Spec

CONSTANTS
    Workers = {w1, w2}
    Conns = {c1, c2, c3, c4}
    NoConn = NoConn
    Nobody = Nobody
    N = 3
    SchedAlg = "SFF_BS"
    EpochSize = 2
    EpochMod = 3
    Sizes = {1, 2}
    Outcomes = {"ok", "error", "reset"}

SYMMETRY ThreadSymmetry

CHECK_DEADLOCK FALSE

INVARIANTS
    EpochsInStep
    NothingFoundOnlyIfLost

PROPERTIES
    EpochOrder
