SPECIFICATION Spec

CONSTANTS
    Workers = {w1, w2}
    Conns = {c1, c2, c3}
    NoConn = NoConn
    Nobody = Nobody
    N = 2
    SchedAlg = "SFF"
    EpochSize = 1
    EpochMod = 1
    Sizes = {1, 2}
    Outcomes = {"ok"}

CHECK_DEADLOCK FALSE

PROPERTIES
    NoRequestOverwritten
