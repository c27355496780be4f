SPECIFICATION Spec

CONSTANTS
    Threads = {t1, t2}
    Keys = {0, 1, 2}
    Elements = {x, y}
    Buckets = 2
    MaxNodes = 3
    Null = Null
    Nothing = Nothing

SYMMETRY TableSymmetry

INVARIANTS
    BucketExclusion

PROPERTIES
    Linearizable
