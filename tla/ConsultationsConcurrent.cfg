SPECIFICATION Spec
CONSTANTS
    Versions = {v1, v2, v3, v4}
    Files = {}
    Workers = {w1, w2}
    NoVersion = NoVersion
    PageLimit = 1
    ListLimit = 2
CHECK_DEADLOCK FALSE
SYMMETRY Symmetry
INVARIANTS
    ChainShape
    OnePredecessor
PROPERTIES
    PurgeReportsAll
