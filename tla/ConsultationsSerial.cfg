SPECIFICATION Spec
CONSTANTS
    Versions = {v1, v2, v3, v4}
    Files = {f1, f2}
    Workers = {w1}
    NoVersion = NoVersion
    PageLimit = 1
    ListLimit = 2
CHECK_DEADLOCK FALSE
SYMMETRY Symmetry
INVARIANTS
    TypeOK
    FilesOnLatest
    LiveChainResolves
    FeedTellsHistory
    ReadersAgree
    CheckFindsDeadEnds
PROPERTIES
    ImplementsRecords
