SPECIFICATION Spec
CONSTANTS
    Messages = {m1}
    Processes = {p1, p2}
    Watchers = {p2}
    MaxPrefixes = 1
    MaxFaults = 2
    NoName = NoName
INVARIANTS
    TypeOK
    NoLoss
    DiscardedIsKept
    OnceUnlessTrouble
