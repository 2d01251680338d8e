SPECIFICATION Spec
CONSTANTS
    Messages = {m1}
    Processes = {p1, p2}
    Watchers = {}
    MaxPrefixes = 2
    MaxFaults = 0
    NoName = NoName
INVARIANTS
    SoleSender
