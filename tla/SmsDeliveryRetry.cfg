SPECIFICATION Spec
CONSTANTS
    Messages = {m1, m2}
    Processes = {p1}
    Watchers = {}
    MaxPrefixes = 2
    MaxFaults = 1
    NoName = NoName
PROPERTIES
    Delivered
