SPECIFICATION Spec
CONSTANTS
    Files = {f1}
    Consultations = {k1}
    Meetings = {m1}
    Users = {u1}
    Comments = {x1}
    Items = {i1, i2}
    Choices = {r1, r2, r3}
    MaxUpgrades = 2
    None = None
CHECK_DEADLOCK FALSE
SYMMETRY Symmetry
INVARIANTS
    UpgradedSchema
    UpgradeGoesThrough
PROPERTIES
    NothingLost
    CleanupKeepsAChoice
