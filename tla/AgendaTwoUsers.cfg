SPECIFICATION Spec
CONSTANTS
    Items = {i1, i2, i3}
    Users = {u1, u2}
    MaxCopy = 2
CHECK_DEADLOCK FALSE
SYMMETRY Symmetry
INVARIANTS
    TypeOK
PROPERTIES
    FreshMovesKeepDistinct
    FreshMovesLand
