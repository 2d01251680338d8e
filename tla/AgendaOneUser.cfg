SPECIFICATION Spec
CONSTANTS
    Items = {i1, i2, i3, i4, i5}
    Users = {u1}
    MaxCopy = 2
CHECK_DEADLOCK FALSE
SYMMETRY Symmetry
INVARIANTS
    DistinctPositions
PROPERTIES
    ImplementsOrder
