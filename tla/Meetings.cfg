SPECIFICATION Spec
CONSTANTS
    Users = {u1, u2}
    Groups = {g1}
    Clients = {c1, c2}
    Meetings = {m1}
    Files = {f1, f2}
    Names = {n1, n2}
    Times = {t1}
    Statuses = {"invited"}
    MaxFiles = 2
    None = None
CONSTRAINT FilesApart
CHECK_DEADLOCK FALSE
SYMMETRY Symmetry
INVARIANTS
    TypeOK
    ReferencesLive
    
