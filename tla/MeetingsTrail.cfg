SPECIFICATION Spec
CONSTANTS
    Users = {u1, u2}
    Groups = {g1}
    Clients = {c1, c2}
    Meetings = {m1}
    Files = {f1}
    Names = {n1}
    Times = {t1, t2}
    Statuses = {"invited", "attended"}
    MaxFiles = 1
    None = None
CHECK_DEADLOCK FALSE
PROPERTIES
    EveryChangeInTrail
