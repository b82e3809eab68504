SPECIFICATION Spec
CONSTANTS
    Requests = {r1, r2, r3}
    Profiles = {p1}
    Contents = {c1}
    Priorities = {high, low}
    Notes = {n1}
    Ids = {i1, i2, i3}
    Unset = Unset
    Absent = Absent
    NoOne = NoOne
    NoId = NoId
SYMMETRY Interchangeable
INVARIANTS
    WatchlistInv
PROPERTIES
    UpdatesLoseNothing
