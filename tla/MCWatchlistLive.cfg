SPECIFICATION FairSpec
CONSTANTS
    Requests = {r1, r2}
    Profiles = {p1, p2}
    Contents = {c1}
    Priorities = {high}
    Notes = {n1}
    Ids = {i1, i2, i3}
    Unset = Unset
    Absent = Absent
    NoOne = NoOne
    NoId = NoId
PROPERTIES
    ContractSpec
    EveryRequestEnds
