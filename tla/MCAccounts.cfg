SPECIFICATION Spec
CONSTANTS
    Requests = {r1, r2, r3}
    Users = {u1}
    Passwords = {h1, h2}
    Names = {n1, n2}
    Ids = {i1, i2, i3}
    Absent = Absent
    NoHash = NoHash
    NoCall = NoCall
SYMMETRY Interchangeable
INVARIANTS
    AccountInv
    NoLateProfile
PROPERTIES
    OwnFieldOnly
