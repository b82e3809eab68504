SPECIFICATION FairSpec
CONSTANTS
    Requests = {r1, r2}
    Sessions = {s1}
    Users = {u1}
    Hashes = {h1, h2}
    None = None
    MaxRollbacks = 1
INVARIANTS
    TokenInv
PROPERTIES
    OnlyTheForgottenGo
    JobForgets
    EveryRequestEnds
