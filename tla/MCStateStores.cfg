SPECIFICATION FairStoresSpec
CONSTANTS
    States = {s1, s2}
    Callers = {c1, c2, c3}
    Nothing = Nothing
    Expiry = 1
INVARIANTS
    StoreInv
    BucketInv
PROPERTIES
    PromiseSpec
    BucketPromiseSpec
    ExpiredForgotten
    ShutdownEnds
