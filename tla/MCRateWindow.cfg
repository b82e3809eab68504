SPECIFICATION FairWSpec
CONSTANTS
    Values = {a, b}
    Cost = 2
    Burst = 2
    Ttl = 4
    Window = 5
INVARIANTS
    LedgerInv
PROPERTIES
    BucketSpec
    ExpiredForgotten
    CleanupReturns
