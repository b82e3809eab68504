SPECIFICATION FairSSpec
CONSTANTS
    Sessions = {s1}
    Workers = {w1, w2}
    Nobody = Nobody
    Expiry = 1
    Flight = 1
    MaxTime = 4
INVARIANTS
    SessionInv
PROPERTIES
    StaleBounded
    GoneForGood
    EntriesForgotten
