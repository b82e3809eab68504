---- MODULE StateStoreData ----
\* What the two state stores and their callers share.

CONSTANTS
    States,   \* OAuth states: random, each handed out once
    Callers,  \* callbacks in flight
    Nothing   \* a caller that asks for nothing

ASSUME StoreAssumption == Nothing \notin States

====
