SPECIFICATION FairSpec
CONSTANTS
    Requests = {r1, r2}
    Profiles = {alice, bob}
    Registered = {alice, bob}
    GroupIds = {g1, g2}
    Committed = Committed
    Free = Free
    Idle = Idle
PROPERTIES
    RosterSpec
    EveryRequestEnds
    RepliesHaveCaller
