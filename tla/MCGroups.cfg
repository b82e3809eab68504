SPECIFICATION Spec
CONSTANTS
    Requests = {r1, r2, r3}
    Profiles = {alice, bob, carol, ghost}
    Registered = {alice, bob, carol}
    GroupIds = {g1}
    Committed = Committed
    Free = Free
    Idle = Idle
SYMMETRY Interchangeable
INVARIANTS
    GroupsInv
    RepliesAgree
PROPERTIES
    FirstMemberFixed
