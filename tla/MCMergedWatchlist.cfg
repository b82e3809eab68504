SPECIFICATION Spec
CONSTANTS
    Profiles = {alice, bob}
    heat = heat
    remake = remake
    show = show
    Contents = {heat, remake, show}
    Kind <- MCKind
    Title <- MCTitle
    Priorities = {high, low}
    Absent = Absent
SYMMETRY Interchangeable
INVARIANTS
    ReplyFaithful
    ReplyOrdered
    LoopInv
