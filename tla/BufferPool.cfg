SPECIFICATION Spec
CONSTANTS
    c1 = c1
    c2 = c2
    c3 = c3
    cp = cp
    Clients = {c1, c2}
    Flusher = cp
    OldPages = 1
    MaxPages = 2
    Capacity = 1
    Frames = {1, 2, 3}
    UsageCap = 1
    MaxChanges = 1
    MayFail = TRUE
    Hazards = {}
SYMMETRY Symmetry
INVARIANTS
    TypeOK
    PinnedIsResident
    NoChangeLost
    
    WaitersAreServed
CHECK_DEADLOCK FALSE
