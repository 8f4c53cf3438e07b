SPECIFICATION Spec
CONSTANTS
    w1 = w1
    w2 = w2
    r1 = r1
    Writers = {w1, w2}
    Readers = {r1}
    Inserts <- MCInserts
    Deletes <- MCDeletes
    Queries <- MCQueries
    Preload <- MCPreload
    Width = 3
    LeafCap = 2
    NodeCap = 2
    MaxPages = 10
    MaxCalls = 1
    MaxBatch = 2
    Unique = TRUE
    Hazards = {}
INVARIANTS
    TypeOK
    EntriesReachable
    ReadsExact
    
PROPERTIES
    CallsReturn
CHECK_DEADLOCK FALSE
