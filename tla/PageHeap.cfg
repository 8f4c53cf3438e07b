SPECIFICATION Spec
CONSTANTS
    t0 = t0
    t1 = t1
    t2 = t2
    t3 = t3
    t4 = t4
    NoTx = NoTx
    Txs = {t0, t1, t2, t3}
    Loader = t0
    OldRows = 1
    ReadCommitted = {}
    Rows = {1, 2}
    MaxPages = 3
    PageCells = 2
    MaxOps = 3
    MaxVacuums = 1
    Hazards = {}
SYMMETRY Symmetry
INVARIANTS
    TypeOK
    ReadsSnapshot
    HeadsAreReadable
    NoLostUpdate
    RefusalHasCause
CHECK_DEADLOCK FALSE
