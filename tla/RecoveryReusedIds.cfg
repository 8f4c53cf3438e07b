SPECIFICATION Spec
CONSTANTS
    Rows = {1}
    MaxTx = 2
    MaxRecords = 5
    MaxRestarts = 2
    MaxCheckpoints = 1
    PageCells = 2
    Hazards = {"reuse"}
INVARIANTS
    ReadsCommitted
CHECK_DEADLOCK FALSE
