SPECIFICATION LiveSpec
CONSTANTS
  Clients = {c1, c2, c3}
  MaxTx = 3
INVARIANTS FrontierExact
PROPERTIES SnapshotStable CsnEventuallyPublished
CHECK_DEADLOCK FALSE
