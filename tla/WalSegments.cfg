SPECIFICATION Spec
CONSTANTS
  SegmentBytes = 5
  Sizes = {2, 4}
  MaxRecords = 6
  MaxCrashes = 1
  ReorderedWrites = FALSE
CHECK_DEADLOCK FALSE
INVARIANTS DurableRecordsRecovered  LogCoversCheckpoint
