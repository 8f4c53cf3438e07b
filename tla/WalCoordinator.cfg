SPECIFICATION FairSpec
CONSTANTS
  Clients = {c1, c2}
  c1 = c1
  c2 = c2
  Writer = Writer
  MaxRecords = 3
  BufferRecords = 2
  BatchRecords = 1
  Levels = {"Strict", "Normal"}
  FlushOnShutdown = TRUE
  MayFail = TRUE
INVARIANTS
  QueueContinuesLog
  AckedIsDurable
PROPERTIES
  ImplementsDurableLog
  CallReturns
  DropReturns
