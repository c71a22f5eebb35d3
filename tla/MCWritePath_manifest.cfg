SPECIFICATION Spec
CONSTANTS
  t1 = t1
  t2 = t2
  t3 = t3
  k1 = k1
  k2 = k2
  v1 = v1
  NULL = NULL
  Deleted = Deleted
  Threads = {t1, t2}
  Keys = {k1, k2}
  Values = {v1}
  Batches <- MCPairBatches
  Syncs = {TRUE}
  WriteBuffer = 0
  MaxGroup = 2
  CompactTrigger = 2
  SlowdownTrigger = 2
  StopTrigger = 2
  MaxCalls = 2
  MaxReads = 0
  MaxErrors = 1
  Faults = {"manifestSync"}
SYMMETRY Symmetry
INVARIANTS
  SyncedDurable
