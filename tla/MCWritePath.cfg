SPECIFICATION Spec
CONSTANTS
  t1 = t1
  t2 = t2
  t3 = t3
  k1 = k1
  k2 = k2
  v1 = v1
  NULL = NULL
  Deleted = Deleted
  Threads = {t1, t2}
  Keys = {k1, k2}
  Values = {v1}
  Batches <- MCPairBatches
  Syncs = {FALSE}
  WriteBuffer = 0
  MaxGroup = 3
  CompactTrigger = 1
  SlowdownTrigger = 1
  StopTrigger = 1
  MaxCalls = 3
  MaxReads = 1
  MaxErrors = 0
  Faults = {}
SYMMETRY Symmetry
INVARIANTS
  MemTablesExact
PROPERTY
  LinearizableStore
