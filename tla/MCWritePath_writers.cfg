SPECIFICATION FairSpec
CONSTANTS
  t1 = t1
  t2 = t2
  t3 = t3
  k1 = k1
  k2 = k2
  v1 = v1
  NULL = NULL
  Deleted = Deleted
  Threads = {t1, t2, t3}
  Keys = {k1}
  Values = {v1}
  Batches <- MCNullBatches
  Syncs = {FALSE, TRUE}
  WriteBuffer = 0
  MaxGroup = 2
  CompactTrigger = 1
  SlowdownTrigger = 1
  StopTrigger = 1
  MaxCalls = 3
  MaxReads = 0
  MaxErrors = 1
  Faults = {"newFile", "append", "sync", "table", "compaction", "manifest"}
INVARIANTS
  SyncedDurable
  LoneLeader
  SequencesUnique
PROPERTIES
  WriteReturns
  CloseReturns
