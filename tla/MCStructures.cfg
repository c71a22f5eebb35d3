CONSTANTS
  SkipKeys = {1, 2, 3}
  kMaxHeight = 3
  kArenaBlock = 8
  Align = 4
  ArenaSizes = {1, 3}
  MaxBlocks = 3
  Threads = {t1, t2}
  CacheKeys = {1, 2, 3}
  HashOf <- Hashes
  Charges = {1, 2}
  capacity_ = 3
  kMinLength = 1
  MaxHandles = 3
  p1 = p1
  p2 = p2
  a1 = a1
  a2 = a2
  b1 = b1
  LockCallers = {a1, a2, b1}
  ProcessOf <- Process
  NoProcess = NoProcess
  MaxDeaths = 1
  MaxItems = 3
  FileReaders = {f1, f2, f3}
  MmapLimit = 1
SPECIFICATION Spec
INVARIANTS LinksInitialized NothingPassedOver RegionsApart ReferencesExact
           UsageBounded LockExcludes
PROPERTY EveryItemRuns
CHECK_DEADLOCK FALSE
