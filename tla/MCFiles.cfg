SPECIFICATION Spec
CONSTANTS
  Keys = {1, 2}
  Types = {0, 1}
  NONE = NONE
  kNumLevels = 4
  kMaxMemCompactLevel = 1
  kL0_CompactionTrigger = 2
  LevelBytes = 2
  MaxFileSize = 1
  GrandParentBytes = 1
  ExpandedBytes = 4
  Ranges <- Whole
  MaxWrites = 3
  MaxSeeks = 1
  MaxManual = 1
  MaxSnapshots = 1
  MaxReaders = 1
  MaxErrors = 1
  MaxEvents = 2
  WriteBuffer = 1
  MaxPuts = 2
  MaxOpens = 3
  MaxFaults = 1
  Faults = {"table", "newFile", "manifest", "manifestSync", "current", "logRead"}
INVARIANTS
  GetsNewest
  TablesPresent
  AutomaticDisjoint
  AcknowledgedRecoverable
  SyncedRecoverable
  SequencesGrow
  NothingLeft
CHECK_DEADLOCK FALSE
