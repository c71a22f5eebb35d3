CONSTANTS
  Keys = {1, 2, 3}
  Types = {1}
  NONE = NONE
  kNumLevels = 4
  kMaxMemCompactLevel = 2
  kL0_CompactionTrigger = 2
  LevelBytes = 2
  MaxFileSize = 1
  GrandParentBytes = 1
  ExpandedBytes = 4
  Ranges <- Whole
  MaxWrites = 4
  MaxSeeks = 1
  MaxManual = 0
  MaxSnapshots = 1
  MaxReaders = 0
  MaxErrors = 0
  MaxEvents = 2
SPECIFICATION CompactionSpec
INVARIANT LowerLevelsNewer
CHECK_DEADLOCK FALSE
