CONSTANTS
  Keys = {1, 2, 3}
  Types = {1}
  NONE = NONE
  kNumLevels = 4
  kMaxMemCompactLevel = 2
  kL0_CompactionTrigger = 4
  LevelBytes = 10
  MaxFileSize = 3
  GrandParentBytes = 10
  ExpandedBytes = 4
  Ranges <- Whole
  MaxWrites = 5
  MaxSeeks = 0
  MaxManual = 1
  MaxSnapshots = 0
  MaxReaders = 0
  MaxErrors = 0
  MaxEvents = 1
SPECIFICATION CompactionSpec
INVARIANT MustNotOverlap
CHECK_DEADLOCK FALSE
