SPECIFICATION LogSpec
CONSTANTS
  PageSize = 4
  MapSize = 8
  MaxMapSize = 8
  kBlockSize = 8
  Sizes = {1, 2, 6}
  MaxRecords = 3
  MaxFaults = 1
INVARIANTS
  AcknowledgedReadAnyway
