SPECIFICATION Spec
CONSTANTS
  Byte = 4
  Significand = 3
  TextDigits = 2
  MaxExponent = 5
  Names = {"", "a"}
  Numbers <- TestNumbers
  Doubles <- TestDoubles
  Strings <- TestStrings
  Arrays <- TestArrays
  Objects <- TestObjects
  Absent = Absent
  Exception = Exception
  MaxCalls = 2
  PageSize = 4
  MapSize = 8
  MaxMapSize = 8
  kBlockSize = 8
  Sizes = {1, 6, 9}
  MaxRecords = 2
  MaxFaults = 1
  Letters = {1, 2}
  MaxInput = 11
  kFragment = 9
  kInputMargin = 3
  Word = 2
  Skips = 3
  TagLiteral = 3
  LengthBase = 4
  MaxCopy = 4
  ShortCopies = 2
  ShortOffsets = 4
  Half = 2
  CopyOverflow = 1
  kMaximumTagLength = 2
  MaxByte = 3
  MaxTag = 5
  TableKeys <- InternalKeys
  MaxEntries = 4
  BlockSizes = {1, 18, 40}
  kFilterBase = 12
  kBlockTrailerSize = 5
  HashOfKey <- HashOfKeys
  HashBits = 4
  Rotation = 1
  Probes = 2
  FilterBits = 8
INVARIANTS
  ReadsBack
  NothingInvented
  AcknowledgedRead
  SyncedRead
  RoundTrip
  InsideArrays
  TableGetsNewest
  BlockIterExact
CHECK_DEADLOCK FALSE
