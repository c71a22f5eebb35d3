SPECIFICATION ScansSpec
CONSTANTS
  null = null
  Keys <- MCKeys
  Targets <- MCTargets
  MaxInt = 7
  Pages <- MCPages
  Maxes = {1, 2}
  MaxWrites = 1
  UserKeys = {1, 3}
  NONE = NONE
  Entries = 3
  Inserts = 1
INVARIANTS
  ScanExact
  IteratorExact
  HasNextTells
PROPERTIES
  IterationEnds
  IteratesSnapshot
