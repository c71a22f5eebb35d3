SPECIFICATION ScanSpec
CONSTANTS
  null = null
  Keys <- MCKeys
  Targets <- MCTargets
  MaxInt = 7
  Pages <- MCPages
  Maxes = {1, 2}
  MaxWrites = 1
INVARIANT
  FinishedIsClosed
