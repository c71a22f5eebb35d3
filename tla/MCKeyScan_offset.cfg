SPECIFICATION ScanSpec
CONSTANTS
  null = null
  Keys <- MCKeys
  Targets <- MCTargets
  MaxInt = 7
  Pages <- MCLimitMax
  Maxes = {1, 2}
  MaxWrites = 1
INVARIANT
  ScanExact
