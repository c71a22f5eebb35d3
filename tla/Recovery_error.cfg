SPECIFICATION RecoverySpec
CONSTANTS
  WriteBuffer = 1
  MaxPuts = 2
  MaxOpens = 3
  MaxFaults = 1
  Faults = {"earlierTable"}
INVARIANT
  AcknowledgedRecoverable
