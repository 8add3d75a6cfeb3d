SPECIFICATION Spec
CONSTANTS
  Sessions = {a, b}
  SnapshotInterval = 2
  MaxWriteAttempts = 2
  TornWrites = TRUE
  MaxMutations = 2
  MaxFaults = 1
  MaxCrashes = 1
  MaxTruncations = 0
INVARIANT NoAckedLoss
