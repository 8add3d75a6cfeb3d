SPECIFICATION Spec
CONSTANTS
  Sessions = {a, b}
  SnapshotInterval = 2
  MaxWriteAttempts = 2
  TornWrites = FALSE
  MaxMutations = 3
  MaxFaults = 1
  MaxCrashes = 1
  MaxTruncations = 2
INVARIANT AppliedNeverAheadOfWal
PROPERTY PinnedTailSurvives
