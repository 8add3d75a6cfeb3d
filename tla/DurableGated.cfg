SPECIFICATION FairSpec
CONSTANTS
  Sessions = {a, b}
  SnapshotInterval = 2
  MaxWriteAttempts = 2
  TornWrites = FALSE
  MaxMutations = 3
  MaxFaults = 1
  MaxCrashes = 2
  MaxTruncations = 0
INVARIANTS AppliedIsExact WalOrder NoAckedLoss
PROPERTIES KeepsPromise CleanExitLeavesNoTail EventuallyDurable
