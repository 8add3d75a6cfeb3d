SPECIFICATION Spec
CONSTANTS
  Sessions = {a, b}
  GLOBAL_SCOPE = GLOBAL_SCOPE
  InputDuringRewind = FALSE
  MaxHead = 4
  MaxCuts = 1
  MaxCrashes = 1
  MaxTruncations = 1
SYMMETRY SessionSymmetry
INVARIANTS StateIsActiveBranch GenerationsAreExact AbandonedStaysDead
CHECK_DEADLOCK FALSE
