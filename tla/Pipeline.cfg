CONSTANTS
  left = left
  right = right
  FREE = FREE
  Plan <- ToolEachTransform
  Items = {left, right}
  Inner = 2
  MaxParallel = 2
  Retries = 1
  Launches <- FourLaunches
  MaxResume = 1
  MaxCrashes = 3
SPECIFICATION FairSpec
CHECK_DEADLOCK FALSE
INVARIANTS
  MarkerIsHonest
PROPERTIES
  RecordedNeverFires
  TerminalIsFinal
  SomeoneIsTold
  RunIsDecided
