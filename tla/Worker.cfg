SPECIFICATION FairSpec
CONSTANTS
  Callers = {f, g}
  Closers = {g}
  HasEndHook = TRUE
  MaxWriteAttempts = 2
  MaxJobs = 2
  MaxFaults = 2
  MaxCancels = 1
INVARIANTS FuturesAreHonest LandsInOrder FlushIsBarrier HookIsBehindBarrier
PROPERTIES EveryoneIsAnswered
CHECK_DEADLOCK FALSE
