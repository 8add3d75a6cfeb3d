SPECIFICATION FairSpec
CONSTANTS
  first = first
  second = second
  Tasks = {first, second}
  Mixes <- WithAPrompt
  NOTASK = NOTASK
  MaxLag = 2
  MaxResets = 1
INVARIANTS MemoryIsJournal NeverForgotten
PROPERTIES WatchedTaskIsTold
CHECK_DEADLOCK FALSE
