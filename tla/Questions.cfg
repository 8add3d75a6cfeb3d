SPECIFICATION FairSpec
CONSTANTS
  first = first
  second = second
  Questions = {first, second}
  Mixes <- AnyTwo
  MaxLag = 1
  MaxResets = 2
INVARIANTS JournalIsQueue HeadIsShown NoQuestionIsLost
PROPERTIES QueueIsRefused
CHECK_DEADLOCK FALSE
