SPECIFICATION Spec
CONSTANTS
  Sessions = {a}
  GLOBAL_SCOPE = GLOBAL_SCOPE
  MaxHead = 6
INVARIANTS ActiveIsLineage ActivePredecessorIsOnLineage
CHECK_DEADLOCK FALSE
