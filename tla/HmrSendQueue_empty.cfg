SPECIFICATION Spec
CONSTANTS
  NumTasks = 3
  Prefixes = {0}
INVARIANT
  ListEmptyTells
CHECK_DEADLOCK FALSE
