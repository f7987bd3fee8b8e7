SPECIFICATION FairSpec
CONSTANTS
  Client = {c1, c2}
  NULL = NULL
  MayFail = TRUE
INVARIANTS
  TypeOK
  StackHoldsWaiting
  LoopEndsOnError
PROPERTY
  AllGreeted
CHECK_DEADLOCK FALSE
