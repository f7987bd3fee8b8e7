\* A refused ibv_post_send takes none of its requests.
SPECIFICATION FairSpec
CONSTANTS
  NumTasks = 3
  Prefixes = {0}
INVARIANTS
  TypeOK
  PostedOnceInOrder
  TimerTouchesLive
PROPERTY
  HandlerEnds
CHECK_DEADLOCK FALSE
