SPECIFICATION Spec
CONSTANTS
  ClientScript <- OneWrite
  ServerScript <- OneNormal
  NumRecv = 6
  MayFail = FALSE
  MaxRefused = 0
INVARIANT
  UnlinkedTasksComplete
CHECK_DEADLOCK FALSE
