\* The same with every failure the model knows, and what must happen in the end.
SPECIFICATION FairSpec
CONSTANTS
  ClientScript <- JustFinish
  ServerScript <- OneNormal
  NumRecv = 1
  MayFail = TRUE
  MaxRefused = 1
INVARIANTS
  OneCopy
  GracefulClose
  ClientResourcesLive
  EpollNeverSpins
PROPERTIES
  FinishCloses
  ErrorStops
  ImplementsChannel
CHECK_DEADLOCK FALSE
