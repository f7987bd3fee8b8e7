\* The whole life of a connection, without failures: safety.
SPECIFICATION Spec
CONSTANTS
  ClientScript <- WriteThenFinish
  ServerScript <- OneNormal
  NumRecv = 2
  MayFail = FALSE
  MaxRefused = 0
INVARIANTS
  TypeOK
  InOrder
  OneCopy
  GracefulClose
  ClientResourcesLive
  WriteNeedsPeerMr
  ExchangeEnds
  WritesStayEnabled
PROPERTIES
  WritePlaceGrows
  ImplementsChannel
\* Both programs legitimately come to rest.
CHECK_DEADLOCK FALSE
