SPECIFICATION FairSpec
CONSTANTS
  ClientScript <- OneWrite
  ServerScript <- OneNormal
  NumRecv = 6
  MayFail = FALSE
  MaxRefused = 0
PROPERTY
  ExchangeCompletes
CHECK_DEADLOCK FALSE
