SPECIFICATION Spec
CONSTANTS
  Verbs <- TwoDevices
  MaxFailures = 2
INVARIANTS
  TypeOK
  DevListHoldsDevices
  DevListLinked
  HandlersLive
  UseOnlyLive
  FailuresKeepNothing
  ExitReleases
CHECK_DEADLOCK FALSE
