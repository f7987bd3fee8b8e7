SPECIFICATION PoolSpec
CONSTANTS
  Slots = 6
  Spare = 2
  AllocMemSize = 8
  Lengths <- ClientLengths
INVARIANTS
  PoolTypeOK
  ClientBuffersExclusive
  PostersExclusive
  SendBuffersExclusive
CHECK_DEADLOCK FALSE
