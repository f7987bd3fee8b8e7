\* The sizes of the code.
SPECIFICATION Spec
CONSTANTS
  CqSize = 20
  MaxWr = 256
  Total = 256
INVARIANT
  CqHoldsWorkRequests
CHECK_DEADLOCK FALSE
