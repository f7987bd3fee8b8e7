\* A queue of three entries, up to three work requests outstanding.
SPECIFICATION FairSpec
CONSTANTS
  CqSize = 3
  MaxWr = 3
  Total = 7
INVARIANTS
  TypeOK
  NoLostWakeup
  OneEvent
PROPERTY
  CompletionsPolled
CHECK_DEADLOCK FALSE
