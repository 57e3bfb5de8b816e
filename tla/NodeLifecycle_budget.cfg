\* The budget runs out while the node is planning; the clock never steps back.
CONSTANTS
  MaxRetries = 2
  MaxWallclock = 2
  U64 = 1000
  ClockMayStepBack = FALSE
  MaxTime = 3
  MaxSequence = 5
SPECIFICATION Spec
INVARIANT ReportedDeadIsDead
CHECK_DEADLOCK FALSE
