\* Three nodes in a ring, one key each; nothing crashes.
CONSTANTS
  app = app
  bsp = bsp
  hal = hal
  uart = uart
  clock = clock
  pins = pins
  None = None
  Nodes <- RingNodes
  Keys <- RingKeys
  Declared <- RingDeclared
  MayNeed <- RingMayNeed
  MaxSeq <- RingMaxSeq
  MaxRounds = 1
  MaxCrashes = 0
SPECIFICATION FairSpec
PROPERTIES DeadlockBroken 
CHECK_DEADLOCK FALSE
