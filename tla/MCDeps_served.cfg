\* A requester that is slow to poll.
CONSTANTS
  app = app
  bsp = bsp
  hal = hal
  uart = uart
  clock = clock
  pins = pins
  None = None
  Nodes <- PairNodes
  Keys <- PairKeys
  Declared <- PairDeclared
  MayNeed <- PairMayNeed
  MaxSeq <- PairMaxSeq
  MaxRounds = 1
  MaxCrashes = 0
SPECIFICATION Spec
PROPERTY OnlyOrphansDie
CHECK_DEADLOCK FALSE
