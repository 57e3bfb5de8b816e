\* Two nodes that need each other; nothing crashes.
CONSTANTS
  app = app
  bsp = bsp
  hal = hal
  uart = uart
  clock = clock
  pins = pins
  None = None
  Nodes <- PairNodes
  Keys <- PairKeys
  Declared <- PairDeclared
  MayNeed <- PairMayNeed
  MaxSeq <- PairMaxSeq
  MaxRounds = 1
  MaxCrashes = 0
SPECIFICATION FairSpec
PROPERTIES ValuesArrive OnlyCirclesDie
CHECK_DEADLOCK FALSE
