\* A key handed out in a cycle in which another one rises.
CONSTANTS
  app = app
  bsp = bsp
  hal = hal
  uart = uart
  clock = clock
  pins = pins
  None = None
  Nodes <- ChainNodes
  Keys <- ChainKeys
  Declared <- ChainDeclared
  MayNeed <- ChainMayNeed
  MaxSeq <- ChainMaxSeq
  MaxRounds = 1
  MaxCrashes = 0
SPECIFICATION Spec
PROPERTY ResolvedKeysNeverLost
CHECK_DEADLOCK FALSE
