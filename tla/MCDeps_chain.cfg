\* One requester, one provider, two keys; crashes and exits.
CONSTANTS
  app = app
  bsp = bsp
  hal = hal
  uart = uart
  clock = clock
  pins = pins
  None = None
  Nodes <- ChainNodes
  Keys <- ChainKeys
  Declared <- ChainDeclared
  MayNeed <- ChainMayNeed
  MaxSeq <- ChainMaxSeq
  MaxRounds = 1
  MaxCrashes = 2
SPECIFICATION Spec
INVARIANTS TypeOK BlockedHasNeeds ResolvedProvenance NotifiedOnce 
PROPERTY ImplementsFeed
CHECK_DEADLOCK FALSE
