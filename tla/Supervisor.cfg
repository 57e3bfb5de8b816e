\* Two nodes, room for one process at a time; one crash, one failure.
CONSTANTS
  Nodes = {app, bsp}
  Pids = {1, 2}
  None = None
  MaxTotal = 1
  Monitors = {bsp}
  MaxCrashes = 1
  MaxFailures = 1
SPECIFICATION FairSpec
INVARIANTS TypeOK   
PROPERTY HungIsKilled
CHECK_DEADLOCK FALSE
