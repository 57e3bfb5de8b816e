\* A process that boots while the orchestrator is restarted.
CONSTANTS
  Nodes = {app, bsp}
  Pids = {1, 2}
  None = None
  MaxTotal = 1
  Monitors = {bsp}
  MaxCrashes = 1
  MaxFailures = 1
SPECIFICATION Spec
INVARIANT BootingIsHealthy
CHECK_DEADLOCK FALSE
