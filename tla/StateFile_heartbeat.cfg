\* One process and its heartbeat thread; no mark.
CONSTANTS
  BeatThreads = {h1}
  RetryLimit = 1
  DefaultLimit = 3
  LastChange = 2
  MaxStarts = 1
  MaxMarks = 0
SPECIFICATION StateSpec
PROPERTY SaveUpdatesHeartbeat
CHECK_DEADLOCK FALSE
