\* FeedbackLoop: three instants, scans meant to come every second, bad records; one
\* kind of fault, at any time.  StateFile: one process, two heartbeat threads, no mark.
CONSTANTS
  Interval = 1
  Values = {1}
  Bad = {1}
  MaxGap = 0
  WindowSize = 2
  Critical = {"content", "heartbeat"}
  MaxTime = 2
  MaxRecords = 2
  MaxFaults = 1
  BeatThreads = {h1, h2}
  RetryLimit = 1
  DefaultLimit = 3
  LastChange = 1
  MaxStarts = 1
  MaxMarks = 0
SPECIFICATION NodeSpec
INVARIANTS TypeOK EvaluatedOnce 
PROPERTIES  BeatsStop BeatIsRepaired
CHECK_DEADLOCK FALSE
