\* NodeLifecycle: two retries, a budget of two seconds, a clock of four.  AtomicFile: one
\* writer.  StateFile: two heartbeat threads, two marks.  EventLog: one orchestrator, killed
\* twice.  Deliverables: two files, one killed build.  ProjectInit: two runs of the wizard.
\* StatusTree: every project of up to three node.toml files.  CycleSearch: every graph of three.
CONSTANTS
  MaxRetries = 2
  MaxWallclock = 2
  U64 = 1000
  ClockMayStepBack = TRUE
  MaxTime = 3
  MaxSequence = 14
  Writers = {w1}
  Readers = {r1, r2}
  Inodes = {i1, i2, i3, i4}
  NoInode = NoInode
  MaxVersion = 5
  BeatThreads = {h1, h2}
  RetryLimit = 1
  DefaultLimit = 3
  LastChange = 2
  MaxStarts = 1
  MaxMarks = 1
  Orchestrators = {o1}
  MaxEntries = 6
  MaxKills = 2
  Artifacts = {a1, a2}
  MaxWrites = 4
  MaxStops = 1
  Modules = {firmware, hal}
  RootModule = firmware
  LlmKeys = {k1, k2}
  NoKey = NoKey
  MaxInits = 2
  MaxEdits = 2
  NodeNames = {app, bsp, drv}
  NoParent = NoParent
  MaxFound = 3
  MaxLines = 2
  Vertices = {v1, v2, v3}
  NoVertex = NoVertex
SPECIFICATION PartsSpec
INVARIANTS TypeOK  FileTypeOK NeverTorn
  StateTypeOK SequenceTellsState ResultIsWritten
  LossPerKill ShownIsKept OnlyAgentOutdates IntegrityTells  EachNodeOnce
  SearchFindsCycles
PROPERTIES DeadIsFinal   ImplementsRegister 
CHECK_DEADLOCK FALSE
