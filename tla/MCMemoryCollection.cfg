SPECIFICATION MemorySpec
CONSTANTS
  Agents = {a}
  TurnLimit = 1
  Batch = 1
  MaxSessions = 2
  MaxRecords = 2
  MaxMishaps = 1
  MaxTasks = 1
  a = a
INVARIANTS
  MemoryTypeOK
  NothingUnannounced
  SkippedOnlyInWindow
PROPERTIES
  AgainOnlyIfUnmarked
  EveryRecordIsProcessed
CHECK_DEADLOCK FALSE
