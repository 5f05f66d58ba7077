SPECIFICATION Spec
CONSTANTS
  Execution = {e1}
  Task = {t1, t2}
  c1 = c1
  c2 = c2
  Caller = {c1, c2}
  MaySend <- MCOneRetrier
  Steps = 2
  MaxRetries = 1
  AgentStateIsEnum = TRUE
  Faults = FALSE
  MaxCrashes = 0
  NoTask = NoTask
  Stale = Stale
  NoExec = NoExec
INVARIANTS
  TypeOK
  OneRunner
  CompletedRanEveryStep
  CompletedSawSuccess
  CheckpointSound
  FailedIsExplained
  LockHasWriter
PROPERTY ImplementsPipeline
CHECK_DEADLOCK FALSE
SYMMETRY TaskSymmetry
