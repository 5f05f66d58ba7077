SPECIFICATION FairSpec
CONSTANTS
  Execution = {e1}
  Task = {t1, t2}
  c1 = c1
  c2 = c2
  Caller = {c1}
  MaySend <- MCRunOnly
  Steps = 2
  MaxRetries = 1
  AgentStateIsEnum = FALSE
  Faults = FALSE
  MaxCrashes = 0
  NoTask = NoTask
  Stale = Stale
  NoExec = NoExec
PROPERTY RunsThePipeline
CHECK_DEADLOCK FALSE
