SPECIFICATION Spec
CONSTANTS
  Execution = {e1}
  Task = {t1, t2}
  c1 = c1
  c2 = c2
  Caller = {c1, c2}
  MaySend <- MCTwoRetriers
  Steps = 2
  MaxRetries = 1
  AgentStateIsEnum = TRUE
  Faults = TRUE
  MaxCrashes = 1
  NoTask = NoTask
  Stale = Stale
  NoExec = NoExec
INVARIANT SoundAfterCrash
SYMMETRY TaskSymmetry
CHECK_DEADLOCK FALSE
