SPECIFICATION FairSpec
CONSTANTS
  x1 = x1
  x2 = x2
  t1 = t1
  t2 = t2
  t3 = t3
  a1 = a1
  Execution = {x1, x2}
  Task = {t1, t2, t3}
  Agent = {a1}
  Waiter = {w1}
  Client = {d1}
  ExecOf <- MCExecOf
  AgentOf <- MCAgentOf
  Deps <- MCDeps
  MaxConcurrent = 1
  MaxChanges = 2
  Interrupts = TRUE
  NoTask = NoTask
  NoExecution = NoExecution
INVARIANTS
  TypeOK
  LoadAccounted
  DependenciesFirst
  OneDispatchPerTask
  BothOutcomesMeanInterrupted
PROPERTIES
  NothingStartsAfterCancel
  CompletedMeansAll
  WaitersLeave
CHECK_DEADLOCK FALSE
