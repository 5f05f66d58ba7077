SPECIFICATION Spec
CONSTANTS
  s1 = s1
  s2 = s2
  t1 = t1
  r1 = r1
  r2 = r2
  Server = {s1}
  Tool = {t1}
  Offers <- MCShared
  Client = {c1, c2}
  Requester = {r1, r2}
  MayAsk <- MCTwo
  Slot = {b1, b2}
  MaxRetries = 2
  NoServer = NoServer
  NoClient = NoClient
  NoTask = NoTask
  Ended = Ended
INVARIANTS
  TypeOK
  ServedRuns
  HandlersLive
  ReportedIsServed
PROPERTIES
  StopEndsProcess
  StopEndsCalls
CHECK_DEADLOCK FALSE
SYMMETRY MCSymmetry
