SPECIFICATION Spec
CONSTANTS
  SbId = {b1, b2}
  StSession = {s1}
  StSocket = {w1, w2}
  StMessage = {1, 2}
  StUser = {u1, u2}
  WhDelivery = {d1, d2}
  PlPlugin = {"p", "q"}
  PlNeeds <- MCNeeds
  PlVersion = {1, 2}
  PlAccepts <- MCAccepts
  PlOp = {o1, o2}
  PlRegistrations <- MCRegistrations
  InTimeout <- MCTimeout
  InInterval = 2
  InStarts = 2
  RlClient = {c1}
  RlLimit = 2
  RlMinute = 2
  RlToken = {x1}
  RlLifetime = 1
  RlEnd = 3
  WsSearch = {1, 2, 3}
  WsQuery = {"q1", "q2"}
  WsBucket = 1
  WsLifetime = 1
  WsAttempts = 2
  WsEnd = 2
  AcEmail = {e1}
  AcRequest = {r1, r2}
  AcRole = {"viewer"}
  AcPermission = {"read", "write"}
  AcOf <- MCOf
  AcKey = {k1}
  AcRows = 2
  AcEnd = 1
  MeChar <- MCChar
  MeName <- MCName
  MeSession <- MCSession
  MePlan <- MCPlan
  MeLimit = 1
  MeEntries = 3
INVARIANTS
  TypeOK
  TablesSound
  ClocksSound
  RecordsSound
PROPERTIES
  ServicesEnd
CHECK_DEADLOCK FALSE
