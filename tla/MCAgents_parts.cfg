SPECIFICATION Spec
CONSTANTS
  PtBatches <- MCBatches
  PtSlots = 2
  PtDependencies <- MCDependencies
  WfParallel = {"research", "backend"}
  WfRetries = 1
  AlLoop = {l1, l2}
  AlMaxIterations = 2
  AlMaxTools = 1
  AlMaxSpecs = 2
  AlNoService = AlNoService
  ImLoop = {i1}
  ImMaxIterations = 2
  BcChat = {c1}
  BcProvider = {"google", "ollama"}
  BcNone = BcNone
  MrEnabled = {1, 2, 3}
  MrModel <- MCModel
  MrRule <- MCRule
  MrRequest <- MCRequest
  MrMeasured = {0, 4, 30}
  MrMaxReports = 1
  PgGeneration = {g1, g2}
  PgProject = {n1}
  PgPrompts <- MCPrompts
  PgGiven <- MCGiven
  BrUser = {a1, a2}
  BrSession = {b1}
  BrPages = 2
  BrDrivers = 2
  BrNobody = BrNobody
  TtServer = {"s1", "s2"}
  TtOffers <- MCOffers
  TtNative = {"browser"}
  TtFunction = {"web_search"}
  TtCaller = {c1}
  TtNobody = "nobody"
INVARIANTS
  TypeOK
  LoopsSound
  WorkSound
  ChatsSound
PROPERTIES
  AgentsEnd
CHECK_DEADLOCK FALSE
