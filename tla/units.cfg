SPECIFICATION FairSpec
CONSTANTS
  l1 = l1
  l2 = l2
  io = io
  Lines = {l1, l2}
  IoLines = {io}
  Region <- Regions
  Beats = 3
  MaxVersion = 2
  WriteQueue = 2
  ChannelDepth = 2
  FabricOrders = TRUE
  Pages = {1, 2}
  Levels = 3
  InFlight = 2
  c1 = c1
  c2 = c2
  c4 = c4
  c0 = c0
  Groups = 4
  Csr = {c0, c1, c2, c4}
  GroupOf <- CsrGroups
  DebugNeedsHalt = TRUE
  Xlen = 4
  DivStages = 2
  SupervisorMode = TRUE
  UserTraps = FALSE
  Interrupt = {1}
  Exception = {11}
  handler = handler
  CodeAddr = {handler}
  HandlerOf <- Handlers
INVARIANTS
  BurstsAreLines
  ReadsAreFresh
  DivisionExact
PROPERTIES
  DivisionEnds
  BusProgress
  WalkAnswersAsker
  WalkProgress
  CsrAnswersOwn
  CsrAppliedOnce
  CsrProgress
  ReturnsToInterrupted
  InterruptsWhereEnabled
