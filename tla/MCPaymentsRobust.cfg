CONSTANTS
  Workers = {w1, w2}
  Credits = {c1}
  N = 2
  Due <- MCDue
  Principal <- MCPrincipal
  Receipts = {1, 2}
  Charges = {}
  CashRequests = {4}
  CreditsOf <- MCCreditsOf
  ReadAmount <- MCReadAmount
  BankAmount <- MCBankAmount
  E2E <- MCE2E
  Key <- MCKey
  Incoming = {1}
  IncomingAmount <- MCIncomingAmount
  IncomingE2E <- MCIncomingE2E
  Refunded = {}
  FieldOrders = FALSE
  Reviewed = {1}
  Overrides = {1}
  Policies = {"HOLD", "ALLOCATE"}
  Reconciles = TRUE
  AutoConfirm = {TRUE, FALSE}
  MaxAttempts = 1
  NoE2E = "noE2E"
  NoKey = "noKey"
  NoCredit = noCredit
  Texts = {1, 2, 3}
  Handlers = {w1, w2}
  MaxDue = 2
  MaxSessions = 2
  MaxFailures = 1
  Bots = {1, 2}
  BotZones = {"north"}
  Chats = {1, 2}
  Phones = {1}
  NoPhone = 0
  Calls = {w1, w2}
  MaxHooks = 2
  MaxTokens = 2
  MaxFaults = 1
  MaxUpsets = 1
  MaxTexts = 3
  Zones = {1, 2, 3}
  Labels = {"north", "east"}
  Root = 0
  Heads = {"head"}
  Clients = {1, 2}
  Tasks = {w1, w2}
  MaxNames = 1
  MaxAssigned = 1
  MaxReplaced = 3
  Admins = {"boss", "heir"}
  Coordinators = {"head"}
  Agents = {"walker"}
  Hired = {"boss", "head"}
  SignedIn = {"boss", "head"}
  Instances = {1, 2}
  Requests = {w1, w2}
  ZoneSets <- MCZoneSets
  StatusTTL = 1
  AccessTTL = 2
  RefreshTTL = 3
  MaxClock = 3
  MaxPairs = 3
  MaxChanges = 1
  MaxCalls = 3
  Worlds = {"payments", "photograph", "access", "zones", "portfolio"}
  BoxOrder <- MCBoxOrder
  BoxZone <- MCBoxZone
  ZonePaths <- MCZonePaths
  Collectors = {"k1", "k2"}
  Amounts = {3}
  RateScale = 2
  Configs <- Commissions
  MaxMoves = 3
  NoCollector = "nobody"
SPECIFICATION MCSpec
SYMMETRY Symmetry
CHECK_DEADLOCK FALSE
INVARIANTS
  KnowledgeInv
  PortfolioConsistent
  VerifiedIsBacked
  VisibilitySafe
  PhotographAddsUp
