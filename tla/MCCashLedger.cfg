CONSTANTS
  Workers = {w1, w2}
  RouteBoxes = {2}
  OfficeBoxes = {3}
  BankBoxes = {4}
  Collectors = {a, b}
  Remittances = {11, 12}
  Counts = {1}
  Amounts = {1}
  Ops = {"pix", "transfer", "adjust", "mine", "pay", "out", "submit", "receive", "close"}
  Reassigns = TRUE
  MaxMoved = 1
  Nobody = nobody
SPECIFICATION MCSpec
CHECK_DEADLOCK FALSE
INVARIANTS
  LedgerInv
  SummaryMatchesLedger
PROPERTIES
  EveryTransactionEnds
  AdjustmentSealsCount
  NoClosureWhileOpen
  ReceivedIsFinal
