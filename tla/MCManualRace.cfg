CONSTANTS
  Workers = {w1, w2}
  Credits = {c1}
  N = 2
  Due <- MCDue
  Principal <- MCPrincipal
  Receipts = {1}
  Charges = {}
  CashRequests = {}
  CreditsOf <- MCCreditsOf
  ReadAmount <- MCReadAmount
  BankAmount <- MCBankAmount
  E2E <- MCE2E
  Key <- MCKey
  Incoming = {}
  IncomingAmount <- MCIncomingAmount
  IncomingE2E <- MCIncomingE2E
  Refunded = {}
  FieldOrders = FALSE
  Reviewed = {1}
  Overrides = {}
  Policies = {"HOLD"}
  Reconciles = FALSE
  AutoConfirm = {TRUE}
  MaxAttempts = 1
  NoE2E = "noE2E"
  NoKey = "noKey"
  NoCredit = noCredit
SPECIFICATION Spec
CHECK_DEADLOCK FALSE
PROPERTIES
  VerifiedIsFinal
