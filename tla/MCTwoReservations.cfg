CONSTANTS
  Workers = {w1, w2}
  Credits = {c1}
  N = 2
  Due <- MCDue
  Principal <- MCPrincipal
  Receipts = {2}
  Charges = {}
  CashRequests = {}
  CreditsOf <- MCCreditsOf
  ReadAmount <- MCReadAmount
  BankAmount <- MCBankAmount
  E2E <- MCE2E
  Key <- MCNoKeys
  Incoming = {1, 2}
  IncomingAmount <- MCIncomingAmount
  IncomingE2E <- MCIncomingE2E
  Refunded = {}
  FieldOrders = FALSE
  Reviewed = {}
  Overrides = {}
  Policies = {"HOLD"}
  Reconciles = FALSE
  AutoConfirm = {FALSE}
  MaxAttempts = 1
  NoE2E = "noE2E"
  NoKey = "noKey"
  NoCredit = noCredit
SPECIFICATION Spec
CHECK_DEADLOCK FALSE
INVARIANTS
  OneReservationPerPayment
