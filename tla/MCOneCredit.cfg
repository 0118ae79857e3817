SPECIFICATION MCSpec
CONSTANTS
  Plans = {1, 2}
  c1 = c1
  c2 = c2
  w1 = w1
  w2 = w2
  e1 = e1
  e2 = e2
  NoE2E = noE2E
  Credits = {c1}
  Payments = {1, 2, 3, 4}
  N = 3
  Due <- MCDue
  Principal <- MCPrincipal
  Amounts = {1, 2, 3, 4, 5, 6, 7, 8, 9}
  Claims = {1, 2, 3}
  Incoming = {1, 2}
  ReadAmounts = {1, 2}
  E2EIds = {e1, e2}
  Admins = {w1, w2}
  Terms = {1, 2}
  NoPlan = NoPlan
  Null = Null
  Idle = Idle
  Coordinators = {c1, c2}
  Messages = {1, 2}
  Principals <- MCPrincipals
  Limit = 6
  MaxCredits = 2
  MaxOffers = 2
  NoOne = NoOne
CHECK_DEADLOCK FALSE
INVARIANT OneCreditPerApplication
