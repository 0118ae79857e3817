CONSTANTS
  Collectors = {ana}
  RouteBoxes = {route}
  OfficeBoxes = {}
  BankBoxes = {bank}
  Orders = {x1, x2}
  Expenses = {e1}
  BankCredits = {b1}
  Phones = {p1}
  Reviewers = {y1, y2}
  Closable = {bank}
  Amounts = {1, 2}
  MaxIncome = 2
  MaxFiles = 2
  MaxEvents = 4
  None = none
  Credits = {c1}
  Keys = {y1, y2}
  Threads = {x1, x2}
  Threshold = 1
  MaxStops = 2
  MaxCalls = 2
  MaxOverdue = 2
  MaxHistory = 3
  MaxDays = 2
  MaxCrashes = 1
SPECIFICATION MCSpec
CHECK_DEADLOCK FALSE
SYMMETRY Symmetry
INVARIANTS
  MoneySafe
  TrailSafe
  StopsSafe
  AnswerIsTrue
PROPERTIES
  ClosedIsFinal
