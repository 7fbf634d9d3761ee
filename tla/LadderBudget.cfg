SPECIFICATION Spec
CONSTANTS
  Grain = 2
  NoBudget = NoBudget
  NoBalance = NoBalance
  None = None
  Error = Error
  Tenants = {t1}
  Operations = {scan}
  Keys = {k1, k2, k3}
  Actors = {ann}
  Months = {0, 1}
  Previews = {p1, p2}
  Attempts = {a1, a2, a3}
  ProfiledActors = {ann, guest}
  CardActors = {ann, stranger}
  PreviewTTL = 1
  MaxClock = 1
  PoolSize = 2
  BillsInline = TRUE
  Faults = {}
  MonthlyCap = 20
  PerRunCap = 12
  Floor = 2
  HardStop = TRUE
  BudgetedMonths = {1}
  Estimates = {8, 11}
  Reprices = {8, 12}
  PreviewBalances = {14}
  Balances = {14}
  Previewers = {ann}
  MonthLength = 1
  PreviewRequests <- MCPreviewRequests
  Requests <- MCRequests
  CostBudgets <- MCBudgets
  MonthOf <- MCMonthOf
INVARIANTS
  BudgetInv
  OverrunBounded
  GatesMatchRefusals
  OneExecutionPerKey
SYMMETRY Symmetry
CHECK_DEADLOCK FALSE
