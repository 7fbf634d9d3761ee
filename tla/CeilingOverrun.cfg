SPECIFICATION Spec
CONSTANTS
  Grain = 1
  NoBudget = NoBudget
  NoBalance = NoBalance
  None = None
  Error = Error
  Tenants = {t1}
  Operations = {scan}
  Keys = {k1, k2}
  Actors = {ann}
  Months = {0}
  Previews = {p1}
  Attempts = {a1, a2}
  ProfiledActors = {ann, guest}
  CardActors = {ann, stranger}
  PreviewTTL = 1
  MaxClock = 0
  PoolSize = 4
  BillsInline = TRUE
  Faults = {}
  MonthlyCap = 10
  PerRunCap = 100
  Floor = 0
  HardStop = TRUE
  BudgetedMonths = {0}
  Estimates = {10}
  Reprices = {10}
  PreviewBalances = {NoBalance}
  Balances = {NoBalance}
  Previewers = {ann}
  MonthLength = 9
  PreviewRequests <- MCPreviewRequests
  Requests <- MCRequests
  CostBudgets <- MCBudgets
  MonthOf <- MCMonthOf
INVARIANTS
  SpendWithinCeiling
SYMMETRY Symmetry
CHECK_DEADLOCK FALSE
