SPECIFICATION Spec
CONSTANTS
  Grain = 1
  NoBudget = NoBudget
  NoBalance = NoBalance
  None = None
  Error = Error
  Tenants = {t1, t2}
  Operations = {scan, post}
  Keys = {k1}
  Actors = {ann}
  Months = {0}
  Previews = {p1}
  Attempts = {a1, a2}
  ProfiledActors = {ann, guest}
  CardActors = {ann, stranger}
  PreviewTTL = 1
  MaxClock = 2
  PoolSize = 4
  BillsInline = FALSE
  Faults = {}
  MonthlyCap = 100
  PerRunCap = 11
  Floor = 2
  HardStop = TRUE
  BudgetedMonths = {0}
  Estimates = {10}
  Reprices = {11, 12}
  PreviewBalances = {NoBalance}
  Balances = {NoBalance, 12}
  Previewers = {ann}
  MonthLength = 9
  PreviewRequests <- MCPreviewRequests
  Requests <- MCRequests
  CostBudgets <- MCBudgets
  MonthOf <- MCMonthOf
INVARIANTS
  EffectsArePriced
SYMMETRY Symmetry
CHECK_DEADLOCK FALSE
