SPECIFICATION FairSpec
CONSTANTS
  Grain = 1
  NoBudget = NoBudget
  NoBalance = NoBalance
  None = None
  Error = Error
  Tenants = {t1}
  Operations = {scan}
  Keys = {k1}
  Actors = {ann, guest, stranger}
  Months = {0}
  Previews = {p1}
  Attempts = {a1, a2, a3}
  ProfiledActors = {ann, guest}
  CardActors = {ann, stranger}
  PreviewTTL = 1
  MaxClock = 0
  PoolSize = 4
  BillsInline = FALSE
  Faults = {"crash", "dispatch", "connection"}
  MonthlyCap = 100
  PerRunCap = 100
  Floor = 0
  HardStop = TRUE
  BudgetedMonths = {0}
  Estimates = {10}
  Reprices = {10}
  PreviewBalances = {NoBalance}
  Balances = {NoBalance}
  Previewers = {ann}
  MonthLength = 9
  PreviewRequests <- MCPreviewRequests
  Requests <- MCRequests
  CostBudgets <- MCBudgets
  MonthOf <- MCMonthOf
PROPERTIES
  EveryCallEnds
CHECK_DEADLOCK FALSE
