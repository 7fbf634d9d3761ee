SPECIFICATION Spec
CONSTANTS
  Grain = 4
  NoBudget = NoBudget
  NoBalance = NoBalance
  None = None
  Error = Error
  Tenants = {t1}
  Operations = {scan}
  Keys = {k1}
  Actors = {ann, guest, stranger}
  Months = {0}
  Previews = {p1, p2}
  Attempts = {a1, a2, a3}
  ProfiledActors = {ann, guest}
  CardActors = {ann, stranger}
  PreviewTTL = 1
  MaxClock = 0
  PoolSize = 4
  BillsInline = FALSE
  Faults = {"crash", "dispatch", "connection"}
  MonthlyCap = 100
  PerRunCap = 100
  Floor = 0
  HardStop = TRUE
  BudgetedMonths = {0}
  Estimates = {43}
  Reprices = {43}
  PreviewBalances = {NoBalance}
  Balances = {NoBalance}
  Previewers = {ann}
  MonthLength = 9
  PreviewRequests <- MCPreviewRequests
  Requests <- MCRequests
  CostBudgets <- MCBudgets
  MonthOf <- MCMonthOf
INVARIANTS
  OneApprovalPerKey
  AllOrNothing
  HonestAnswers
  ReplaysAgree
  LadderInv
PROPERTIES
  DispatchIsExclusive
  ImplementsPromise
SYMMETRY Symmetry
CHECK_DEADLOCK FALSE
