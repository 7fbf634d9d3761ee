------------------------------ MODULE MCLadder ------------------------------
(* Small instances of the ladder.  Every tenant has the same budget row in *)
(* every budgeted month; previews and requests range over all combinations *)
(* of the sets a configuration names.                                      *)
EXTENDS LadderImplements, TLC

CONSTANTS MonthlyCap, PerRunCap, Floor, HardStop, BudgetedMonths,
          Estimates,        \* what create_preview() is asked to quote
          Reprices,         \* what execute() is asked to spend
          PreviewBalances,  \* provider balances at preview time
          Balances,         \* and at execute time
          Previewers,       \* actors that ask for previews
          MonthLength       \* ticks in a month

MCMonthOf(t) == t \div MonthLength
MCBudgets ==
  [t \in Tenants |-> [m \in Months |->
    IF m \in BudgetedMonths
    THEN [monthly_cap |-> MonthlyCap, per_run_cap |-> PerRunCap,
          balance_floor |-> Floor, hard_stop |-> HardStop]
    ELSE NoBudget]]
MCPreviewRequests ==
  [tenant : Tenants, operation : Operations, actor : Previewers,
   estimate : Estimates, balance : PreviewBalances]
MCRequests ==
  [tenant : Tenants, operation : Operations, actor : Actors,
   preview : Previews, key : Keys, cost : Reprices, balance : Balances]

Symmetry == Permutations(Attempts) \cup Permutations(Previews)
            \cup Permutations(Tenants) \cup Permutations(Keys)

=============================================================================
