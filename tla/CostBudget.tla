----------------------------- MODULE CostBudget -----------------------------
(***************************************************************************)
(* The arithmetic of spend control: what PostgreSQL stores of an amount,   *)
(* when a re-price has drifted from its preview, what the database         *)
(* function cost.assert_budget() refuses at execute time and what          *)
(* _evaluate_gates() shows of the same checks at preview time.             *)
(*                                                                         *)
(* An amount is a number of units, Grain of which make the 0.0001 USD that *)
(* the numeric(12,4) columns keep; the caller's Decimal may be finer.      *)
(* Costs are not negative: prices come from callers that multiply a count  *)
(* by a unit price.                                                        *)
(***************************************************************************)
EXTENDS Integers

CONSTANTS Grain,      \* units per stored 0.0001 USD
          NoBudget,   \* no cost_budget row for the tenant and month
          NoBalance   \* the provider reports no balance

Amount == Nat
Budget == [monthly_cap : Int, per_run_cap : Int, balance_floor : Int,
           hard_stop : BOOLEAN]

ASSUME GrainAssumption  == Grain \in Nat \ {0}
ASSUME AbsentAssumption == NoBudget \notin Budget /\ NoBalance \notin Int

-----------------------------------------------------------------------------
(* A numeric(12,4) column rounds to the nearest 0.0001, halves upward.     *)
(* Mutant of Stored: the amount is cut off instead.                        *)
Truncated(c) == (c \div Grain) * Grain
Stored(c) == ((2 * c + Grain) \div (2 * Grain)) * Grain

(* A whole number of the 0.0001 USD that a numeric(12,4) column keeps.     *)
Whole(x) == x % Grain = 0

Distance(x, y) == IF x >= y THEN x - y ELSE y - x

(* More than DRIFT_TOLERANCE (a tenth) away from the baseline; a baseline  *)
(* of zero never drifts.                                                   *)
Drifts(baseline, reprice) ==
  baseline # 0 /\ 10 * Distance(reprice, baseline) > baseline

-----------------------------------------------------------------------------
(* Mutants of the two caps: an exclusive bound, and a monthly cap compared *)
(* with what was spent before this run.                                    *)
AtPerRun(b, c)             == c >= b.per_run_cap
AlreadyOver(b, spent, c)   == b.hard_stop /\ spent > b.monthly_cap
OverPerRun(b, c)         == c > b.per_run_cap
OverMonthly(b, spent, c) == b.hard_stop /\ spent + c > b.monthly_cap
BelowFloor(b, c, balance) ==
  balance # NoBalance /\ balance - c < b.balance_floor

(* TRUE when cost.assert_budget(c, balance) returns, FALSE when it raises. *)
(* Every raise reaches the client as the same BUDGET_EXCEEDED.             *)
AssertBudget(b, spent, c, balance) ==
  /\ b # NoBudget
  /\ ~OverPerRun(b, c)
  /\ ~OverMonthly(b, spent, c)
  /\ ~BelowFloor(b, c, balance)

Gate(id, pass) == [id |-> id, pass |-> pass]

(* The gates create_preview() computes in Python and stores for display.   *)
EvaluateGates(b, spent, c, balance) ==
  IF b = NoBudget
  THEN {Gate("budget_configured", FALSE)}
  ELSE {Gate("per_run_cap", c <= b.per_run_cap),
        Gate("monthly_cap", ~b.hard_stop \/ spent + c <= b.monthly_cap)}
       \cup IF balance = NoBalance THEN {}
            ELSE {Gate("balance_floor", balance - c >= b.balance_floor)}

Passes(gates) == \A g \in gates : g.pass

=============================================================================
