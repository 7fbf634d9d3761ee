-------------------------- MODULE CostBudgetProofs --------------------------
(* Facts about the arithmetic of spend control, for every amount.          *)
EXTENDS CostBudget, TLAPS

(* A numeric(12,4) column keeps a cost a whole number of its grains, and   *)
(* never moves it by more than half of one.                                *)
LEMMA StoredBounds ==
  ASSUME NEW c \in Amount
  PROVE  /\ Stored(c) \in Amount
         /\ 2 * Distance(c, Stored(c)) <= Grain
         /\ 2 * Distance(Stored(c), c) <= Grain
<1> DEFINE q == (2 * c + Grain) \div (2 * Grain)
<1>1. Grain \in Nat /\ Grain > 0 /\ c \in Nat
  BY GrainAssumption DEF Amount
<1>2. q \in Nat
  BY <1>1
<1>3. 2 * Grain * q <= 2 * c + Grain /\ 2 * c + Grain < 2 * Grain * q + 2 * Grain
  BY <1>1
<1>4. Stored(c) = q * Grain
  BY DEF Stored
<1> HIDE DEF q
<1>5. PICK s \in Nat : s = q * Grain
  BY <1>1, <1>2
<1>6. 2 * Grain * q = 2 * s
  BY <1>1, <1>2, <1>5
<1>7. 2 * s <= 2 * c + Grain /\ 2 * c < 2 * s + Grain
  BY <1>1, <1>2, <1>3, <1>5, <1>6
<1> QED
  BY <1>1, <1>4, <1>5, <1>7 DEF Distance, Amount

(* The whole amounts are the multiples of a grain.                         *)
LEMMA WholeMultiple ==
  ASSUME NEW x \in Int
  PROVE  Whole(x) <=> \E k \in Int : x = k * Grain
<1>1. Grain \in Nat /\ Grain > 0
  BY GrainAssumption
<1> DEFINE d == x \div Grain
<1>2. d \in Int /\ x = Grain * d + (x % Grain) /\ x % Grain \in 0..(Grain - 1)
  BY <1>1
<1>3. ASSUME NEW k \in Int, x = k * Grain PROVE x % Grain = 0
  <2>1. (k - d) * Grain = x % Grain
    BY <1>1, <1>2, <1>3
  <2>2. CASE k - d >= 1
    <3>1. (k - d) * Grain >= Grain
      BY <1>1, <1>2, <2>2
    <3> QED
      BY <1>1, <1>2, <2>1, <3>1
  <2>3. CASE k - d <= -1
    <3>1. (k - d) * Grain <= -Grain
      BY <1>1, <1>2, <2>3
    <3> QED
      BY <1>1, <1>2, <2>1, <3>1
  <2>4. CASE k - d = 0
    BY <1>1, <2>1, <2>4
  <2> QED
    BY <1>2, <2>2, <2>3, <2>4
<1>4. x % Grain = 0 => x = d * Grain
  BY <1>1, <1>2
<1> QED
  BY <1>2, <1>3, <1>4 DEF Whole

(* Sums and differences of whole amounts are whole.                        *)
LEMMA WholeSums ==
  ASSUME NEW x \in Int, NEW y \in Int, Whole(x), Whole(y)
  PROVE  Whole(x + y) /\ Whole(x - y)
<1>1. PICK i \in Int : x = i * Grain
  BY WholeMultiple
<1>2. PICK j \in Int : y = j * Grain
  BY WholeMultiple
<1>3. x + y = (i + j) * Grain /\ x - y = (i - j) * Grain
  BY <1>1, <1>2, GrainAssumption
<1>4. i + j \in Int /\ i - j \in Int /\ x + y \in Int /\ x - y \in Int
  OBVIOUS
<1> QED
  BY <1>3, <1>4, WholeMultiple

(* The column keeps whole amounts, and rounding never lifts a cost above a *)
(* whole bound that it respected.                                          *)
LEMMA StoredWhole ==
  ASSUME NEW c \in Amount
  PROVE  /\ Whole(Stored(c))
         /\ \A n \in Int : Whole(n) /\ c <= n => Stored(c) <= n
<1> DEFINE q == (2 * c + Grain) \div (2 * Grain)
<1>1. Grain \in Nat /\ Grain > 0 /\ c \in Nat
  BY GrainAssumption DEF Amount
<1>2. q \in Nat
  BY <1>1
<1>3. 2 * Grain * q <= 2 * c + Grain
  BY <1>1
<1>4. Stored(c) = q * Grain
  BY DEF Stored
<1> HIDE DEF q
<1>5. PICK s \in Nat : s = q * Grain
  BY <1>1, <1>2
<1>6. 2 * s <= 2 * c + Grain
  BY <1>1, <1>2, <1>3, <1>5
<1>7. Whole(Stored(c))
  BY <1>2, <1>4, <1>5, WholeMultiple
<1>8. ASSUME NEW n \in Int, Whole(n), c <= n PROVE s <= n
  <2>1. PICK k \in Int : n = k * Grain
    BY <1>8, WholeMultiple
  <2>2. CASE q <= k
    BY <1>1, <1>2, <1>5, <2>1, <2>2
  <2>3. CASE q >= k + 1
    <3>1. q * Grain >= (k + 1) * Grain
      BY <1>1, <1>2, <2>1, <2>3
    <3>2. (k + 1) * Grain = n + Grain
      BY <1>1, <2>1
    <3>3. s >= n + Grain
      BY <1>5, <3>1, <3>2
    <3> QED
      BY <1>1, <1>5, <1>6, <1>8, <3>3
  <2> QED
    BY <1>2, <2>1, <2>2, <2>3
<1> QED
  BY <1>4, <1>5, <1>7, <1>8

(* cost.assert_budget() has no upper gap: whatever it lets through, it     *)
(* lets through cheaper, earlier in the month or at a higher balance.      *)
LEMMA AssertMonotone ==
  ASSUME NEW b \in Budget \cup {NoBudget}, NEW s \in Amount, NEW c \in Amount,
         NEW x \in Int \cup {NoBalance}, AssertBudget(b, s, c, x),
         NEW s2 \in Amount, NEW c2 \in Amount, NEW y \in Int \cup {NoBalance},
         s2 <= s, c2 <= c, y = NoBalance \/ (x # NoBalance /\ x <= y)
  PROVE  AssertBudget(b, s2, c2, y)
<1>1. b \in Budget
  BY DEF AssertBudget
<1>2. ~OverPerRun(b, c2) /\ ~OverMonthly(b, s2, c2)
  BY <1>1 DEF AssertBudget, OverPerRun, OverMonthly, Budget, Amount
<1>3. ~BelowFloor(b, c2, y)
  BY <1>1 DEF AssertBudget, BelowFloor, Budget, Amount
<1> QED
  BY <1>2, <1>3 DEF AssertBudget

(* Between limits, spend and balance of whole grains, what passes as asked *)
(* passes as stored.                                                       *)
LEMMA AssertStored ==
  ASSUME NEW b \in Budget, NEW s \in Amount, NEW c \in Amount,
         NEW x \in Int \cup {NoBalance}, AssertBudget(b, s, c, x),
         Whole(b.monthly_cap), Whole(b.per_run_cap), Whole(b.balance_floor), Whole(s),
         x # NoBalance => Whole(x)
  PROVE  AssertBudget(b, s, Stored(c), x)
<1>1. /\ b.monthly_cap \in Int /\ b.per_run_cap \in Int /\ b.balance_floor \in Int
      /\ b.hard_stop \in BOOLEAN /\ s \in Int /\ c \in Int
  BY DEF Budget, Amount
<1>2. PICK r \in Int : r = Stored(c) /\ \A n \in Int : Whole(n) /\ c <= n => r <= n
  BY StoredWhole, StoredBounds DEF Amount
<1>3. ~OverPerRun(b, r)
  BY <1>1, <1>2 DEF AssertBudget, OverPerRun
<1>4. ~OverMonthly(b, s, r)
  <2>1. b.monthly_cap - s \in Int
    BY <1>1
  <2>2. Whole(b.monthly_cap - s)
    BY <1>1, WholeSums, Zenon
  <2> QED
    BY <1>1, <1>2, <2>1, <2>2 DEF AssertBudget, OverMonthly
<1>5. ~BelowFloor(b, r, x)
  <2>1. CASE x # NoBalance
    <3>0. x \in Int
      BY <2>1
    <3>1. Whole(x - b.balance_floor)
      BY <1>1, <2>1, <3>0, WholeSums, Zenon
    <3>2. c <= x - b.balance_floor
      BY <1>1, <2>1, <3>0 DEF AssertBudget, BelowFloor
    <3>3. r <= x - b.balance_floor
      BY <1>1, <1>2, <3>0, <3>1, <3>2
    <3> QED
      BY <1>1, <1>2, <3>0, <3>3 DEF BelowFloor
  <2> QED
    BY <2>1 DEF BelowFloor
<1> QED
  BY <1>2, <1>3, <1>4, <1>5 DEF AssertBudget

(* The gates pass together when each passes.                               *)
LEMMA PassesTwo ==
  ASSUME NEW i, NEW j, NEW x \in BOOLEAN, NEW y \in BOOLEAN
  PROVE  Passes({Gate(i, x), Gate(j, y)}) <=> x /\ y
<1>1. Gate(i, x).pass = x /\ Gate(j, y).pass = y
  BY DEF Gate
<1> QED
  BY <1>1, Zenon DEF Passes

(* The same for three gates.                                               *)
LEMMA PassesThree ==
  ASSUME NEW i, NEW j, NEW k, NEW x \in BOOLEAN, NEW y \in BOOLEAN, NEW z \in BOOLEAN
  PROVE  Passes({Gate(i, x), Gate(j, y), Gate(k, z)}) <=> x /\ y /\ z
<1>1. Gate(i, x).pass = x /\ Gate(j, y).pass = y /\ Gate(k, z).pass = z
  BY DEF Gate
<1> QED
  BY <1>1, Zenon DEF Passes

(* The gates shown with a preview pass exactly when cost.assert_budget()   *)
(* would let the same amount through: _evaluate_gates() re-implements it   *)
(* without a difference, at every boundary.                                *)
THEOREM GatesMirrorEnforcement ==
  ASSUME NEW b \in Budget \cup {NoBudget}, NEW spent \in Amount, NEW c \in Amount,
         NEW balance \in Int \cup {NoBalance}
  PROVE  Passes(EvaluateGates(b, spent, c, balance))
         <=> AssertBudget(b, spent, c, balance)
<1>1. CASE b = NoBudget
  BY <1>1 DEF Passes, EvaluateGates, AssertBudget, Gate
<1>2. CASE b # NoBudget
  <2> DEFINE perRun  == c <= b.per_run_cap
             monthly == ~b.hard_stop \/ spent + c <= b.monthly_cap
             floor   == balance - c >= b.balance_floor
  <2>1. b \in Budget
    BY <1>2
  <2>2. perRun \in BOOLEAN /\ monthly \in BOOLEAN /\ floor \in BOOLEAN
    OBVIOUS
  <2>3. (perRun <=> ~OverPerRun(b, c)) /\ (monthly <=> ~OverMonthly(b, spent, c))
    BY <2>1 DEF OverPerRun, OverMonthly, Budget, Amount
  <2>4. balance # NoBalance => (floor <=> ~BelowFloor(b, c, balance))
    BY <2>1 DEF BelowFloor, Budget, Amount
  <2>5. EvaluateGates(b, spent, c, balance)
        = {Gate("per_run_cap", perRun), Gate("monthly_cap", monthly)}
          \cup IF balance = NoBalance THEN {} ELSE {Gate("balance_floor", floor)}
    BY <1>2 DEF EvaluateGates
  <2> HIDE DEF perRun, monthly, floor
  <2>6. CASE balance = NoBalance
    <3>1. ~BelowFloor(b, c, balance)
      BY <2>6 DEF BelowFloor
    <3>2. EvaluateGates(b, spent, c, balance)
          = {Gate("per_run_cap", perRun), Gate("monthly_cap", monthly)}
      BY <2>5, <2>6
    <3>3. Passes({Gate("per_run_cap", perRun), Gate("monthly_cap", monthly)})
          <=> perRun /\ monthly
      BY <2>2, PassesTwo, Zenon
    <3>4. Passes(EvaluateGates(b, spent, c, balance)) <=> perRun /\ monthly
      BY <3>2, <3>3
    <3> QED
      BY <1>2, <2>3, <3>1, <3>4, Zenon DEF AssertBudget
  <2>7. CASE balance # NoBalance
    <3>1. EvaluateGates(b, spent, c, balance)
          = {Gate("per_run_cap", perRun), Gate("monthly_cap", monthly),
             Gate("balance_floor", floor)}
      BY <2>5, <2>7
    <3>2. Passes({Gate("per_run_cap", perRun), Gate("monthly_cap", monthly),
                  Gate("balance_floor", floor)})
          <=> perRun /\ monthly /\ floor
      BY <2>2, PassesThree, Zenon
    <3>3. Passes(EvaluateGates(b, spent, c, balance)) <=> perRun /\ monthly /\ floor
      BY <3>1, <3>2
    <3> QED
      BY <1>2, <2>3, <2>4, <2>7, <3>3, Zenon DEF AssertBudget
  <2> QED
    BY <2>6, <2>7
<1> QED
  BY <1>1, <1>2

=============================================================================
