------------------------ MODULE ApprovalLadderProofs ------------------------
(* Safety of the ladder for every set of tenants, keys, previews and       *)
(* attempts, every budget and every combination of faults.                 *)
EXTENDS ApprovalLadder, CostBudgetProofs, FiniteSetTheorems

(***************************************************************************)
(* Type correctness.                                                       *)
(***************************************************************************)

(* The steps of the ladder only: what a raise leaves well typed.           *)
LEMMA RaiseType ==
  ASSUME TypeOK, NEW a \in Attempts, NEW code \in Refusals \cup Failures,
         Raise(a, code)
  PROVE  /\ pc' \in [Attempts -> Steps \cup {"idle", "done"}]
         /\ answer' \in [Attempts -> Answer \cup {None}]
         /\ approval' \in [Attempts -> ApprovalRow \cup {None}]
         /\ cards' \subseteq Attempts
BY DEF TypeOK, Raise, Goto, Answer

(* Billing keeps the spend of every month an amount.                       *)
LEMMA BillType ==
  ASSUME TypeOK, NEW a \in Attempts, req[a] \in Requests, NEW m \in Months, Bill(a, m)
  PROVE  billed' \subseteq Attempts /\ spend' \in [Tenants -> [Months -> Amount]]
<1>1. req[a].tenant \in Tenants /\ req[a].cost \in Amount
  BY RequestAssumption DEF Request
<1>2. PICK s \in Amount : s = Stored(req[a].cost)
  BY <1>1, StoredBounds
<1>3. spend[req[a].tenant][m] + s \in Amount
  BY <1>1 DEF TypeOK, Amount
<1> QED
  BY <1>1, <1>2, <1>3 DEF TypeOK, Bill

(* The initial state is well typed.                                        *)
LEMMA InitType == Init => TypeOK
BY ClockAssumption DEF Init, TypeOK, Amount

(* A committed call has ended, with an executed row and its card.          *)
LEMMA CommittedRow ==
  ASSUME LadderInv, NEW b \in committed
  PROVE  b \in Attempts /\ pc[b] = "done" /\ Executed(b) /\ b \in cards
BY DEF LadderInv, TypeOK, RowFollowsStep, Untouched, Executing, Steps

(* Every step keeps the types; the invariant supplies that a call past its *)
(* begin has a request.                                                    *)
LEMMA NextType ==
  ASSUME LadderInv, [Next]_vars
  PROVE  TypeOK'
<1> USE DEF Goto
<1>0. TypeOK /\ \A a \in Attempts : pc[a] # "idle" => req[a] \in Requests
  BY DEF LadderInv, AnswerFollowsRow
<1>1. ASSUME NEW p \in Previews, PricePreview(p)
      PROVE  TypeOK'
  <2>1. PICK r \in PreviewRequests :
          preview' = [preview EXCEPT ![p] =
             [stage |-> "priced", tenant |-> r.tenant, operation |-> r.operation,
              actor |-> r.actor, estimate |-> Stored(r.estimate),
              balance |-> r.balance,
              passes |-> Passes(EvaluateGates(BudgetOf(r.tenant, clock),
                                  SpendOf(r.tenant, clock), r.estimate, r.balance)),
              spent |-> SpendOf(r.tenant, clock), month |-> MonthOf(clock),
              expires_at |-> clock + PreviewTTL]]
    BY <1>0, <1>1 DEF PricePreview
  <2>2. r \in PreviewRequest
    BY RequestAssumption
  <2>3. Stored(r.estimate) \in Amount
    BY <1>0, <2>2, StoredBounds DEF PreviewRequest
  <2>4. MonthOf(clock) \in Months /\ clock + PreviewTTL \in Nat
    BY <1>0, ClockAssumption DEF TypeOK
  <2>5. SpendOf(r.tenant, clock) \in Amount
    BY <1>0, <2>2, <2>4 DEF TypeOK, SpendOf, PreviewRequest
  <2>6. ASSUME NEW gates PROVE Passes(gates) \in BOOLEAN
    BY DEF Passes
  <2>7. preview'[p] \in PreviewRow
    BY <1>0, <2>1, <2>2, <2>3, <2>4, <2>5, <2>6 DEF PreviewRow, PreviewRequest, TypeOK
  <2> QED
    BY <1>0, <1>1, <2>1, <2>7 DEF TypeOK, PricePreview, ladder
<1>2. ASSUME NEW p \in Previews, StorePreview(p) \/ LosePreview(p)
      PROVE  TypeOK'
  BY <1>0, <1>2 DEF TypeOK, StorePreview, LosePreview, OpenPreviews, ladder, PreviewRow
<1>3. ASSUME NEW a \in Attempts, Begin(a)
      PROVE  TypeOK'
  BY <1>0, <1>3 DEF TypeOK, Begin, Steps
<1>4. ASSUME NEW a \in Attempts, LookupMiss(a) \/ LoadPreview(a) \/ PassBudget(a)
                                   \/ WaitForHolder(a)
      PROVE  TypeOK'
  BY <1>0, <1>4 DEF TypeOK, LookupMiss, LoadPreview, PassBudget, WaitForHolder, Steps
<1>5. ASSUME NEW a \in Attempts, LookupReplay(a)
      PROVE  TypeOK'
  <2>1. PICK b \in Winners(a) : Returns(a, b, approval[b].cost)
    BY <1>0, <1>5 DEF LookupReplay
  <2>2. b \in Attempts /\ approval[b].cost \in Amount \cup {None}
    <3>1. b \in committed
      BY DEF Winners
    <3>2. b \in Attempts /\ pc[b] = "done" /\ Executed(b)
      BY <3>1, CommittedRow
    <3>3. Stored(req[b].cost) \in Amount
      BY <1>0, <3>2, StoredBounds, RequestAssumption DEF Request
    <3> QED
      BY <3>2, <3>3 DEF Executed
  <2> QED
    BY <1>0, <1>5, <2>1, <2>2 DEF TypeOK, LookupReplay, Returns, Answer, Steps
<1>6. ASSUME NEW a \in Attempts, LookupConflict(a) \/ RefusePreview(a) \/ FailBudget(a)
                                   \/ RefuseInsert(a) \/ DispatchRaises(a)
                                   \/ RefuseCard(a) \/ Crash(a)
      PROVE  TypeOK'
  <2>1. PICK code \in Refusals \cup Failures : Raise(a, code)
    BY <1>0, <1>6 DEF LookupConflict, RefusePreview, FailBudget, RefuseInsert, DispatchRaises,
                RefuseCard, Crash, Refusals, Failures
  <2>2. /\ UNCHANGED <<clock, preview, billed, spend, req, began, committed>>
        /\ effects' \subseteq Attempts
    BY <1>0, <1>6 DEF TypeOK, LookupConflict, RefusePreview, FailBudget, RefuseInsert,
                DispatchRaises, RefuseCard, Crash
  <2> QED
    BY <1>0, <2>1, <2>2, RaiseType DEF TypeOK
<1>7. ASSUME NEW a \in Attempts, InsertApproval(a)
      PROVE  TypeOK'
  BY <1>0, <1>7 DEF TypeOK, InsertApproval, KeyIsFree, ApprovalRow, Steps
<1>8. ASSUME NEW a \in Attempts, DispatchReturns(a)
      PROVE  TypeOK'
  BY <1>0, <1>8 DEF TypeOK, DispatchReturns, Steps
<1>9. ASSUME NEW a \in Attempts, Finalize(a)
      PROVE  TypeOK'
  <2>1. Stored(req[a].cost) \in Amount
    BY <1>0, <1>9, StoredBounds, RequestAssumption DEF Finalize, Request
  <2> QED
    BY <1>0, <1>9, <2>1 DEF TypeOK, Finalize, ApprovalRow, Steps
<1>10. ASSUME NEW a \in Attempts, WriteCard(a)
       PROVE  TypeOK'
  <2>1. req[a].cost \in Amount
    BY <1>0, <1>10, RequestAssumption DEF WriteCard, Request
  <2> QED
    BY <1>0, <1>10, <2>1 DEF TypeOK, WriteCard, Returns, Answer, Steps
<1>11. ASSUME NEW a \in Attempts, Commit(a)
       PROVE  TypeOK'
  <2>1. req[a] \in Requests
    BY <1>0, <1>11 DEF Commit
  <2>2. MonthOf(began[a]) \in Months
    BY <1>0, ClockAssumption DEF TypeOK
  <2>3. billed' \subseteq Attempts /\ spend' \in [Tenants -> [Months -> Amount]]
    BY <1>0, <1>11, <2>1, <2>2, BillType DEF Commit, TypeOK
  <2>4. answer' \in [Attempts -> Answer \cup {None}]
    BY <1>0, <1>11 DEF Commit, TypeOK, Answer, Failures
  <2> QED
    BY <1>0, <1>11, <2>3, <2>4 DEF TypeOK, Commit
<1>12. ASSUME NEW a \in Attempts, BillLater(a)
       PROVE  TypeOK'
  <2>1. a \in effects /\ pc[a] # "idle"
    BY <1>0, <1>12 DEF BillLater, LadderInv, RowFollowsStep, Untouched
  <2>2. MonthOf(clock) \in Months
    BY <1>0, ClockAssumption DEF TypeOK
  <2>3. billed' \subseteq Attempts /\ spend' \in [Tenants -> [Months -> Amount]]
    BY <1>0, <1>12, <2>1, <2>2, BillType DEF BillLater
  <2> QED
    BY <1>0, <1>12, <2>3 DEF BillLater, TypeOK, ladder
<1>13. CASE Tick
  BY <1>0, <1>13, ClockAssumption DEF TypeOK, Tick, ladder
<1>14. CASE UNCHANGED vars
  BY <1>0, <1>14 DEF TypeOK, vars, ladder
<1> QED
  BY <1>1, <1>2, <1>3, <1>4, <1>5, <1>6, <1>7, <1>8, <1>9, <1>10, <1>11, <1>12, <1>13,
     <1>14 DEF Next, Step

(***************************************************************************)
(* The inductive invariant.                                                *)
(***************************************************************************)

(* What a step leaves alone of an attempt that did not take it, and of     *)
(* every committed approval.                                               *)
Kept(x) ==
  /\ pc'[x] = pc[x] /\ req'[x] = req[x]
  /\ approval'[x] = approval[x] /\ answer'[x] = answer[x]
  /\ (x \in cards') <=> (x \in cards)
  /\ (x \in effects') <=> (x \in effects)
  /\ (x \in committed') <=> (x \in committed)
CommittedKept ==
  \A b \in committed : b \in committed' /\ req'[b] = req[b] /\ approval'[b] = approval[b]

(* An approval row is not the absence of one.                              *)
LEMMA RowsExist ==
  ASSUME NEW a \in Attempts, req[a] \in Requests, Executing(a) \/ Executed(a)
  PROVE  HasRow(a)
<1>1. Stored(req[a].cost) \in Amount
  BY StoredBounds, RequestAssumption DEF Request
<1>2. approval[a] \in ApprovalRow
  BY <1>1 DEF Executing, Executed, ApprovalRow
<1> QED
  BY <1>2, NoneAssumption DEF HasRow

(* A replay stays a replay of the same committed approval.                 *)
LEMMA ReplayKept ==
  ASSUME NEW x, CommittedKept, req'[x] = req[x], answer'[x] = answer[x], AnswersReplay(x)
  PROVE  AnswersReplay(x)'
BY DEF CommittedKept, AnswersReplay, Winners, SameKey

(* An attempt that a step leaves alone keeps its part of the invariant.    *)
LEMMA FrameInv ==
  ASSUME NEW x, Kept(x), CommittedKept, RowFollowsStep(x), AnswerFollowsRow(x)
  PROVE  RowFollowsStep(x)' /\ AnswerFollowsRow(x)'
<1>1. AnswersReplay(x) => AnswersReplay(x)'
  BY ReplayKept DEF Kept
<1>2. /\ Untouched(x) => Untouched(x)'
      /\ Executing(x) => Executing(x)'
      /\ Executed(x) => Executed(x)'
      /\ AnswersOwn(x) => AnswersOwn(x)'
  BY DEF Kept, Untouched, Executing, Executed, AnswersOwn, HasRow
<1> HIDE DEF Untouched, Executing, Executed, AnswersOwn, AnswersReplay
<1>3. RowFollowsStep(x)'
  BY <1>1, <1>2 DEF Kept, RowFollowsStep, HasRow
<1>4. AnswerFollowsRow(x)'
  BY <1>1, <1>2 DEF Kept, AnswerFollowsRow
<1> QED
  BY <1>3, <1>4

(* A step of one attempt need only be shown to keep the invariant for that *)
(* attempt, and the uniqueness of rows.                                    *)
LEMMA LocalStep ==
  ASSUME LadderInv, [Next]_vars, NEW a \in Attempts,
         \A x \in Attempts \ {a} : Kept(x), CommittedKept,
         RowFollowsStep(a)', AnswerFollowsRow(a)', OneApprovalPerKey'
  PROVE  LadderInv'
<1>1. ASSUME NEW x \in Attempts PROVE RowFollowsStep(x)' /\ AnswerFollowsRow(x)'
  BY FrameInv DEF LadderInv
<1> QED
  BY <1>1, NextType DEF LadderInv

(* No row appears, and no row changes key: at most one row per key still.  *)
LEMMA NoNewRow ==
  ASSUME OneApprovalPerKey,
         \A x \in Attempts : HasRow(x)' => HasRow(x) /\ req'[x] = req[x]
  PROVE  OneApprovalPerKey'
BY DEF OneApprovalPerKey, HasRow, SameKey

(* Steps that only move an attempt from one statement to the next one      *)
(* before the insert.                                                      *)
LEMMA AdvanceInv ==
  ASSUME LadderInv, [Next]_vars, NEW a \in Attempts,
         LookupMiss(a) \/ LoadPreview(a) \/ PassBudget(a) \/ WaitForHolder(a)
  PROVE  LadderInv'
<1>1. PICK step \in {"load", "budget", "insert", "waiting"} :
        /\ pc' = [pc EXCEPT ![a] = step]
        /\ pc[a] \in {"lookup", "load", "budget", "insert"}
        /\ UNCHANGED <<req, began, approval, cards, committed, effects, answer>>
  BY DEF LookupMiss, LoadPreview, PassBudget, WaitForHolder, Goto
<1>2. pc'[a] = step /\ \A x \in Attempts \ {a} : pc'[x] = pc[x]
  BY <1>1 DEF LadderInv, TypeOK
<1>3. (\A x \in Attempts \ {a} : Kept(x)) /\ CommittedKept
  BY <1>1, <1>2 DEF Kept, CommittedKept
<1>4. Untouched(a) /\ req[a] \in Requests
  BY <1>1 DEF LadderInv, RowFollowsStep, AnswerFollowsRow
<1>5. RowFollowsStep(a)' /\ AnswerFollowsRow(a)'
  BY <1>1, <1>2, <1>4 DEF RowFollowsStep, AnswerFollowsRow, Untouched, HasRow
<1>6. OneApprovalPerKey'
  BY <1>1, NoNewRow DEF LadderInv, HasRow
<1> QED
  BY <1>3, <1>5, <1>6, LocalStep

(* Steps that end the call with an exception.                              *)
LEMMA RaiseInv ==
  ASSUME LadderInv, [Next]_vars, NEW a \in Attempts,
         LookupConflict(a) \/ RefusePreview(a) \/ FailBudget(a) \/ RefuseInsert(a)
         \/ DispatchRaises(a) \/ RefuseCard(a) \/ Crash(a)
  PROVE  LadderInv'
<1>1. Active(a) /\ UNCHANGED <<req, committed>>
  BY DEF LookupConflict, RefusePreview, FailBudget, RefuseInsert, DispatchRaises,
         RefuseCard, Crash, Active, Steps
<1>2. PICK code \in Refusals \cup Failures :
        /\ Raise(a, code)
        /\ effects' \in {effects, effects \cup {a}}
        /\ code \in Refusals => a \notin effects'
  <2>1. CASE LookupConflict(a) \/ RefusePreview(a) \/ FailBudget(a) \/ RefuseInsert(a)
    <3>1. a \notin effects /\ effects' = effects
      BY <2>1 DEF LookupConflict, RefusePreview, FailBudget, RefuseInsert,
                  LadderInv, RowFollowsStep, Untouched
    <3> QED
      BY <2>1, <3>1 DEF LookupConflict, RefusePreview, FailBudget, RefuseInsert, Refusals
  <2>2. CASE DispatchRaises(a) \/ RefuseCard(a) \/ Crash(a)
    BY <2>2 DEF DispatchRaises, RefuseCard, Crash, Refusals, Failures
  <2> QED
    BY <2>1, <2>2
<1>3. a \notin committed
  BY <1>1, CommittedRow DEF Active, Steps
<1>4. /\ pc'[a] = "done" /\ answer'[a] = [code |-> code] /\ approval'[a] = None
      /\ a \notin cards'
      /\ \A x \in Attempts \ {a} : pc'[x] = pc[x] /\ answer'[x] = answer[x]
                                   /\ approval'[x] = approval[x]
                                   /\ (x \in cards' <=> x \in cards)
  BY <1>2 DEF Raise, Goto, LadderInv, TypeOK
<1>5. (\A x \in Attempts \ {a} : Kept(x)) /\ CommittedKept
  BY <1>1, <1>2, <1>3, <1>4, CommittedRow DEF Kept, CommittedKept
<1>6. req[a] \in Requests
  BY <1>1 DEF LadderInv, AnswerFollowsRow, Active, Steps
<1>7. RowFollowsStep(a)'
  BY <1>1, <1>3, <1>4 DEF RowFollowsStep, HasRow
<1>8. AnswerFollowsRow(a)'
  BY <1>1, <1>2, <1>3, <1>4, <1>6 DEF AnswerFollowsRow
<1>9. OneApprovalPerKey'
  BY <1>1, <1>4, NoNewRow DEF LadderInv, HasRow
<1> QED
  BY <1>5, <1>7, <1>8, <1>9, LocalStep

(* Nobody else holds or has won the key when the row goes in.              *)
LEMMA InsertInv ==
  ASSUME LadderInv, [Next]_vars, NEW a \in Attempts, InsertApproval(a)
  PROVE  LadderInv'
<1> USE DEF LadderInv
<1>1. Untouched(a) /\ req[a] \in Requests
  BY DEF InsertApproval, KeyIsFree, RowFollowsStep, AnswerFollowsRow
<1>2. /\ pc' = [pc EXCEPT ![a] = "dispatch"]
      /\ approval' = [approval EXCEPT ![a] = [status |-> "executing", cost |-> None]]
      /\ UNCHANGED <<req, cards, committed, effects, answer>>
      /\ Holders(a) = {} /\ Winners(a) = {}
  BY DEF InsertApproval, KeyIsFree, Goto
<1>3. /\ pc'[a] = "dispatch"
      /\ approval'[a] = [status |-> "executing", cost |-> None]
      /\ \A x \in Attempts \ {a} : pc'[x] = pc[x] /\ approval'[x] = approval[x]
  BY <1>2 DEF TypeOK
<1>4. (\A x \in Attempts \ {a} : Kept(x)) /\ CommittedKept
  BY <1>1, <1>2, <1>3, CommittedRow DEF Kept, CommittedKept, Untouched
<1>5. RowFollowsStep(a)' /\ AnswerFollowsRow(a)'
  BY <1>1, <1>2, <1>3 DEF RowFollowsStep, AnswerFollowsRow, Untouched, Executing
<1>6. ASSUME NEW x \in Attempts \ {a}, HasRow(x)', SameKey(a, x)'
      PROVE  FALSE
  <2>1. HasRow(x) /\ SameKey(a, x)
    BY <1>2, <1>3, <1>6 DEF HasRow, SameKey
  <2> QED
    BY <1>2, <2>1 DEF Holders, Winners
<1>7. OneApprovalPerKey'
  <2> SUFFICES ASSUME NEW x \in Attempts, NEW y \in Attempts,
                      HasRow(x)', HasRow(y)', SameKey(x, y)'
               PROVE  x = y
    BY DEF OneApprovalPerKey
  <2>1. CASE x = a \/ y = a
    BY <1>6, <2>1 DEF SameKey
  <2>2. CASE x # a /\ y # a
    BY <1>2, <1>3, <2>2 DEF OneApprovalPerKey, HasRow, SameKey
  <2> QED
    BY <2>1, <2>2
<1> QED
  BY <1>4, <1>5, <1>7, LocalStep

(* The remaining statements of a call that holds its key, its replay and   *)
(* its beginning.                                                          *)
LEMMA StatementInv ==
  ASSUME LadderInv, [Next]_vars, NEW a \in Attempts,
         Begin(a) \/ LookupReplay(a) \/ DispatchReturns(a) \/ Finalize(a) \/ WriteCard(a)
  PROVE  LadderInv'
<1> USE DEF LadderInv
<1>1. /\ a \notin committed /\ committed' = committed
      /\ pc[a] # "idle" => req' = req /\ req[a] \in Requests
      /\ pc[a] = "idle" => Begin(a)
  BY CommittedRow DEF Begin, LookupReplay, DispatchReturns, Finalize, WriteCard,
                      AnswerFollowsRow
<1>2. /\ \A x \in Attempts \ {a} : Kept(x)
      /\ CommittedKept
  <2>1. \A x \in Attempts \ {a} :
          /\ pc'[x] = pc[x] /\ req'[x] = req[x]
          /\ approval'[x] = approval[x] /\ answer'[x] = answer[x]
          /\ (x \in cards') <=> (x \in cards)
          /\ (x \in effects') <=> (x \in effects)
    BY DEF Begin, LookupReplay, DispatchReturns, Finalize, WriteCard, Goto, Returns, TypeOK
  <2> QED
    BY <1>1, <2>1, CommittedRow DEF Kept, CommittedKept
<1>3. RowFollowsStep(a)' /\ AnswerFollowsRow(a)'
  <2>1. CASE Begin(a)
    <3>1. /\ pc'[a] = "lookup" /\ req'[a] \in Requests
          /\ UNCHANGED <<approval, cards, committed, effects, answer>>
      BY <2>1 DEF Begin, Goto, TypeOK
    <3>2. Untouched(a)
      BY <2>1 DEF Begin, RowFollowsStep
    <3> QED
      BY <3>1, <3>2 DEF RowFollowsStep, AnswerFollowsRow, Untouched, HasRow
  <2>2. CASE LookupReplay(a)
    <3>1. /\ pc'[a] = "commit" /\ req[a] \in Requests /\ Untouched(a)
          /\ UNCHANGED <<req, approval, cards, committed, effects>>
      BY <2>2 DEF LookupReplay, Goto, TypeOK, RowFollowsStep, AnswerFollowsRow
    <3>2. AnswersReplay(a)'
      <4>1. PICK b \in Winners(a) :
              /\ req[b].preview = req[a].preview
              /\ answer'[a] = [code |-> "OK", approval |-> b, cost |-> approval[b].cost]
        BY <2>2 DEF LookupReplay, Returns, TypeOK
      <4>2. b \in Winners(a)'
        BY <3>1 DEF Winners, SameKey
      <4> QED
        BY <3>1, <4>1, <4>2 DEF AnswersReplay
    <3>3. Untouched(a)'
      BY <3>1 DEF Untouched, HasRow
    <3> QED
      BY <3>1, <3>2, <3>3 DEF RowFollowsStep, AnswerFollowsRow, Untouched
  <2>3. CASE DispatchReturns(a)
    <3>1. /\ pc'[a] = "finalize" /\ req[a] \in Requests /\ Executing(a) /\ a \in effects'
          /\ UNCHANGED <<req, approval, cards, committed, answer>>
      BY <2>3 DEF DispatchReturns, Goto, TypeOK, RowFollowsStep, AnswerFollowsRow
    <3> QED
      BY <3>1 DEF RowFollowsStep, AnswerFollowsRow, Executing
  <2>4. CASE Finalize(a)
    <3>1. /\ pc'[a] = "audit" /\ req[a] \in Requests /\ Executing(a) /\ a \in effects
          /\ approval'[a] = [status |-> "executed", cost |-> Stored(req[a].cost)]
          /\ UNCHANGED <<req, cards, committed, effects, answer>>
      BY <2>4 DEF Finalize, Goto, TypeOK, RowFollowsStep, AnswerFollowsRow
    <3> QED
      BY <3>1 DEF RowFollowsStep, AnswerFollowsRow, Executing, Executed
  <2>5. CASE WriteCard(a)
    <3>1. /\ pc'[a] = "commit" /\ req[a] \in Requests /\ Executed(a) /\ a \in cards'
          /\ answer'[a] = [code |-> "OK", approval |-> a, cost |-> req[a].cost]
          /\ UNCHANGED <<req, approval, committed, effects>>
      BY <2>5 DEF WriteCard, Goto, Returns, TypeOK, RowFollowsStep, AnswerFollowsRow
    <3> QED
      BY <1>1, <3>1 DEF RowFollowsStep, AnswerFollowsRow, Executed, AnswersOwn
  <2> QED
    BY <2>1, <2>2, <2>3, <2>4, <2>5
<1>4. OneApprovalPerKey'
  <2>1. ASSUME NEW x \in Attempts, HasRow(x)'
        PROVE  HasRow(x) /\ req'[x] = req[x]
    <3>1. CASE x # a
      BY <1>2, <2>1, <3>1 DEF Kept, HasRow
    <3>2. CASE x = a /\ Finalize(a)
      <4>1. Executing(a) /\ req[a] \in Requests /\ req' = req
        BY <3>2 DEF Finalize, RowFollowsStep, AnswerFollowsRow
      <4> QED
        BY <3>2, <4>1, RowsExist
    <3>3. CASE x = a /\ ~Finalize(a)
      <4>1. approval' = approval /\ (Begin(a) => ~HasRow(a)) /\ (~Begin(a) => req' = req)
        BY <3>3 DEF Begin, LookupReplay, DispatchReturns, WriteCard, RowFollowsStep,
                    Untouched
      <4> QED
        BY <2>1, <3>3, <4>1 DEF HasRow
    <3> QED
      BY <3>1, <3>2, <3>3
  <2> QED
    BY <2>1, NoNewRow
<1> QED
  BY <1>2, <1>3, <1>4, LocalStep

(* The commit makes an own row visible, or ends a replay.                  *)
LEMMA CommitInv ==
  ASSUME LadderInv, [Next]_vars, NEW a \in Attempts, Commit(a)
  PROVE  LadderInv'
<1> USE DEF LadderInv
<1>1. /\ pc[a] = "commit" /\ pc' = [pc EXCEPT ![a] = "done"]
      /\ committed' = IF HasRow(a) THEN committed \cup {a} ELSE committed
      /\ UNCHANGED <<req, approval, cards, effects>>
      /\ answer' = answer \/ answer' = [answer EXCEPT ![a] = [code |-> "LOST"]]
  BY DEF Commit, Goto
<1>2. /\ pc'[a] = "done" /\ \A x \in Attempts \ {a} : pc'[x] = pc[x] /\ answer'[x] = answer[x]
      /\ answer'[a] = answer[a] \/ answer'[a] = [code |-> "LOST"]
  BY <1>1 DEF TypeOK
<1>3. (\A x \in Attempts \ {a} : Kept(x)) /\ CommittedKept
  BY <1>1, <1>2, CommittedRow DEF Kept, CommittedKept
<1>4. /\ req[a] \in Requests /\ a \notin committed
      /\ \/ Executed(a) /\ a \in cards /\ AnswersOwn(a)
         \/ Untouched(a) /\ AnswersReplay(a)
  BY <1>1 DEF RowFollowsStep, AnswerFollowsRow
<1>5. RowFollowsStep(a)' /\ AnswerFollowsRow(a)'
  <2>1. CASE Executed(a) /\ a \in cards /\ AnswersOwn(a)
    <3>1. HasRow(a)
      BY <1>4, <2>1, RowsExist
    <3> QED
      BY <1>1, <1>2, <1>4, <2>1, <3>1
      DEF RowFollowsStep, AnswerFollowsRow, Executed, AnswersOwn, Failures
  <2>2. CASE Untouched(a) /\ AnswersReplay(a)
    <3>1. committed' = committed /\ (answer'[a] = answer[a] => AnswersReplay(a)')
      BY <1>1, <1>3, <2>2, ReplayKept DEF Untouched
    <3> QED
      BY <1>1, <1>2, <1>4, <2>2, <3>1
      DEF RowFollowsStep, AnswerFollowsRow, Untouched, HasRow, Failures
  <2> QED
    BY <1>4, <2>1, <2>2
<1>6. OneApprovalPerKey'
  BY <1>1, NoNewRow DEF HasRow
<1> QED
  BY <1>3, <1>5, <1>6, LocalStep

(* Steps outside execute() do not touch its rows.                          *)
LEMMA OutsideInv ==
  ASSUME LadderInv, [Next]_vars, UNCHANGED ladder
  PROVE  LadderInv'
<1>1. CommittedKept /\ \A x \in Attempts : Kept(x)
  BY DEF ladder, CommittedKept, Kept
<1>2. ASSUME NEW x \in Attempts PROVE RowFollowsStep(x)' /\ AnswerFollowsRow(x)'
  BY <1>1, FrameInv DEF LadderInv
<1>3. OneApprovalPerKey'
  BY NoNewRow DEF LadderInv, ladder, HasRow
<1> QED
  BY <1>2, <1>3, NextType DEF LadderInv

(* No attempt has begun: the invariant holds at the start.                 *)
LEMMA LadderInit == Init => LadderInv
<1> SUFFICES ASSUME Init PROVE LadderInv
  OBVIOUS
<1>1. \A a \in Attempts : pc[a] = "idle" /\ Untouched(a)
  BY DEF Init, Untouched, HasRow
<1> QED
  BY <1>1, InitType DEF LadderInv, RowFollowsStep, AnswerFollowsRow, OneApprovalPerKey,
                        Untouched

(* Every action preserves the invariant: one step of the proof per group   *)
(* of actions that disturb the same state.                                 *)
LEMMA LadderNext == LadderInv /\ [Next]_vars => LadderInv'
<1> SUFFICES ASSUME LadderInv, [Next]_vars PROVE LadderInv'
  OBVIOUS
<1>1. CASE UNCHANGED ladder
  BY <1>1, OutsideInv
<1>2. ASSUME NEW a \in Attempts, Begin(a) \/ Step(a) \/ Crash(a) PROVE LadderInv'
  BY <1>2, AdvanceInv, RaiseInv, InsertInv, StatementInv, CommitInv DEF Step
<1>3. (\E a \in Attempts : Begin(a) \/ Step(a) \/ Crash(a)) \/ UNCHANGED ladder
  BY DEF Next, vars, PricePreview, StorePreview, LosePreview, BillLater, Tick
<1> QED
  BY <1>1, <1>2, <1>3

(* In every reachable state each call has written exactly what the         *)
(* statements it has executed write, and a key has at most one row.        *)
THEOREM LadderInvariant == Spec => []LadderInv
BY LadderInit, LadderNext, PTL DEF Spec

(* The tables, statuses and answers always have the types of the schema.   *)
THEOREM LadderTypes == Spec => []TypeOK
<1>1. LadderInv => TypeOK
  BY DEF LadderInv
<1> QED
  BY <1>1, LadderInvariant, PTL

(* The unique constraint and the wait it implies: no two execute() calls   *)
(* ever both hold or have committed an approval for one key of a tenant.   *)
THEOREM UniqueApproval == Spec => []OneApprovalPerKey
<1>1. LadderInv => OneApprovalPerKey
  BY DEF LadderInv
<1> QED
  BY <1>1, LadderInvariant, PTL

(* Whatever statement fails, an approval survives with its execution,      *)
(* price and audit card, or nothing of it does.                            *)
THEOREM Atomicity == Spec => []AllOrNothing
<1>1. ASSUME LadderInv PROVE AllOrNothing
  <2>1. ASSUME NEW a \in committed
        PROVE  /\ approval[a] = [status |-> "executed", cost |-> Stored(req[a].cost)]
               /\ a \in effects \cap cards
    BY <1>1, CommittedRow DEF Executed
  <2>2. ASSUME NEW a \in Attempts \ committed, pc[a] = "done"
        PROVE  ~HasRow(a) /\ a \notin cards
    BY <1>1, <2>2 DEF LadderInv, RowFollowsStep
  <2> QED
    BY <2>1, <2>2 DEF AllOrNothing
<1> QED
  BY <1>1, LadderInvariant, PTL

(* No refusal hides an execution, and no execution without an approval is  *)
(* reported as anything but a failure.                                     *)
THEOREM Honesty == Spec => []HonestAnswers
<1>1. ASSUME LadderInv PROVE HonestAnswers
  <2> SUFFICES ASSUME NEW a \in Attempts, pc[a] = "done"
               PROVE  /\ answer[a].code \in Refusals => a \notin effects \cup committed
                      /\ a \in effects \ committed => answer[a].code \in Failures
    BY DEF HonestAnswers
  <2>1. \/ a \in committed /\ answer[a].code = "OK"
        \/ a \notin effects \cup committed
        \/ answer[a].code \in Failures
    <3>1. \/ a \in committed /\ AnswersOwn(a)
          \/ a \notin effects \cup committed
          \/ answer[a] \in [code : Failures]
      BY <1>1 DEF LadderInv, AnswerFollowsRow
    <3>2. AnswersOwn(a) => answer[a].code = "OK"
      BY DEF AnswersOwn
    <3>3. answer[a] \in [code : Failures] => answer[a].code \in Failures
      OBVIOUS
    <3> QED
      BY <3>1, <3>2, <3>3
  <2> QED
    BY <2>1 DEF Refusals, Failures
<1> QED
  BY <1>1, LadderInvariant, PTL

(* All OK answers for a key of a tenant name the same committed approval,  *)
(* for the preview asked for; the first answer carries the caller's price  *)
(* and the replays the stored one, at most half a grain apart.             *)
THEOREM ReplayAgreement == Spec => []ReplaysAgree
<1>1. ASSUME LadderInv, NEW a \in Attempts, AnsweredOK(a)
      PROVE  /\ answer[a].approval \in Winners(a)
             /\ req[answer[a].approval].preview = req[a].preview
             /\ \/ answer[a].cost = req[answer[a].approval].cost
                \/ answer[a].cost = Stored(req[answer[a].approval].cost)
  <2>1. (a \in committed /\ AnswersOwn(a)) \/ AnswersReplay(a)
    BY <1>1 DEF LadderInv, AnswerFollowsRow, AnsweredOK, Refusals, Failures
  <2>2. CASE a \in committed /\ AnswersOwn(a)
    BY <2>2 DEF AnswersOwn, Winners, SameKey
  <2>3. CASE AnswersReplay(a)
    <3>1. PICK b \in Winners(a) :
            /\ req[b].preview = req[a].preview
            /\ answer[a] = [code |-> "OK", approval |-> b, cost |-> approval[b].cost]
      BY <2>3 DEF AnswersReplay
    <3>2. approval[b].cost = Stored(req[b].cost)
      <4>1. b \in committed
        BY DEF Winners
      <4>2. Executed(b)
        BY <1>1, <4>1, CommittedRow
      <4> QED
        BY <4>2 DEF Executed
    <3>3. answer[a].approval = b /\ answer[a].cost = approval[b].cost
      BY <3>1
    <3>4. b \in Winners(a) /\ req[b].preview = req[a].preview
      BY <3>1
    <3> QED
      BY <3>2, <3>3, <3>4, Zenon
  <2> QED
    BY <2>1, <2>2, <2>3
<1>2. ASSUME LadderInv, NEW a \in Attempts, AnsweredOK(a), NEW b \in Attempts,
             AnsweredOK(b), SameKey(a, b)
      PROVE  /\ answer[a].approval = answer[b].approval
             /\ 2 * Distance(answer[a].cost, answer[b].cost) <= Grain
  <2> DEFINE w == answer[a].approval
  <2>1. w \in Winners(a) /\ answer[b].approval \in Winners(b)
    BY <1>1, <1>2
  <2>2. w \in committed /\ answer[b].approval \in committed
        /\ SameKey(w, answer[b].approval)
    BY <1>2, <2>1 DEF Winners, SameKey
  <2>3. HasRow(w) /\ HasRow(answer[b].approval) /\ pc[w] = "done"
        /\ w \in Attempts /\ answer[b].approval \in Attempts
    <3>1. ASSUME NEW c \in committed PROVE HasRow(c) /\ pc[c] = "done" /\ c \in Attempts
      <4>1. c \in Attempts /\ pc[c] = "done" /\ Executed(c)
        BY <1>2, CommittedRow
      <4>2. req[c] \in Requests
        BY <1>2, <4>1 DEF LadderInv, AnswerFollowsRow
      <4> QED
        BY <4>1, <4>2, RowsExist
    <3> QED
      BY <2>2, <3>1
  <2>4. w = answer[b].approval
    BY <1>2, <2>2, <2>3 DEF LadderInv, OneApprovalPerKey
  <2>5. req[w].cost \in Amount
    BY <1>2, <2>3, RequestAssumption DEF LadderInv, AnswerFollowsRow, Request
  <2>6. /\ answer[a].cost \in {req[w].cost, Stored(req[w].cost)}
        /\ answer[b].cost \in {req[w].cost, Stored(req[w].cost)}
    BY <1>1, <1>2, <2>4
  <2>7. \A c \in Amount : 2 * Distance(c, c) <= Grain
    BY GrainAssumption DEF Distance, Amount
  <2> QED
    BY <2>4, <2>5, <2>6, <2>7, StoredBounds
<1>3. LadderInv => ReplaysAgree
  BY <1>1, <1>2 DEF ReplaysAgree
<1> QED
  BY <1>3, LadderInvariant, PTL

(* A side effect happens only in the hands of the one call that holds the  *)
(* key, before anything is committed for it.                               *)
THEOREM ExclusiveDispatch == Spec => DispatchIsExclusive
<1>1. ASSUME LadderInv, [Next]_vars
      PROVE  [\A a \in effects' \ effects : Winners(a) = {} /\ Holders(a) = {}]_vars
  <2> SUFFICES ASSUME Next, NEW a \in effects' \ effects
               PROVE  Winners(a) = {} /\ Holders(a) = {}
    BY <1>1 DEF vars, ladder
  <2>1. a \in Attempts /\ (DispatchReturns(a) \/ DispatchRaises(a))
    BY DEF Next, Step, PricePreview, StorePreview, LosePreview, Begin, LookupMiss,
           LookupReplay, LookupConflict, LoadPreview, RefusePreview, PassBudget, FailBudget,
           WaitForHolder, InsertApproval, RefuseInsert, DispatchReturns, DispatchRaises,
           Finalize, WriteCard, RefuseCard, Commit, Crash, BillLater, Tick, ladder
  <2>2. pc[a] = "dispatch" /\ Executing(a) /\ req[a] \in Requests
    BY <1>1, <2>1 DEF DispatchReturns, DispatchRaises, LadderInv, RowFollowsStep,
                      AnswerFollowsRow
  <2>3. HasRow(a)
    BY <2>1, <2>2, RowsExist
  <2>4. ASSUME NEW b \in committed PROVE ~SameKey(a, b)
    <3>1. b \in Attempts /\ pc[b] = "done" /\ Executed(b)
      BY <1>1, CommittedRow
    <3>2. HasRow(b)
      BY <1>1, <3>1, RowsExist DEF LadderInv, AnswerFollowsRow
    <3> QED
      BY <1>1, <2>1, <2>2, <2>3, <3>1, <3>2 DEF LadderInv, OneApprovalPerKey
  <2>5. Holders(a) = {}
    BY <1>1, <2>1, <2>3 DEF Holders, LadderInv, OneApprovalPerKey, SameKey
  <2> QED
    BY <2>4, <2>5 DEF Winners
<1> QED
  BY <1>1, LadderInvariant, PTL DEF Spec, DispatchIsExclusive

(***************************************************************************)
(* What was checked before the insert still holds at the dispatch.         *)
(***************************************************************************)
PricedInv == EffectsArePriced /\ PricedSteps

(* No action changes or removes a stored preview.                          *)
LEMMA StoredPreviewKept ==
  ASSUME LadderInv, Next, NEW q \in Previews, preview[q] # None, preview[q].stage = "stored"
  PROVE  preview'[q] = preview[q]
<1>1. ASSUME NEW p \in Previews, PricePreview(p) \/ StorePreview(p) \/ LosePreview(p)
      PROVE  preview'[q] = preview[q]
  <2>1. p # q
    BY <1>1 DEF PricePreview, StorePreview, LosePreview, OpenPreviews
  <2>2. preview \in [Previews -> PreviewRow \cup {None}]
    BY DEF LadderInv, TypeOK
  <2>3. \E row : preview' = [preview EXCEPT ![p] = row]
    BY <1>1 DEF PricePreview, StorePreview, LosePreview
  <2> QED
    BY <2>1, <2>2, <2>3
<1>2. (\E p \in Previews : PricePreview(p) \/ StorePreview(p) \/ LosePreview(p))
      \/ preview' = preview
  BY DEF Next, Step, Begin, LookupMiss, LookupReplay, LookupConflict, LoadPreview,
         RefusePreview, PassBudget, FailBudget, WaitForHolder, InsertApproval, RefuseInsert,
         DispatchReturns, DispatchRaises, Finalize, WriteCard, RefuseCard, Commit, Crash,
         BillLater, Tick
<1> QED
  BY <1>1, <1>2

(* A quoted call stays quoted, whatever step comes next.                   *)
LEMMA QuotedKept ==
  ASSUME LadderInv, Next, NEW a \in Attempts, req[a] \in Requests, Quoted(a),
         req'[a] = req[a], began'[a] = began[a], clock' \in Nat
  PROVE  Quoted(a)'
<1>1. req[a].preview \in Previews
  BY RequestAssumption DEF Request
<1>2. preview'[req[a].preview] = preview[req[a].preview]
  BY <1>1, StoredPreviewKept DEF Quoted, Loads
<1> QED
  BY <1>2 DEF Quoted, Loads, Drifted

(* A call cleared by its budget stays cleared: budgets are constant.       *)
LEMMA ClearedKept ==
  ASSUME NEW a, Cleared(a), req'[a] = req[a], began'[a] = began[a]
  PROVE  Cleared(a)'
BY DEF Cleared, BudgetOf

(* A call keeps its request and its transaction time once it has begun,    *)
(* and the clock does not run backwards.                                   *)
LEMMA RequestKept ==
  ASSUME LadderInv, Next, NEW a \in Attempts
  PROVE  /\ clock <= clock'
         /\ pc[a] # "idle" => req'[a] = req[a] /\ began'[a] = began[a]
         /\ pc[a] = "idle" =>
              \/ pc'[a] = "idle" /\ began'[a] = began[a]
              \/ pc'[a] = "lookup" /\ began'[a] = clock
<1>1. clock \in Int
  BY ClockAssumption DEF LadderInv, TypeOK
<1>2. ASSUME NEW x \in Attempts, Begin(x)
      PROVE  /\ pc[x] = "idle" /\ pc'[x] = "lookup" /\ began'[x] = clock
             /\ \A y \in Attempts \ {x} : /\ pc'[y] = pc[y] /\ req'[y] = req[y]
                                          /\ began'[y] = began[y]
             /\ clock' = clock
  BY <1>2 DEF Begin, Goto, LadderInv, TypeOK
<1>3. ASSUME NEW x \in Attempts, Step(x) \/ Crash(x)
      PROVE  /\ UNCHANGED <<req, began, clock>> /\ pc[x] # "idle"
             /\ \A y \in Attempts \ {x} : pc'[y] = pc[y]
  BY <1>3 DEF Step, LookupMiss, LookupReplay, LookupConflict, LoadPreview, RefusePreview,
         PassBudget, FailBudget, WaitForHolder, InsertApproval, RefuseInsert,
         DispatchReturns, DispatchRaises, Finalize, WriteCard, RefuseCard, Commit, Crash,
         Active, Steps, Raise, Goto, LadderInv, TypeOK
<1>4. \/ \E x \in Attempts : Begin(x)
      \/ \E x \in Attempts : Step(x) \/ Crash(x)
      \/ UNCHANGED ladder /\ clock' \in {clock, clock + 1}
  BY DEF Next, PricePreview, StorePreview, LosePreview, BillLater, Tick
<1>5. CASE UNCHANGED ladder /\ clock' \in {clock, clock + 1}
  BY <1>1, <1>5 DEF ladder
<1>6. CASE \E x \in Attempts : Begin(x)
  BY <1>1, <1>2, <1>6
<1>7. CASE \E x \in Attempts : Step(x) \/ Crash(x)
  BY <1>1, <1>3, <1>7
<1> QED
  BY <1>4, <1>5, <1>6, <1>7

(* Every step keeps what the checks established about the calls past them. *)
LEMMA PricedNext ==
  ASSUME LadderInv, LadderInv', PricedInv, [Next]_vars
  PROVE  PricedInv'
<1>1. CASE UNCHANGED vars
  BY <1>1 DEF vars, ladder, PricedInv, EffectsArePriced, PricedSteps, Quoted, Cleared, Loads,
              Drifted, Expired, BudgetOf
<1>2. CASE Next
  <2>0. clock \in Nat /\ clock' \in Nat /\ \A a \in Attempts : began[a] \in Nat
    BY ClockAssumption DEF LadderInv, TypeOK
  <2>1. ASSUME NEW a \in Attempts PROVE began'[a] <= clock'
    BY <1>2, <2>0, RequestKept DEF PricedInv, PricedSteps
  <2>2. ASSUME NEW a \in Attempts, pc[a] # "idle"
        PROVE  /\ Quoted(a) => Quoted(a)'
               /\ Cleared(a) => Cleared(a)'
    BY <1>2, <2>0, <2>2, RequestKept, QuotedKept, ClearedKept
    DEF LadderInv, AnswerFollowsRow
  <2>3. ASSUME NEW a \in Attempts, LoadPreview(a)
        PROVE  Quoted(a)
    <3>1. began[a] <= clock /\ Loads(a) /\ ~Expired(a) /\ ~Drifted(a) /\ req[a] \in Requests
      BY <2>3 DEF LoadPreview, PricedInv, PricedSteps, LadderInv, AnswerFollowsRow
    <3>2. req[a].preview \in Previews
      BY <3>1, RequestAssumption DEF Request
    <3>3. preview[req[a].preview].expires_at \in Nat
      BY <3>1, <3>2 DEF Loads, LadderInv, TypeOK, PreviewRow
    <3> QED
      BY <2>0, <3>1, <3>3 DEF Quoted, Expired
  <2>4. ASSUME NEW a \in Attempts, PassBudget(a)
        PROVE  Cleared(a)
    BY <2>4 DEF PassBudget, Affordable, AssertBudget, Cleared
  <2>5. ASSUME NEW a \in Attempts, pc'[a] \in {"budget", "insert", "waiting", "dispatch"}
        PROVE  /\ pc[a] \in {"load", "budget", "insert", "waiting", "dispatch"}
               /\ pc[a] = "load" => pc'[a] = "budget" /\ LoadPreview(a)
               /\ pc[a] = "budget" => pc'[a] = "budget" \/ PassBudget(a)
    <3>1. ASSUME NEW x \in Attempts, Step(x) \/ Crash(x) \/ Begin(x), x # a
          PROVE  pc'[a] = pc[a]
      BY <3>1 DEF Step, LookupMiss, LookupReplay, LookupConflict, LoadPreview,
         RefusePreview, PassBudget, FailBudget, WaitForHolder, InsertApproval, RefuseInsert,
         DispatchReturns, DispatchRaises, Finalize, WriteCard, RefuseCard, Commit, Crash,
         Begin, Raise, Goto, LadderInv, TypeOK
    <3>2. CASE Step(a) \/ Crash(a) \/ Begin(a)
      BY <2>5, <3>2 DEF Step, LookupMiss, LookupReplay, LookupConflict, LoadPreview,
         RefusePreview, PassBudget, FailBudget, WaitForHolder, InsertApproval, RefuseInsert,
         DispatchReturns, DispatchRaises, Finalize, WriteCard, RefuseCard, Commit, Crash,
         Begin, Raise, Goto, LadderInv, TypeOK
    <3>3. CASE UNCHANGED ladder
      BY <2>5, <3>3 DEF ladder
    <3>4. (\E x \in Attempts : Step(x) \/ Crash(x) \/ Begin(x)) \/ UNCHANGED ladder
      BY <1>2 DEF Next, PricePreview, StorePreview, LosePreview, BillLater, Tick
    <3>5. CASE \E x \in Attempts \ {a} : Step(x) \/ Crash(x) \/ Begin(x)
      BY <2>5, <3>1, <3>5
    <3> QED
      BY <3>2, <3>3, <3>4, <3>5
  <2>6. ASSUME NEW a \in Attempts,
               pc'[a] \in {"budget", "insert", "waiting", "dispatch"}
        PROVE  /\ Quoted(a)'
               /\ pc'[a] # "budget" => Cleared(a)'
    <3>1. pc[a] # "idle" /\ Quoted(a)
      BY <2>3, <2>5, <2>6 DEF PricedInv, PricedSteps
    <3>2. pc'[a] # "budget" => Cleared(a)
      BY <2>4, <2>5, <2>6 DEF PricedInv, PricedSteps
    <3> QED
      BY <2>2, <3>1, <3>2
  <2>7. PricedSteps'
    BY <2>1, <2>6 DEF PricedSteps
  <2>8. ASSUME NEW a \in effects'
        PROVE  Quoted(a)' /\ Cleared(a)'
    <3>1. CASE a \in effects
      <4>1. a \in Attempts /\ pc[a] # "idle"
        BY <3>1 DEF LadderInv, TypeOK, RowFollowsStep, Untouched
      <4> QED
        BY <2>2, <3>1, <4>1 DEF PricedInv, EffectsArePriced
    <3>2. CASE a \notin effects
      <4>1. a \in Attempts /\ pc[a] = "dispatch"
        BY <1>2, <2>8, <3>2 DEF Next, Step, PricePreview, StorePreview, LosePreview, Begin,
           LookupMiss, LookupReplay, LookupConflict, LoadPreview, RefusePreview, PassBudget,
           FailBudget, WaitForHolder, InsertApproval, RefuseInsert, DispatchReturns,
           DispatchRaises, Finalize, WriteCard, RefuseCard, Commit, Crash, BillLater, Tick,
           ladder
      <4> QED
        BY <2>2, <4>1 DEF PricedInv, PricedSteps
    <3> QED
      BY <3>1, <3>2
  <2> QED
    BY <2>7, <2>8 DEF PricedInv, EffectsArePriced
<1> QED
  BY <1>1, <1>2

(* What was checked stays checked in every reachable state.                *)
LEMMA PricedInvariant == Spec => []PricedInv
<1>1. Init => PricedInv
  BY DEF Init, PricedInv, EffectsArePriced, PricedSteps
<1>2. LadderInv /\ LadderInv' /\ PricedInv /\ [Next]_vars => PricedInv'
  BY PricedNext
<1> QED
  BY <1>1, <1>2, LadderInvariant, PTL DEF Spec

(* Every dispatch was quoted by a live preview of its own tenant and       *)
(* operation and cleared by the budget of its month, for any interleaving, *)
(* wait or fault between the checks and the dispatch.                      *)
THEOREM PricedDispatch == Spec => []EffectsArePriced
<1>1. PricedInv => EffectsArePriced
  BY DEF PricedInv
<1> QED
  BY <1>1, PricedInvariant, PTL

(* Billing adds a stored price to one month of one tenant.                 *)
LEMMA BillCells ==
  ASSUME TypeOK, NEW a \in Attempts, req[a] \in Requests, NEW n \in Months, Bill(a, n),
         NEW t \in Tenants, NEW m \in Months
  PROVE  spend'[t][m] = IF req[a].tenant = t /\ m = n
                        THEN spend[t][m] + Stored(req[a].cost) ELSE spend[t][m]
<1>1. req[a].tenant \in Tenants
  BY RequestAssumption DEF Request
<1> HIDE DEF Stored
<1> QED
  BY <1>1 DEF Bill, TypeOK

(* Spend changes only by a bill, in the transaction or from outside it.    *)
LEMMA SpendChanges ==
  ASSUME LadderInv, [Next]_vars
  PROVE  \/ spend' = spend
         \/ \E a \in Attempts : \E n \in Months : req[a] \in Requests /\ Bill(a, n)
<1>1. ASSUME NEW a \in Attempts, Commit(a) \/ BillLater(a)
      PROVE  \/ spend' = spend
             \/ \E n \in Months : req[a] \in Requests /\ Bill(a, n)
  <2>1. req[a] \in Requests
    BY <1>1 DEF Commit, BillLater, LadderInv, RowFollowsStep, AnswerFollowsRow, Untouched
  <2>2. MonthOf(began[a]) \in Months /\ MonthOf(clock) \in Months
    BY ClockAssumption DEF LadderInv, TypeOK
  <2> QED
    BY <1>1, <2>1, <2>2 DEF Commit, BillLater
<1>2. (\E a \in Attempts : Commit(a) \/ BillLater(a)) \/ spend' = spend
  BY DEF Next, Step, PricePreview, StorePreview, LosePreview, Begin, LookupMiss,
         LookupReplay, LookupConflict, LoadPreview, RefusePreview, PassBudget, FailBudget,
         WaitForHolder, InsertApproval, RefuseInsert, DispatchReturns, DispatchRaises,
         Finalize, WriteCard, RefuseCard, Crash, Tick, vars
<1> QED
  BY <1>1, <1>2

(* A month's spend never falls, and stays a whole number of grains.        *)
LEMMA SpendGrows ==
  ASSUME LadderInv, [Next]_vars, NEW t \in Tenants, NEW m \in Months
  PROVE  /\ spend[t][m] \in Amount /\ spend'[t][m] \in Amount
         /\ spend[t][m] <= spend'[t][m]
         /\ Whole(spend[t][m]) => Whole(spend'[t][m])
<1>1. spend[t][m] \in Amount /\ spend'[t][m] \in Amount
  BY NextType DEF LadderInv, TypeOK
<1>2. CASE spend' = spend
  BY <1>1, <1>2 DEF Amount
<1>3. ASSUME NEW a \in Attempts, NEW n \in Months, req[a] \in Requests, Bill(a, n)
      PROVE  spend[t][m] <= spend'[t][m] /\ (Whole(spend[t][m]) => Whole(spend'[t][m]))
  <2>1. PICK s \in Int : s = Stored(req[a].cost) /\ s >= 0 /\ Whole(s)
    BY <1>3, StoredBounds, StoredWhole, RequestAssumption DEF Request, Amount
  <2>2. spend'[t][m] = spend[t][m] \/ spend'[t][m] = spend[t][m] + s
    BY <1>3, <2>1, BillCells DEF LadderInv
  <2>3. PICK u \in Int : u = spend[t][m]
    BY <1>1 DEF Amount
  <2>4. Whole(u) => Whole(u + s)
    BY <2>1, WholeSums, Zenon
  <2> QED
    BY <2>1, <2>2, <2>3, <2>4
<1> QED
  BY <1>1, <1>2, <1>3, SpendChanges

(***************************************************************************)
(* Without failures after the dispatch a key is executed once.             *)
(***************************************************************************)
EffectsRecorded == \A a \in effects : HasRow(a)

(* Only a failure after the dispatch takes the row of an effect away.      *)
LEMMA RecordKept ==
  ASSUME Faults \cap {"crash", "dispatch"} = {},
         \A r \in Requests : r.actor \in CardActors,
         LadderInv, EffectsRecorded, [Next]_vars
  PROVE  EffectsRecorded'
<1>1. CASE UNCHANGED ladder
  BY <1>1 DEF EffectsRecorded, HasRow, ladder
<1>2. ASSUME NEW a \in Attempts, Begin(a) \/ Step(a) \/ Crash(a)
      PROVE  EffectsRecorded'
  <2>1. pc[a] # "idle" => req[a] \in Requests
    BY DEF LadderInv, AnswerFollowsRow
  <2>2. ~(DispatchRaises(a) \/ RefuseCard(a) \/ Crash(a))
    BY <2>1 DEF DispatchRaises, RefuseCard, Crash
  <2>3. CASE LookupConflict(a) \/ RefusePreview(a) \/ FailBudget(a) \/ RefuseInsert(a)
    <3>1. a \notin effects
      BY <2>3 DEF LookupConflict, RefusePreview, FailBudget, RefuseInsert, LadderInv,
                  RowFollowsStep, Untouched
    <3>2. effects' = effects /\ \A b \in Attempts \ {a} : approval'[b] = approval[b]
      BY <2>3 DEF LookupConflict, RefusePreview, FailBudget, RefuseInsert, Raise,
                  LadderInv, TypeOK
    <3> QED
      BY <3>1, <3>2 DEF EffectsRecorded, HasRow, LadderInv, TypeOK
  <2>4. CASE \/ Begin(a) \/ LookupMiss(a) \/ LookupReplay(a) \/ LoadPreview(a)
             \/ PassBudget(a) \/ WaitForHolder(a) \/ WriteCard(a) \/ Commit(a)
    BY <2>4 DEF Begin, LookupMiss, LookupReplay, LoadPreview, PassBudget, WaitForHolder,
                WriteCard, Commit, EffectsRecorded, HasRow
  <2>5. CASE InsertApproval(a)
    <3>1. a \notin effects
      BY <2>5 DEF InsertApproval, LadderInv, RowFollowsStep, Untouched
    <3> QED
      BY <2>5, <3>1 DEF InsertApproval, EffectsRecorded, HasRow
  <2>6. CASE DispatchReturns(a)
    <3>1. Executing(a) /\ req[a] \in Requests
      BY <2>1, <2>6 DEF DispatchReturns, LadderInv, RowFollowsStep
    <3> QED
      BY <2>6, <3>1, RowsExist DEF DispatchReturns, EffectsRecorded, HasRow
  <2>7. CASE Finalize(a)
    <3>1. LadderInv' /\ pc'[a] = "audit"
      BY <2>7, LadderNext DEF Finalize, Goto, LadderInv, TypeOK
    <3>2. Executed(a)' /\ req'[a] \in Requests
      BY <3>1 DEF LadderInv, RowFollowsStep, AnswerFollowsRow
    <3>3. Stored(req'[a].cost) \in Amount
      BY <3>2, StoredBounds, RequestAssumption DEF Request
    <3>4. HasRow(a)'
      BY <3>2, <3>3, NoneAssumption DEF Executed, ApprovalRow, HasRow
    <3> QED
      BY <2>7, <3>4 DEF Finalize, EffectsRecorded, HasRow
  <2> QED
    BY <1>2, <2>2, <2>3, <2>4, <2>5, <2>6, <2>7 DEF Step
<1> QED
  BY <1>1, <1>2 DEF Next, vars, PricePreview, StorePreview, LosePreview, BillLater, Tick

(* A key is executed at most once if no transaction is lost, no dispatch   *)
(* raises and every caller's role has its place among the audit cards: the *)
(* three failures that can follow a dispatch.                              *)
THEOREM SingleExecution ==
  ASSUME Faults \cap {"crash", "dispatch"} = {},
         \A r \in Requests : r.actor \in CardActors
  PROVE  Spec => []OneExecutionPerKey
<1>1. Init => EffectsRecorded
  BY DEF Init, EffectsRecorded
<1>2. LadderInv /\ EffectsRecorded /\ [Next]_vars => EffectsRecorded'
  BY RecordKept
<1>3. LadderInv /\ EffectsRecorded => OneExecutionPerKey
  BY DEF LadderInv, TypeOK, EffectsRecorded, OneApprovalPerKey, OneExecutionPerKey
<1> QED
  BY LadderInvariant, <1>1, <1>2, <1>3, PTL DEF Spec

(***************************************************************************)
(* Gates and refusals.                                                     *)
(***************************************************************************)

(* A budget row is a row of the table, its limits whole.                   *)
LEMMA BudgetRow ==
  ASSUME NEW t \in Tenants, NEW m \in Months
  PROVE  /\ CostBudgets[t][m] \in Budget \cup {NoBudget}
         /\ CostBudgets[t][m] # NoBudget =>
              /\ CostBudgets[t][m] \in Budget
              /\ Whole(CostBudgets[t][m].monthly_cap)
              /\ Whole(CostBudgets[t][m].per_run_cap)
              /\ Whole(CostBudgets[t][m].balance_floor)
BY BudgetAssumption, CapAssumption

(* A call is answered BUDGET_EXCEEDED only by the statement that asks.     *)
LEMMA RefusedByBudget ==
  ASSUME LadderInv, Next, NEW a \in Attempts, pc[a] # "done", pc'[a] = "done",
         answer'[a].code = "BUDGET_EXCEEDED"
  PROVE  FailBudget(a)
<1>1. ASSUME NEW x \in Attempts, Step(x) \/ Crash(x) \/ Begin(x), x # a
      PROVE  pc'[a] = pc[a]
  BY <1>1 DEF Step, LookupMiss, LookupReplay, LookupConflict, LoadPreview,
     RefusePreview, PassBudget, FailBudget, WaitForHolder, InsertApproval, RefuseInsert,
     DispatchReturns, DispatchRaises, Finalize, WriteCard, RefuseCard, Commit, Crash,
     Begin, Raise, Goto, LadderInv, TypeOK
<1>2. (\E x \in Attempts : Step(x) \/ Crash(x) \/ Begin(x)) \/ UNCHANGED ladder
  BY DEF Next, PricePreview, StorePreview, LosePreview, BillLater, Tick
<1>3. Step(a) \/ Crash(a) \/ Begin(a)
  BY <1>1, <1>2 DEF ladder
<1>4. ~Commit(a)
  <2>1. ASSUME Commit(a) PROVE FALSE
    <3>1. AnswersOwn(a) \/ AnswersReplay(a)
      BY <2>1 DEF Commit, LadderInv, RowFollowsStep
    <3>2. CASE AnswersOwn(a)
      BY <2>1, <3>2 DEF AnswersOwn, Commit, LadderInv, TypeOK
    <3>3. CASE AnswersReplay(a)
      <4>1. PICK b \in Winners(a) : answer[a] = [code |-> "OK", approval |-> b,
                                                 cost |-> approval[b].cost]
        BY <3>3 DEF AnswersReplay
      <4> QED
        BY <2>1, <4>1 DEF Commit, LadderInv, TypeOK
    <3> QED
      BY <3>1, <3>2, <3>3
  <2> QED
    BY <2>1
<1>5. ASSUME NEW code, Raise(a, code)
      PROVE  code = "BUDGET_EXCEEDED"
  BY <1>5 DEF Raise, LadderInv, TypeOK
<1>6. ~(LookupConflict(a) \/ RefusePreview(a) \/ RefuseInsert(a) \/ DispatchRaises(a)
        \/ RefuseCard(a) \/ Crash(a))
  BY <1>5 DEF LookupConflict, RefusePreview, RefuseInsert, DispatchRaises, RefuseCard, Crash
<1>7. ~(\/ Begin(a) \/ LookupMiss(a) \/ LookupReplay(a) \/ LoadPreview(a) \/ PassBudget(a)
        \/ WaitForHolder(a) \/ InsertApproval(a) \/ DispatchReturns(a) \/ Finalize(a)
        \/ WriteCard(a))
  BY DEF Begin, LookupMiss, LookupReplay, LoadPreview, PassBudget, WaitForHolder,
         InsertApproval, DispatchReturns, Finalize, WriteCard, Goto, LadderInv, TypeOK
<1> QED
  BY <1>3, <1>4, <1>6, <1>7 DEF Step

(* A call that has ended is left alone.                                    *)
LEMMA DoneKept ==
  ASSUME LadderInv, Next, NEW a \in Attempts, pc[a] = "done"
  PROVE  pc'[a] = "done" /\ answer'[a] = answer[a]
<1>1. ASSUME NEW x \in Attempts, Step(x) \/ Crash(x) \/ Begin(x)
      PROVE  pc'[a] = pc[a] /\ answer'[a] = answer[a]
  <2>1. x # a
    BY <1>1 DEF Step, LookupMiss, LookupReplay, LookupConflict, LoadPreview,
     RefusePreview, PassBudget, FailBudget, WaitForHolder, InsertApproval, RefuseInsert,
     DispatchReturns, DispatchRaises, Finalize, WriteCard, RefuseCard, Commit, Crash,
     Begin, Active, Steps
  <2> QED
    BY <1>1, <2>1 DEF Step, LookupMiss, LookupReplay, LookupConflict, LoadPreview,
     RefusePreview, PassBudget, FailBudget, WaitForHolder, InsertApproval, RefuseInsert,
     DispatchReturns, DispatchRaises, Finalize, WriteCard, RefuseCard, Commit, Crash,
     Begin, Raise, Returns, Goto, LadderInv, TypeOK
<1>2. (\E x \in Attempts : Step(x) \/ Crash(x) \/ Begin(x)) \/ UNCHANGED ladder
  BY DEF Next, PricePreview, StorePreview, LosePreview, BillLater, Tick
<1> QED
  BY <1>1, <1>2 DEF ladder

(* What is priced against whole spend is quoted as it would be enforced,   *)
(* also once the column has rounded it.                                    *)
LEMMA PricedQuote ==
  ASSUME LadderInv, GatesInv, NEW p \in Previews, PricePreview(p)
  PROVE  Whole(preview'[p].spent) /\ QuoteHolds(preview'[p])
<1>1. PICK r \in PreviewRequests :
        preview' = [preview EXCEPT ![p] =
             [stage |-> "priced", tenant |-> r.tenant, operation |-> r.operation,
              actor |-> r.actor, estimate |-> Stored(r.estimate),
              balance |-> r.balance,
              passes |-> Passes(EvaluateGates(BudgetOf(r.tenant, clock),
                                  SpendOf(r.tenant, clock), r.estimate, r.balance)),
              spent |-> SpendOf(r.tenant, clock), month |-> MonthOf(clock),
              expires_at |-> clock + PreviewTTL]]
  BY DEF PricePreview
<1> DEFINE m == MonthOf(clock)
           b == CostBudgets[r.tenant][m]
           s == spend[r.tenant][m]
           x == IF r.balance # NoBalance /\ Whole(r.balance) THEN r.balance ELSE NoBalance
<1>2. /\ r.tenant \in Tenants /\ r.estimate \in Amount
      /\ r.balance \in Int \cup {NoBalance} /\ x \in Int \cup {NoBalance}
  BY RequestAssumption DEF PreviewRequest
<1>3. m \in Months
  BY ClockAssumption DEF LadderInv, TypeOK
<1>4. s \in Amount /\ Whole(s)
  BY <1>2, <1>3 DEF LadderInv, TypeOK, GatesInv
<1>5. /\ preview'[p].tenant = r.tenant /\ preview'[p].month = m
      /\ preview'[p].spent = s /\ preview'[p].estimate = Stored(r.estimate)
      /\ preview'[p].balance = r.balance
      /\ preview'[p].passes = Passes(EvaluateGates(b, s, r.estimate, r.balance))
  BY <1>1 DEF LadderInv, TypeOK, BudgetOf, SpendOf
<1>6. b \in Budget \cup {NoBudget}
      /\ (b # NoBudget => /\ b \in Budget /\ Whole(b.monthly_cap)
                          /\ Whole(b.per_run_cap) /\ Whole(b.balance_floor))
  BY <1>2, <1>3, BudgetRow
<1>7. (x # NoBalance => Whole(x)) /\ (x = NoBalance \/ x = r.balance)
  OBVIOUS
<1> HIDE DEF b, s, m, x
<1>8. ASSUME preview'[p].passes
      PROVE  AssertBudget(b, s, Stored(r.estimate), x)
  <2>1. AssertBudget(b, s, r.estimate, r.balance)
    BY <1>2, <1>4, <1>5, <1>6, <1>8, GatesMirrorEnforcement
  <2>2. x = NoBalance \/ (r.balance # NoBalance /\ r.balance <= x)
    BY <1>2, <1>7
  <2>3. AssertBudget(b, s, r.estimate, x)
    <3>1. s <= s /\ r.estimate <= r.estimate
      BY <1>2, <1>4 DEF Amount
    <3> QED
      BY <1>2, <1>4, <1>6, <2>1, <2>2, <3>1, AssertMonotone, Zenon
  <2>4. b \in Budget
    BY <1>6, <2>1 DEF AssertBudget
  <2> QED
    BY <1>2, <1>4, <1>6, <1>7, <2>3, <2>4, AssertStored, AbsentAssumption, Zenon
<1> QED
  BY <1>4, <1>5, <1>8 DEF QuoteHolds, b, m, s, x

(* No step makes the two sides of spend control disagree.                  *)
LEMMA GatesNext ==
  ASSUME LadderInv, PricedInv, GatesInv, [Next]_vars
  PROVE  GatesInv'
<1>1. CASE UNCHANGED vars
  BY <1>1 DEF vars, ladder, GatesInv, QuoteHolds, RefusalStands, Loads, Affordable, BudgetOf,
              SpendOf
<1>2. CASE Next
  <2>1. \A t \in Tenants, m \in Months : Whole(spend'[t][m])
    BY SpendGrows DEF GatesInv
  <2>2. ASSUME NEW p \in Previews, preview'[p] # None
        PROVE  Whole(preview'[p].spent) /\ QuoteHolds(preview'[p])
    <3>1. CASE PricePreview(p)
      BY <3>1, PricedQuote
    <3>2. CASE preview'[p] = preview[p]
      BY <2>2, <3>2 DEF GatesInv
    <3>3. CASE StorePreview(p)
      <4>1. preview[p] # None /\ preview[p] \in PreviewRow
            /\ preview'[p] = [preview[p] EXCEPT !.stage = "stored"]
        BY <3>3 DEF StorePreview, OpenPreviews, LadderInv, TypeOK
      <4>2. /\ preview'[p].tenant = preview[p].tenant
            /\ preview'[p].month = preview[p].month
            /\ preview'[p].spent = preview[p].spent
            /\ preview'[p].estimate = preview[p].estimate
            /\ preview'[p].balance = preview[p].balance
            /\ preview'[p].passes = preview[p].passes
        BY <4>1 DEF PreviewRow
      <4> QED
        BY <4>1, <4>2 DEF GatesInv, QuoteHolds
    <3>4. CASE LosePreview(p)
      BY <2>2, <3>4 DEF LosePreview, LadderInv, TypeOK
    <3>5. ASSUME NEW q \in Previews, q # p,
                 PricePreview(q) \/ StorePreview(q) \/ LosePreview(q)
          PROVE  preview'[p] = preview[p]
      <4>1. \E row : preview' = [preview EXCEPT ![q] = row]
        BY <3>5 DEF PricePreview, StorePreview, LosePreview
      <4> QED
        BY <3>5, <4>1 DEF LadderInv, TypeOK
    <3>6. \/ \E q \in Previews : PricePreview(q) \/ StorePreview(q) \/ LosePreview(q)
          \/ preview' = preview
      BY <1>2 DEF Next, Step, Begin, LookupMiss, LookupReplay, LookupConflict, LoadPreview,
         RefusePreview, PassBudget, FailBudget, WaitForHolder, InsertApproval, RefuseInsert,
         DispatchReturns, DispatchRaises, Finalize, WriteCard, RefuseCard, Commit, Crash,
         BillLater, Tick
    <3> QED
      BY <3>1, <3>2, <3>3, <3>4, <3>5, <3>6
  <2>3. ASSUME "connection" \notin Faults, NEW a \in Attempts,
               pc'[a] = "done", answer'[a].code = "BUDGET_EXCEEDED"
        PROVE  Loads(a)' /\ ~Affordable(a)'
    <3>1. Loads(a) /\ ~Affordable(a) /\ pc[a] # "idle"
      <4>1. CASE pc[a] = "done"
        BY <1>2, <2>3, <4>1, DoneKept DEF GatesInv, RefusalStands
      <4>2. CASE pc[a] # "done"
        <5>1. FailBudget(a)
          BY <1>2, <2>3, <4>2, RefusedByBudget
        <5> QED
          BY <2>3, <5>1 DEF FailBudget, PricedInv, PricedSteps, Quoted
      <4> QED
        BY <4>1, <4>2
    <3>2. req[a] \in Requests /\ req'[a] = req[a] /\ began'[a] = began[a]
      BY <1>2, <3>1, RequestKept DEF LadderInv, AnswerFollowsRow
    <3>3. Loads(a)'
      <4>1. req[a].preview \in Previews
        BY <3>2, RequestAssumption DEF Request
      <4>2. preview'[req[a].preview] = preview[req[a].preview]
        BY <1>2, <3>1, <4>1, StoredPreviewKept DEF Loads
      <4> QED
        BY <3>1, <3>2, <4>2 DEF Loads
    <3>4. ~Affordable(a)'
      <4> DEFINE t == req[a].tenant
                 m == MonthOf(began[a])
                 c == req[a].cost
                 x == req[a].balance
      <4>1. t \in Tenants /\ c \in Amount /\ x \in Int \cup {NoBalance}
        BY <3>2, RequestAssumption DEF Request
      <4>2. m \in Months
        BY ClockAssumption DEF LadderInv, TypeOK
      <4>3. /\ Affordable(a) <=> AssertBudget(CostBudgets[t][m], spend[t][m], c, x)
            /\ Affordable(a)' <=> AssertBudget(CostBudgets[t][m], spend'[t][m], c, x)
        BY <3>2 DEF Affordable, BudgetOf, SpendOf
      <4> HIDE DEF t, m, c, x
      <4>4. /\ spend[t][m] \in Amount /\ spend'[t][m] \in Amount
            /\ spend[t][m] <= spend'[t][m]
        BY <4>1, <4>2, SpendGrows
      <4>5. CostBudgets[t][m] \in Budget \cup {NoBudget}
        BY <4>1, <4>2, BudgetRow
      <4>6. c <= c /\ (x = NoBalance \/ (x # NoBalance /\ x <= x))
        BY <4>1 DEF Amount
      <4>7. AssertBudget(CostBudgets[t][m], spend'[t][m], c, x)
            => AssertBudget(CostBudgets[t][m], spend[t][m], c, x)
        BY <4>1, <4>4, <4>5, <4>6, AssertMonotone, Zenon
      <4> QED
        BY <3>1, <4>3, <4>7
    <3> QED
      BY <3>3, <3>4
  <2> QED
    BY <2>1, <2>2, <2>3 DEF GatesInv, RefusalStands
<1> QED
  BY <1>1, <1>2

(* Nothing is spent, priced or refused at the start.                       *)
LEMMA GatesInit == Init => GatesInv
<1>1. Whole(0)
  <2>1. 0 \in Int /\ 0 = 0 * Grain
    BY GrainAssumption
  <2> QED
    BY <2>1, WholeMultiple
<1> QED
  BY <1>1 DEF Init, GatesInv, RefusalStands

(* So the two sides agree in every reachable state.                        *)
LEMMA GatesInvariant == Spec => []GatesInv
<1>1. LadderInv /\ LadderInv' /\ PricedInv /\ GatesInv /\ [Next]_vars => GatesInv'
  BY GatesNext
<1> QED
  BY <1>1, GatesInit, LadderInvariant, PricedInvariant, PTL DEF Spec

(* After a preview that passed, a refusal at no higher a price and no      *)
(* lower a balance in its month means that money was billed in between.    *)
THEOREM GatesHold == Spec => []GatesMatchRefusals
<1>1. ASSUME LadderInv, GatesInv PROVE GatesMatchRefusals
  <2> SUFFICES ASSUME NEW a \in Attempts, "connection" \notin Faults, pc[a] = "done",
                      answer[a].code = "BUDGET_EXCEEDED", PassingPreviewHolds(a)
               PROVE  SpendOf(req[a].tenant, began[a]) > preview[req[a].preview].spent
    BY DEF GatesMatchRefusals
  <2> DEFINE t == req[a].tenant
             m == MonthOf(began[a])
             b == CostBudgets[t][m]
             p == preview[req[a].preview]
             x == IF p.balance # NoBalance /\ Whole(p.balance) THEN p.balance ELSE NoBalance
  <2>1. Loads(a) /\ ~AssertBudget(b, spend[t][m], req[a].cost, req[a].balance)
    BY <1>1 DEF GatesInv, RefusalStands, Affordable, BudgetOf, SpendOf
  <2>2. /\ t \in Tenants /\ req[a].cost \in Amount /\ req[a].preview \in Previews
        /\ req[a].balance \in Int \cup {NoBalance}
    BY <1>1, RequestAssumption DEF LadderInv, AnswerFollowsRow, Request
  <2>3. m \in Months
    BY <1>1, ClockAssumption DEF LadderInv, TypeOK
  <2>4. p # None /\ p.tenant = t /\ p.month = m
    BY <2>1 DEF Loads, PassingPreviewHolds
  <2>5. p.estimate \in Amount /\ p.spent \in Amount /\ p.balance \in Int \cup {NoBalance}
    BY <1>1, <2>2, <2>4 DEF LadderInv, TypeOK, PreviewRow
  <2>6. AssertBudget(b, p.spent, p.estimate, x)
    BY <1>1, <2>2, <2>4 DEF GatesInv, QuoteHolds, PassingPreviewHolds
  <2>7. /\ req[a].cost <= p.estimate
        /\ req[a].balance = NoBalance \/ (x # NoBalance /\ x <= req[a].balance)
        /\ x \in Int \cup {NoBalance}
    BY <2>5 DEF PassingPreviewHolds
  <2>8. spend[t][m] \in Amount
    BY <1>1, <2>2, <2>3 DEF LadderInv, TypeOK
  <2>9. b \in Budget \cup {NoBudget}
    BY <2>2, <2>3, BudgetRow
  <2>10. spend[t][m] > p.spent
    <3>1. CASE spend[t][m] <= p.spent
      <4> HIDE DEF t, m, b, p, x
      <4> QED
        BY <2>1, <2>2, <2>5, <2>6, <2>7, <2>8, <2>9, <3>1, AssertMonotone, Zenon
    <3> QED
      BY <2>5, <2>8, <3>1 DEF Amount
  <2> QED
    BY <2>10 DEF SpendOf
<1> QED
  BY <1>1, LadderInvariant, GatesInvariant, PTL

(***************************************************************************)
(* How far concurrent calls can overrun a hard monthly cap.                *)
(***************************************************************************)

(* A set grown by at most one element has at most one element more.        *)
LEMMA GrownByOne ==
  ASSUME NEW S, IsFiniteSet(S), NEW x, NEW T, T \subseteq S \cup {x}
  PROVE  /\ IsFiniteSet(T) /\ Cardinality(T) \in Nat /\ Cardinality(S) \in Nat
         /\ Cardinality(T) <= Cardinality(S) + 1
         /\ T \subseteq S => Cardinality(T) <= Cardinality(S)
         /\ T \subseteq S /\ (\E y \in S : y \notin T)
              => Cardinality(T) <= Cardinality(S) - 1
<1>1. IsFiniteSet(S \cup {x}) /\ Cardinality(S \cup {x}) <= Cardinality(S) + 1
  <2>1. /\ IsFiniteSet(S \cup {x})
        /\ Cardinality(S \cup {x})
             = IF x \in S THEN Cardinality(S) ELSE Cardinality(S) + 1
    BY FS_AddElement
  <2> QED
    BY <2>1, FS_CardinalityType
<1>2. IsFiniteSet(T) /\ Cardinality(T) <= Cardinality(S \cup {x})
  BY <1>1, FS_Subset
<1>3. Cardinality(T) \in Nat /\ Cardinality(S) \in Nat /\ Cardinality(S \cup {x}) \in Nat
  BY <1>1, <1>2, FS_CardinalityType
<1>4. T \subseteq S => Cardinality(T) <= Cardinality(S)
  BY FS_Subset
<1>5. ASSUME T \subseteq S, NEW y \in S, y \notin T
      PROVE  Cardinality(T) <= Cardinality(S) - 1
  <2>1. /\ IsFiniteSet(S \ {y})
        /\ Cardinality(S \ {y})
             = IF y \in S THEN Cardinality(S) - 1 ELSE Cardinality(S)
    BY FS_RemoveElement
  <2>2. T \subseteq S \ {y}
    BY <1>5
  <2>3. Cardinality(T) <= Cardinality(S \ {y})
    BY <2>1, <2>2, FS_Subset
  <2> QED
    BY <1>5, <2>1, <2>3
<1> QED
  BY <1>1, <1>2, <1>3, <1>4, <1>5

(* The pools never hand out more connections than they have.               *)
LEMMA PoolNext ==
  ASSUME LadderInv, PoolBounded, [Next]_vars
  PROVE  PoolBounded'
<1>1. IsFiniteSet(OpenTransactions) /\ IsFiniteSet(OpenPreviews)
  BY AttemptAssumption, FS_Subset DEF OpenTransactions, OpenPreviews
<1>2. PoolSize \in Nat
  BY ClockAssumption
<1>3. ASSUME NEW a \in Attempts, Begin(a)
      PROVE  PoolBounded'
  <2>1. OpenTransactions' \subseteq OpenTransactions \cup {a}
        /\ OpenPreviews' \subseteq OpenPreviews
    BY <1>3 DEF Begin, Goto, OpenTransactions, OpenPreviews, Active, LadderInv, TypeOK
  <2>2. Cardinality(OpenTransactions) + Cardinality(OpenPreviews) < PoolSize
    BY <1>3 DEF Begin, PoolHasRoom
  <2>3. /\ Cardinality(OpenTransactions') <= Cardinality(OpenTransactions) + 1
        /\ Cardinality(OpenPreviews') <= Cardinality(OpenPreviews)
        /\ Cardinality(OpenTransactions) \in Nat /\ Cardinality(OpenPreviews) \in Nat
        /\ Cardinality(OpenTransactions') \in Nat /\ Cardinality(OpenPreviews') \in Nat
    <3> HIDE DEF OpenTransactions, OpenPreviews
    <3> QED
      BY <1>1, <2>1, GrownByOne
  <2> QED
    BY <1>2, <2>2, <2>3 DEF PoolBounded
<1>4. ASSUME NEW p \in Previews, PricePreview(p)
      PROVE  PoolBounded'
  <2>1. OpenTransactions' \subseteq OpenTransactions
        /\ OpenPreviews' \subseteq OpenPreviews \cup {p}
    BY <1>4 DEF PricePreview, OpenTransactions, OpenPreviews, Active, LadderInv, TypeOK, ladder
  <2>2. Cardinality(OpenTransactions) + Cardinality(OpenPreviews) < PoolSize
    BY <1>4 DEF PricePreview, PoolHasRoom
  <2>3. /\ Cardinality(OpenTransactions') <= Cardinality(OpenTransactions)
        /\ Cardinality(OpenPreviews') <= Cardinality(OpenPreviews) + 1
        /\ Cardinality(OpenTransactions) \in Nat /\ Cardinality(OpenPreviews) \in Nat
        /\ Cardinality(OpenTransactions') \in Nat /\ Cardinality(OpenPreviews') \in Nat
    <3> HIDE DEF OpenTransactions, OpenPreviews
    <3> QED
      BY <1>1, <2>1, GrownByOne
  <2> QED
    BY <1>2, <2>2, <2>3 DEF PoolBounded
<1>5. ASSUME OpenTransactions' \subseteq OpenTransactions,
             OpenPreviews' \subseteq OpenPreviews
      PROVE  PoolBounded'
  <2>1. /\ Cardinality(OpenTransactions') <= Cardinality(OpenTransactions)
        /\ Cardinality(OpenPreviews') <= Cardinality(OpenPreviews)
        /\ Cardinality(OpenTransactions) \in Nat /\ Cardinality(OpenPreviews) \in Nat
        /\ Cardinality(OpenTransactions') \in Nat /\ Cardinality(OpenPreviews') \in Nat
    <3> HIDE DEF OpenTransactions, OpenPreviews
    <3> QED
      BY <1>1, <1>5, GrownByOne
  <2> QED
    BY <1>2, <2>1 DEF PoolBounded
<1>6. ASSUME NEW a \in Attempts, Step(a) \/ Crash(a)
      PROVE  OpenTransactions' \subseteq OpenTransactions
             /\ OpenPreviews' \subseteq OpenPreviews
  <2>1. pc[a] \in Steps /\ preview' = preview
        /\ \A x \in Attempts \ {a} : pc'[x] = pc[x]
    BY <1>6 DEF Step, LookupMiss, LookupReplay, LookupConflict, LoadPreview,
       RefusePreview, PassBudget, FailBudget, WaitForHolder, InsertApproval, RefuseInsert,
       DispatchReturns, DispatchRaises, Finalize, WriteCard, RefuseCard, Commit, Crash,
       Active, Steps, Raise, Goto, LadderInv, TypeOK
  <2> QED
    BY <2>1 DEF OpenTransactions, OpenPreviews, Active
<1>7. ASSUME NEW p \in Previews, StorePreview(p) \/ LosePreview(p)
      PROVE  OpenTransactions' \subseteq OpenTransactions
             /\ OpenPreviews' \subseteq OpenPreviews
  BY <1>7 DEF StorePreview, LosePreview, OpenTransactions, OpenPreviews, Active, ladder,
              LadderInv, TypeOK
<1>8. CASE UNCHANGED <<preview, pc>>
  BY <1>5, <1>8 DEF OpenTransactions, OpenPreviews, Active
<1>9. (\E a \in Attempts : BillLater(a)) \/ Tick \/ UNCHANGED vars
      => UNCHANGED <<preview, pc>>
  BY DEF BillLater, Tick, vars, ladder
<1> QED
  BY <1>3, <1>4, <1>5, <1>6, <1>7, <1>8, <1>9 DEF Next

(* One spender fewer makes room for its price, and an unclaimed price for  *)
(* a whole run.                                                            *)
LEMMA Room ==
  ASSUME NEW b \in Budget, b.per_run_cap >= 0, NEW u \in Int, NEW n \in Int, NEW c \in Int,
         Within(b, u, n, c), NEW n2 \in Int
  PROVE  /\ n2 <= n => Within(b, u, n2, c)
         /\ n2 <= n - 1 /\ c >= 0 => Within(b, u, n2, b.per_run_cap)
         /\ \A s \in 0..b.per_run_cap : n2 <= n - 1 =>
              /\ Within(b, u + s, n2, c)
              /\ c = s => Within(b, u + s, n2, b.per_run_cap)
<1>1. PICK r \in Int : r = b.per_run_cap /\ r >= 0
  BY DEF Budget
<1>2. PICK lim \in Int : lim = b.monthly_cap + (PoolSize - 1) * b.per_run_cap
  BY ClockAssumption DEF Budget
<1>3. n2 <= n => (n2 - 1) * r <= (n - 1) * r
  <2>1. n2 <= n => (n - n2) * r >= 0
    BY <1>1
  <2>2. (n - 1) * r = (n2 - 1) * r + (n - n2) * r
    BY <1>1
  <2> QED
    BY <1>1, <2>1, <2>2
<1>4. n2 <= n - 1 => (n2 - 1) * r <= (n - 1) * r - r
  <2>1. n2 <= n - 1 => (n - 1 - n2) * r >= 0
    BY <1>1
  <2>2. PICK k \in Int : k = n - 1 - n2
    OBVIOUS
  <2>3. PICK y \in Int, z \in Int : y = (n2 - 1) * r /\ z = k * r
    BY <1>1
  <2>4. (n - 1) * r = y + z + r
    <3>1. n - 1 = (n2 - 1) + k + 1
      BY <2>2
    <3>2. ((n2 - 1) + k + 1) * r = y + z + r
      BY <1>1, <2>2, <2>3
    <3> QED
      BY <3>1, <3>2
  <2>5. n2 <= n - 1 => z >= 0
    BY <2>1, <2>2, <2>3
  <2> QED
    BY <1>1, <2>3, <2>4, <2>5
<1>5. PICK i \in Int, j \in Int : i = (n - 1) * r /\ j = (n2 - 1) * r
  BY <1>1
<1>6. u + c + i <= lim
  BY <1>1, <1>2, <1>5 DEF Within
<1>7. (n2 <= n => j <= i) /\ (n2 <= n - 1 => j <= i - r)
  BY <1>3, <1>4, <1>5
<1>8. \A v \in Int, d \in Int : Within(b, v, n2, d) <=> v + d + j <= lim
  BY <1>1, <1>2, <1>5 DEF Within
<1> HIDE DEF Within
<1>9. n2 <= n => Within(b, u, n2, c)
  BY <1>6, <1>7, <1>8
<1>10. n2 <= n - 1 /\ c >= 0 => Within(b, u, n2, r)
  BY <1>1, <1>6, <1>7, <1>8
<1>11. ASSUME NEW s \in 0..r, n2 <= n - 1
       PROVE  Within(b, u + s, n2, c) /\ (c = s => Within(b, u + s, n2, r))
  <2>1. u + s \in Int
    BY <1>1
  <2>2. u + s + c + j <= lim
    BY <1>1, <1>6, <1>7, <1>11
  <2>3. c = s => u + s + r + j <= lim
    BY <1>1, <1>6, <1>7, <1>11
  <2> QED
    BY <1>1, <1>8, <2>1, <2>2, <2>3
<1> QED
  BY <1>1, <1>9, <1>10, <1>11

(* Who may still bill has passed assert_budget(), and keeps its request.   *)
LEMMA SpenderOrigin ==
  ASSUME LadderInv, Next, NEW t \in Tenants, NEW m \in Months,
         NEW x \in Spenders(t, m)'
  PROVE  /\ x \in Attempts /\ req'[x] = req[x] /\ began'[x] = began[x]
         /\ x \in Spenders(t, m) \/ PassBudget(x)
<1>1. /\ x \in Attempts /\ req'[x].tenant = t /\ MonthOf(began'[x]) = m
      /\ \/ pc'[x] \in {"insert", "waiting", "dispatch", "finalize", "audit"}
         \/ pc'[x] = "commit" /\ approval'[x] # None
  BY DEF Spenders, HasRow
<1>2. pc[x] # "idle" /\ req'[x] = req[x] /\ began'[x] = began[x]
  BY <1>1, RequestKept
<1>3. ASSUME NEW a \in Attempts, Step(a) \/ Crash(a) \/ Begin(a), a # x
      PROVE  pc'[x] = pc[x] /\ approval'[x] = approval[x]
  BY <1>1, <1>3 DEF Step, LookupMiss, LookupReplay, LookupConflict, LoadPreview,
     RefusePreview, PassBudget, FailBudget, WaitForHolder, InsertApproval, RefuseInsert,
     DispatchReturns, DispatchRaises, Finalize, WriteCard, RefuseCard, Commit, Crash,
     Begin, Raise, Goto, LadderInv, TypeOK
<1>4. (\E a \in Attempts : Step(a) \/ Crash(a) \/ Begin(a)) \/ UNCHANGED ladder
  BY DEF Next, PricePreview, StorePreview, LosePreview, BillLater, Tick
<1>5. CASE Step(x) \/ Crash(x) \/ Begin(x)
  <2>1. LookupReplay(x) => approval'[x] = None
    BY <1>1 DEF LookupReplay, LadderInv, RowFollowsStep, Untouched, HasRow
  <2>2. ~(\/ Begin(x) \/ LookupMiss(x) \/ LoadPreview(x) \/ LookupConflict(x)
          \/ RefusePreview(x) \/ FailBudget(x) \/ RefuseInsert(x) \/ DispatchRaises(x)
          \/ RefuseCard(x) \/ Crash(x) \/ Commit(x))
    BY <1>1 DEF Begin, LookupMiss, LoadPreview, LookupConflict, RefusePreview, FailBudget,
       RefuseInsert, DispatchRaises, RefuseCard, Crash, Commit, Raise, Goto, LadderInv, TypeOK
  <2>3. ~LookupReplay(x)
    BY <1>1, <2>1 DEF LookupReplay, Goto, LadderInv, TypeOK
  <2>4. \/ PassBudget(x) \/ WaitForHolder(x) \/ InsertApproval(x) \/ DispatchReturns(x)
        \/ Finalize(x) \/ WriteCard(x)
    BY <1>5, <2>2, <2>3 DEF Step
  <2>5. PassBudget(x) \/ pc[x] \in {"insert", "waiting", "dispatch", "finalize", "audit"}
    BY <2>4 DEF WaitForHolder, InsertApproval, DispatchReturns, Finalize, WriteCard
  <2> QED
    BY <1>1, <1>2, <2>5 DEF Spenders
<1>6. CASE pc'[x] = pc[x] /\ approval'[x] = approval[x]
  BY <1>1, <1>2, <1>6 DEF Spenders, HasRow
<1> QED
  BY <1>1, <1>2, <1>3, <1>4, <1>5, <1>6 DEF ladder

(* The spenders of a month are at most PoolSize, and none of them bills    *)
(* more than the per-run cap.                                              *)
SpendersBounded ==
  \A t \in Tenants, m \in Months :
    /\ IsFiniteSet(Spenders(t, m)) /\ Cardinality(Spenders(t, m)) \in Nat
    /\ Cardinality(Spenders(t, m)) <= PoolSize
    /\ \A a \in Spenders(t, m) :
         /\ a \in Attempts /\ CostBudgets[t][m] \in Budget
         /\ Stored(req[a].cost) \in 0..CostBudgets[t][m].per_run_cap

(* A spender was cleared by the budget of its month, whose caps are whole. *)
LEMMA SpenderPrice ==
  ASSUME LadderInv, PricedInv, NEW t \in Tenants, NEW m \in Months,
         NEW a \in Spenders(t, m)
  PROVE  /\ a \in Attempts /\ CostBudgets[t][m] \in Budget
         /\ Stored(req[a].cost) \in 0..CostBudgets[t][m].per_run_cap
<1> DEFINE b == CostBudgets[t][m]
<1>1. /\ a \in Attempts /\ pc[a] # "idle" /\ req[a].tenant = t /\ MonthOf(began[a]) = m
      /\ \/ pc[a] \in {"insert", "waiting", "dispatch"}
         \/ pc[a] \in {"finalize", "audit"}
         \/ pc[a] = "commit" /\ HasRow(a)
  BY DEF Spenders
<1>2. pc[a] \in {"finalize", "audit"} \/ (pc[a] = "commit" /\ HasRow(a)) => a \in effects
  BY <1>1 DEF LadderInv, RowFollowsStep, Executed, Untouched
<1>3. Cleared(a)
  BY <1>1, <1>2 DEF PricedInv, PricedSteps, EffectsArePriced
<1>4. b # NoBudget /\ ~OverPerRun(b, req[a].cost)
  BY <1>1, <1>3 DEF Cleared, BudgetOf
<1>5. b \in Budget /\ Whole(b.per_run_cap)
  BY <1>4, BudgetRow
<1>6. req[a].cost \in Amount
  BY <1>1, RequestAssumption DEF LadderInv, AnswerFollowsRow, Request
<1>7. b.per_run_cap \in Int /\ req[a].cost <= b.per_run_cap
  BY <1>4, <1>5, <1>6 DEF Budget, OverPerRun, Amount
<1>8. Stored(req[a].cost) \in Nat /\ Stored(req[a].cost) <= b.per_run_cap
  BY <1>5, <1>6, <1>7, StoredBounds, StoredWhole DEF Amount
<1> QED
  BY <1>1, <1>5, <1>7, <1>8

(* Spenders are open transactions, so no more than the pools allow.        *)
LEMMA SpendersFit ==
  ASSUME LadderInv, PoolBounded, NEW t \in Tenants, NEW m \in Months
  PROVE  /\ IsFiniteSet(Spenders(t, m)) /\ Cardinality(Spenders(t, m)) \in Nat
         /\ Cardinality(Spenders(t, m)) <= PoolSize
<1>1. Spenders(t, m) \subseteq OpenTransactions
  BY DEF Spenders, OpenTransactions, Active, Steps
<1>2. IsFiniteSet(OpenTransactions) /\ IsFiniteSet(OpenPreviews)
  BY AttemptAssumption, FS_Subset DEF OpenTransactions, OpenPreviews
<1> HIDE DEF Spenders, OpenTransactions, OpenPreviews
<1>3. /\ IsFiniteSet(Spenders(t, m)) /\ Cardinality(Spenders(t, m)) \in Nat
      /\ Cardinality(Spenders(t, m)) <= Cardinality(OpenTransactions)
      /\ Cardinality(OpenTransactions) \in Nat /\ Cardinality(OpenPreviews) \in Nat
  BY <1>1, <1>2, FS_Subset, FS_CardinalityType
<1> QED
  BY <1>3, ClockAssumption DEF PoolBounded

(* Both of every month.                                                    *)
LEMMA SpendersAreBounded == LadderInv /\ PricedInv /\ PoolBounded => SpendersBounded
BY SpenderPrice, SpendersFit DEF SpendersBounded

(* Whoever passes assert_budget() now is foreseen with what it saw spent:  *)
(* every other spender of the month may add a whole run.                   *)
LEMMA PassForeseen ==
  ASSUME LadderInv, GatesInv, SpendersBounded', NEW t \in Tenants, NEW m \in Months,
         NEW a \in Spenders(t, m)', PassBudget(a)
  PROVE  Foreseen(t, m)'
<1> DEFINE b == CostBudgets[t][m]
           u == spend[t][m]
           n == Cardinality(Spenders(t, m)')
           c == Stored(req[a].cost)
<1>1. /\ a \in Attempts /\ req' = req /\ req[a].tenant = t /\ MonthOf(began[a]) = m
      /\ spend' = spend /\ req[a] \in Requests
  BY DEF PassBudget, Spenders, LadderInv, AnswerFollowsRow
<1>2. AssertBudget(b, u, req[a].cost, req[a].balance)
  BY <1>1 DEF PassBudget, Affordable, BudgetOf, SpendOf
<1>3. b \in Budget /\ c \in 0..b.per_run_cap /\ n \in Nat /\ n <= PoolSize
  BY <1>1 DEF SpendersBounded
<1>4. u \in Amount /\ Whole(u)
  BY DEF LadderInv, TypeOK, GatesInv
<1>5. /\ req[a].cost \in Amount /\ req[a].balance \in Int \cup {NoBalance}
      /\ NoBalance \in Int \cup {NoBalance}
  BY <1>1, RequestAssumption DEF Request
<1>6. b # NoBudget
  BY <1>2 DEF AssertBudget
<1>7. Whole(b.monthly_cap) /\ Whole(b.per_run_cap) /\ Whole(b.balance_floor)
  BY <1>6, BudgetRow
<1> HIDE DEF b, u, n, c
<1>8. AssertBudget(b, u, req[a].cost, NoBalance)
  <2>1. u <= u /\ req[a].cost <= req[a].cost
    BY <1>4, <1>5 DEF Amount
  <2> QED
    BY <1>2, <1>3, <1>4, <1>5, <2>1, AssertMonotone, Zenon
<1>9. AssertBudget(b, u, c, NoBalance)
  BY <1>3, <1>4, <1>5, <1>7, <1>8, AssertStored, Zenon DEF c
<1>10. b.hard_stop => Within(b, u, n, c)
  <2>1. ASSUME b.hard_stop PROVE u + c <= b.monthly_cap
    BY <1>3, <1>4, <1>9, <2>1 DEF AssertBudget, OverMonthly, Budget, Amount
  <2>2. (n - 1) * b.per_run_cap <= (PoolSize - 1) * b.per_run_cap
    <3>1. PICK r \in Int : r = b.per_run_cap /\ r >= 0
      BY <1>3 DEF Budget
    <3>2. PICK d \in Int : d = PoolSize - n /\ d >= 0
      BY <1>3, ClockAssumption
    <3>0. PICK e \in Int : e = n - 1
      BY <1>3
    <3>3. PICK y \in Int, z \in Int : y = e * r /\ z = d * r
      BY <3>0, <3>1
    <3>4. z >= 0
      BY <3>1, <3>2, <3>3
    <3>5. PoolSize - 1 = e + d
      BY <1>3, <3>0, <3>2, ClockAssumption
    <3>6. (e + d) * r = y + z
      BY <3>0, <3>1, <3>3
    <3> QED
      BY <3>0, <3>1, <3>3, <3>4, <3>5, <3>6
  <2>3. PICK i \in Int, j \in Int :
          i = (n - 1) * b.per_run_cap /\ j = (PoolSize - 1) * b.per_run_cap
    BY <1>3, ClockAssumption DEF Budget
  <2> QED
    BY <1>3, <1>4, <2>1, <2>2, <2>3 DEF Within, Budget, Amount
<1>11. b.per_run_cap >= 0
  BY <1>3 DEF Budget
<1>12. c \in {b.per_run_cap} \cup {Stored(req'[x].cost) : x \in Spenders(t, m)'}
  BY <1>1 DEF c
<1> QED
  BY <1>1, <1>6, <1>10, <1>11, <1>12 DEF Foreseen, b, u, n

(* Nobody new may bill, and nothing is billed: a spender that gave up      *)
(* leaves room for a whole run.                                            *)
LEMMA QuietForeseen ==
  ASSUME SpendersBounded, SpendersBounded', NEW t \in Tenants, NEW m \in Months,
         spend[t][m] \in Amount, Foreseen(t, m), spend'[t][m] = spend[t][m],
         Spenders(t, m)' \subseteq Spenders(t, m),
         \A x \in Spenders(t, m)' : req'[x] = req[x]
  PROVE  Foreseen(t, m)'
<1> DEFINE b == CostBudgets[t][m]
           u == spend[t][m]
           S == Spenders(t, m)
           T == Spenders(t, m)'
           n == Cardinality(S)
           k == Cardinality(T)
<1> SUFFICES ASSUME u > 0 \/ k > 0
             PROVE  /\ b # NoBudget /\ b.per_run_cap >= 0
                    /\ b.hard_stop =>
                         \E c \in {b.per_run_cap} \cup {Stored(req'[x].cost) : x \in T} :
                           Within(b, u, k, c)
  BY DEF Foreseen
<1>1. IsFiniteSet(S) /\ n \in Nat /\ k \in Nat /\ T \subseteq S /\ u \in Int
  BY DEF SpendersBounded, Amount
<1>2. k <= n /\ \A w \in S : w \notin T => k <= n - 1
  <2> HIDE DEF S, T
  <2> QED
    BY <1>1, GrownByOne
<1>3. /\ b # NoBudget /\ b.per_run_cap >= 0
      /\ b.hard_stop => \E c \in {b.per_run_cap} \cup {Stored(req[x].cost) : x \in S} :
                           Within(b, u, n, c)
  BY <1>1, <1>2 DEF Foreseen
<1>4. b \in Budget
  BY <1>3, BudgetRow
<1> HIDE DEF u, S, T, n, k, b
<1>5. ASSUME b.hard_stop
      PROVE  \E c \in {b.per_run_cap} \cup {Stored(req'[x].cost) : x \in T} : Within(b, u, k, c)
  <2>1. CASE Within(b, u, n, b.per_run_cap)
    <3>1. Within(b, u, k, b.per_run_cap)
      BY <1>1, <1>2, <1>3, <1>4, <2>1, Room DEF Budget
    <3> QED
      BY <3>1
  <2>2. CASE \E w \in S : Within(b, u, n, Stored(req[w].cost))
    <3>1. PICK w \in S : Within(b, u, n, Stored(req[w].cost))
      BY <2>2
    <3>2. PICK c \in Int : c = Stored(req[w].cost) /\ c >= 0
      BY <1>4 DEF SpendersBounded, S, b
    <3>3. CASE w \in T
      <4>1. Within(b, u, k, c)
        BY <1>1, <1>2, <1>3, <1>4, <3>1, <3>2, Room
      <4>2. c = Stored(req'[w].cost)
        BY <3>2, <3>3 DEF T
      <4> QED
        BY <3>3, <4>1, <4>2
    <3>4. CASE w \notin T
      <4>1. Within(b, u, k, b.per_run_cap)
        BY <1>1, <1>2, <1>3, <1>4, <3>1, <3>2, <3>4, Room
      <4> QED
        BY <4>1
    <3> QED
      BY <3>3, <3>4
  <2> QED
    BY <1>3, <1>5, <2>1, <2>2
<1> QED
  BY <1>3, <1>5

(* A spender bills and is one no more: its price was foreseen.             *)
LEMMA BillForeseen ==
  ASSUME SpendersBounded, SpendersBounded', NEW t \in Tenants, NEW m \in Months,
         spend[t][m] \in Amount, Foreseen(t, m), NEW a \in Spenders(t, m),
         spend'[t][m] = spend[t][m] + Stored(req[a].cost),
         Spenders(t, m)' = Spenders(t, m) \ {a}, req' = req
  PROVE  Foreseen(t, m)'
<1> DEFINE b == CostBudgets[t][m]
           u == spend[t][m]
           s == Stored(req[a].cost)
           S == Spenders(t, m)
           T == Spenders(t, m)'
           n == Cardinality(S)
           k == Cardinality(T)
<1>1. /\ IsFiniteSet(S) /\ n \in Nat /\ k \in Nat /\ T = S \ {a} /\ a \in S
      /\ u \in Int /\ b \in Budget /\ s \in 0..b.per_run_cap
  <2>1. k \in Nat
    BY DEF SpendersBounded
  <2>2. IsFiniteSet(S) /\ n \in Nat /\ b \in Budget /\ s \in 0..b.per_run_cap
    BY DEF SpendersBounded
  <2>3. u \in Int
    BY DEF Amount
  <2> HIDE DEF s, b, u, n, k
  <2> QED
    BY <2>1, <2>2, <2>3
<1>2. k <= n - 1 /\ n > 0
  <2>1. T \subseteq S /\ a \in S /\ a \notin T
    BY <1>1
  <2> HIDE DEF S, T
  <2>2. k <= n - 1
    BY <1>1, <2>1, GrownByOne
  <2> QED
    BY <1>1, <2>2
<1>3. /\ b # NoBudget /\ b.per_run_cap >= 0
      /\ b.hard_stop => \E c \in {b.per_run_cap} \cup {Stored(req[x].cost) : x \in S} :
                           Within(b, u, n, c)
  BY <1>2 DEF Foreseen
<1>4. ASSUME /\ b # NoBudget /\ b.per_run_cap >= 0
             /\ b.hard_stop => \E c \in {b.per_run_cap} \cup {Stored(req[x].cost) : x \in T} :
                                  Within(b, u + s, k, c)
      PROVE  Foreseen(t, m)'
  BY <1>4 DEF Foreseen
<1> HIDE DEF u, s, S, T, n, k, b
<1>5. ASSUME b.hard_stop
      PROVE  \E c \in {b.per_run_cap} \cup {Stored(req[x].cost) : x \in T} :
               Within(b, u + s, k, c)
  <2>0. b.per_run_cap \in Int
    BY <1>1 DEF Budget
  <2>1. CASE Within(b, u, n, b.per_run_cap)
    <3>1. Within(b, u + s, k, b.per_run_cap)
      BY <1>1, <1>2, <1>3, <2>0, <2>1, Room
    <3> QED
      BY <3>1
  <2>2. CASE \E w \in S : Within(b, u, n, Stored(req[w].cost))
    <3>1. PICK w \in S : Within(b, u, n, Stored(req[w].cost))
      BY <2>2
    <3>2. PICK c \in Int : c = Stored(req[w].cost)
      BY <1>1 DEF SpendersBounded, S, b
    <3>3. CASE w \in T
      <4>1. Within(b, u + s, k, c)
        BY <1>1, <1>2, <1>3, <3>1, <3>2, Room
      <4> QED
        BY <3>2, <3>3, <4>1
    <3>4. CASE w \notin T
      <4>1. c = s
        BY <1>1, <3>2, <3>4 DEF s
      <4>2. Within(b, u + s, k, b.per_run_cap)
        BY <1>1, <1>2, <1>3, <3>1, <3>2, <4>1, Room
      <4> QED
        BY <4>2
    <3> QED
      BY <3>3, <3>4
  <2> QED
    BY <1>3, <1>5, <2>1, <2>2
<1> QED
  BY <1>3, <1>4, <1>5

(* Every step spends no more than was foreseen.                            *)
LEMMA ForeseenNext ==
  ASSUME LadderInv, LadderInv', PricedInv, PricedInv', GatesInv, SpendInv, BillsInline,
         PoolBounded', Next, NEW t \in Tenants, NEW m \in Months
  PROVE  Foreseen(t, m)'
<1>1. SpendersBounded /\ SpendersBounded' /\ Foreseen(t, m)
  <2>1. SpendersBounded
    BY SpendersAreBounded DEF SpendInv
  <2>2. SpendersBounded'
    BY SpendersAreBounded, PTL
  <2> QED
    BY <2>1, <2>2 DEF SpendInv
<1>2. \A x \in Spenders(t, m)' : /\ req'[x] = req[x]
                                 /\ x \in Spenders(t, m) \/ PassBudget(x)
  BY SpenderOrigin
<1>3. spend[t][m] \in Amount
  BY DEF LadderInv, TypeOK
<1>4. CASE \E a \in Spenders(t, m)' : PassBudget(a)
  BY <1>1, <1>4, PassForeseen
<1>5. CASE /\ ~\E a \in Spenders(t, m)' : PassBudget(a)
           /\ spend'[t][m] = spend[t][m]
  <2>1. Spenders(t, m)' \subseteq Spenders(t, m)
    BY <1>2, <1>5
  <2> QED
    BY <1>1, <1>2, <1>3, <1>5, <2>1, QuietForeseen
<1>6. CASE spend'[t][m] # spend[t][m]
  <2>1. PICK a \in Attempts : Commit(a) /\ HasRow(a) /\ Bill(a, MonthOf(began[a]))
    BY <1>6 DEF Next, Step, PricePreview, StorePreview, LosePreview, Begin, LookupMiss,
       LookupReplay, LookupConflict, LoadPreview, RefusePreview, PassBudget, FailBudget,
       WaitForHolder, InsertApproval, RefuseInsert, DispatchReturns, DispatchRaises,
       Finalize, WriteCard, RefuseCard, Commit, Crash, Tick, BillLater
  <2>2. req[a] \in Requests /\ MonthOf(began[a]) \in Months
    BY <2>1, ClockAssumption DEF Commit, LadderInv, AnswerFollowsRow, TypeOK
  <2>3. /\ req[a].tenant = t /\ MonthOf(began[a]) = m
        /\ spend'[t][m] = spend[t][m] + Stored(req[a].cost)
    BY <1>6, <2>1, <2>2, BillCells DEF LadderInv
  <2>4. a \in Spenders(t, m)
    BY <2>1, <2>3 DEF Spenders, Commit
  <2>5. /\ pc'[a] = "done" /\ \A x \in Attempts \ {a} : pc'[x] = pc[x]
        /\ req' = req /\ began' = began /\ approval' = approval
    BY <2>1 DEF Commit, Goto, LadderInv, TypeOK
  <2>6. Spenders(t, m)' = Spenders(t, m) \ {a}
    BY <2>5 DEF Spenders, HasRow
  <2> QED
    BY <1>1, <1>3, <2>3, <2>4, <2>5, <2>6, BillForeseen
<1> QED
  BY <1>4, <1>5, <1>6

(* So the invariant is inductive.                                          *)
LEMMA SpendNext ==
  ASSUME LadderInv, LadderInv', PricedInv, PricedInv', GatesInv, SpendInv, [Next]_vars
  PROVE  SpendInv'
<1>1. PoolBounded'
  BY PoolNext DEF SpendInv
<1>2. CASE UNCHANGED vars
  <2>1. \A t, m : Foreseen(t, m) => Foreseen(t, m)'
    BY <1>2 DEF vars, ladder, Foreseen, Spenders, HasRow
  <2> QED
    BY <1>1, <2>1 DEF SpendInv
<1>3. CASE Next
  BY <1>1, <1>3, ForeseenNext DEF SpendInv
<1> QED
  BY <1>2, <1>3

(* Nothing is open and nothing is spent at the start.                      *)
LEMMA SpendInit == Init => SpendInv
<1> SUFFICES ASSUME Init PROVE SpendInv
  OBVIOUS
<1>1. OpenTransactions = {} /\ OpenPreviews = {} /\ \A t, m : Spenders(t, m) = {}
  BY DEF Init, OpenTransactions, OpenPreviews, Spenders, Active, Steps
<1>2. Cardinality({}) = 0
  BY FS_EmptySet
<1>3. PoolBounded
  BY <1>1, <1>2, ClockAssumption DEF PoolBounded
<1>4. ASSUME NEW t \in Tenants, NEW m \in Months PROVE Foreseen(t, m)
  BY <1>1, <1>2 DEF Init, Foreseen
<1> QED
  BY <1>3, <1>4 DEF SpendInv

(* In every reachable state gates and refusals agree, and no month has     *)
(* been spent beyond what its concurrent transactions were cleared for.    *)
THEOREM BudgetInvariant == Spec => []BudgetInv
<1>1. LadderInv /\ LadderInv' /\ PricedInv /\ PricedInv' /\ GatesInv /\ SpendInv
      /\ [Next]_vars => SpendInv'
  BY SpendNext
<1>2. GatesInv /\ SpendInv => BudgetInv
  BY DEF BudgetInv
<1> QED
  BY <1>1, <1>2, SpendInit, GatesInvariant, PricedInvariant, LadderInvariant, PTL DEF Spec

(* A hard cap is overrun by no more than one run per further connection    *)
(* that the pools allow, however many calls run and however they           *)
(* interleave; with a single connection it is exact.                       *)
THEOREM OverrunIsBounded == Spec => []OverrunBounded
<1>1. ASSUME LadderInv, PricedInv, BudgetInv PROVE OverrunBounded
  <2> SUFFICES ASSUME BillsInline, NEW t \in Tenants, NEW m \in Months, spend[t][m] > 0
               PROVE  /\ CostBudgets[t][m] # NoBudget
                      /\ CostBudgets[t][m].hard_stop =>
                           spend[t][m] <= CostBudgets[t][m].monthly_cap
                                 + (PoolSize - 1) * CostBudgets[t][m].per_run_cap
    BY DEF OverrunBounded
  <2> DEFINE b == CostBudgets[t][m]
             u == spend[t][m]
             S == Spenders(t, m)
             n == Cardinality(S)
  <2>1. SpendersBounded /\ Foreseen(t, m)
    BY <1>1, SpendersAreBounded DEF BudgetInv, SpendInv
  <2>2. /\ b # NoBudget /\ b.per_run_cap >= 0
        /\ b.hard_stop => \E c \in {b.per_run_cap} \cup {Stored(req[x].cost) : x \in S} :
                             Within(b, u, n, c)
    BY <2>1 DEF Foreseen
  <2>3. b \in Budget /\ u \in Int /\ n \in Nat /\ (n = 0 => S = {})
    BY <1>1, <2>1, <2>2, BudgetRow, FS_EmptySet
    DEF SpendersBounded, LadderInv, TypeOK, Amount
  <2>4. \A x \in S : Stored(req[x].cost) \in 0..b.per_run_cap
    BY <2>1 DEF SpendersBounded
  <2> HIDE DEF b, u, S, n
  <2>5. ASSUME b.hard_stop
        PROVE  u <= b.monthly_cap + (PoolSize - 1) * b.per_run_cap
    <3>1. PICK c \in {b.per_run_cap} \cup {Stored(req[x].cost) : x \in S} : Within(b, u, n, c)
      BY <2>2, <2>5
    <3>2. PICK r \in Int : r = b.per_run_cap /\ r >= 0
      BY <2>2, <2>3 DEF Budget
    <3>3. PICK lim \in Int : lim = b.monthly_cap + (PoolSize - 1) * b.per_run_cap
      BY <2>3, ClockAssumption DEF Budget
    <3>4. c \in Int /\ c >= 0 /\ (n = 0 => c = r)
      BY <2>3, <2>4, <3>1, <3>2
    <3>5. CASE n = 0
      BY <2>3, <3>1, <3>2, <3>3, <3>4, <3>5 DEF Within
    <3>6. CASE n > 0
      <4>1. (n - 1) * r >= 0 /\ (n - 1) * r \in Int
        BY <2>3, <3>2, <3>6
      <4> QED
        BY <2>3, <3>1, <3>2, <3>3, <3>4, <4>1 DEF Within
    <3> QED
      BY <2>3, <3>5, <3>6
  <2> QED
    BY <2>2, <2>5 DEF b, u
<1> QED
  BY <1>1, BudgetInvariant, PricedInvariant, LadderInvariant, PTL

=============================================================================
