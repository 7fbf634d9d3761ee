--------------------------- MODULE ApprovalLadder ---------------------------
(***************************************************************************)
(* The preview -> approve -> execute ladder of approval_ladder.py over the *)
(* PostgreSQL tables cost_preview, approval and audit_card.                *)
(*                                                                         *)
(* An attempt is one call of execute() in a transaction of its own, the    *)
(* one tenant_context() opens; its identity is also the id of the approval *)
(* row it may insert.  Every action is one awaited statement, so that the  *)
(* statements of concurrent attempts interleave as READ COMMITTED lets     *)
(* them: a statement sees the rows committed before it and its own.        *)
(* dispatch() is the caller's side effect; no rollback undoes it.          *)
(***************************************************************************)
EXTENDS CostBudget, FiniteSets

CONSTANTS Tenants, Operations, Keys, Actors, Months,
          Previews,         \* identities of cost_preview rows
          Attempts,         \* identities of execute() calls
          PreviewRequests,  \* what create_preview() may be asked
          Requests,         \* what execute() may be asked
          ProfiledActors,   \* actors with a user_profile row
          CardActors,       \* actors whose role is in the actor_role enum
          CostBudgets,      \* the cost_budget rows: [Tenants -> [Months -> ..]]
          MonthOf(_),       \* the calendar month of an instant
          PreviewTTL,       \* the 15 minutes a preview lives
          MaxClock,         \* bound on the clock
          PoolSize,         \* transactions the connection pools allow at once
          BillsInline,      \* dispatch() bills in execute()'s transaction
          Faults,           \* the failures that may happen, from FaultKinds
          None

FaultKinds == {"crash", "dispatch", "connection"}

PreviewRequest == [tenant : Tenants, operation : Operations, actor : Actors,
                   estimate : Amount, balance : Int \cup {NoBalance}]
Request == [tenant : Tenants, operation : Operations, actor : Actors,
            preview : Previews, key : Keys, cost : Amount,
            balance : Int \cup {NoBalance}]

ASSUME RequestAssumption ==
  /\ PreviewRequests \subseteq PreviewRequest
  /\ Requests \subseteq Request
ASSUME BudgetAssumption ==
  CostBudgets \in [Tenants -> [Months -> Budget \cup {NoBudget}]]
(* The three limits of a cost_budget row are numeric(12,2): whole cents.   *)
ASSUME CapAssumption ==
  \A t \in Tenants, m \in Months :
    LET b == CostBudgets[t][m]
    IN  b # NoBudget => /\ Whole(b.monthly_cap)
                        /\ Whole(b.per_run_cap)
                        /\ Whole(b.balance_floor)
ASSUME ClockAssumption ==
  /\ PreviewTTL \in Nat /\ MaxClock \in Nat /\ PoolSize \in Nat
  /\ \A t \in 0..MaxClock : MonthOf(t) \in Months
ASSUME ModeAssumption == BillsInline \in BOOLEAN /\ Faults \subseteq FaultKinds
ASSUME AttemptAssumption == IsFiniteSet(Attempts) /\ IsFiniteSet(Previews)

VARIABLES
  clock,      \* one clock for the database and the application
  preview,    \* the cost_preview rows, being priced or stored
  pc,         \* the statement an attempt runs next
  req,        \* what the attempt was asked
  began,      \* when its transaction began: its now() and current_date
  approval,   \* its approval row, visible to others once committed
  cards,      \* attempts whose audit card is written, visible likewise
  committed,  \* attempts whose transaction committed an approval
  effects,    \* attempts whose dispatch() took effect
  billed,     \* attempts whose effect has a billed cost_ledger row
  spend,      \* what the billed cost_ledger rows of a month add up to
  answer      \* what execute() returned or raised

ladder == <<pc, req, began, approval, cards, committed, effects, answer>>
vars   == <<clock, preview, billed, spend, ladder>>

-----------------------------------------------------------------------------
Steps == {"lookup", "load", "budget", "insert", "waiting", "dispatch",
          "finalize", "audit", "commit"}

Refusals == {"NOT_FOUND", "PREVIEW_EXPIRED", "PREVIEW_PRICE_DRIFT",
             "BUDGET_EXCEEDED", "DUPLICATE_IDEMPOTENCY_KEY"}
Failures == {"DISPATCH_RAISED", "INTERNAL_ERROR", "LOST"}

PreviewRow == [stage : {"priced", "stored"}, tenant : Tenants,
               operation : Operations, actor : Actors, estimate : Amount,
               balance : Int \cup {NoBalance}, passes : BOOLEAN,
               spent : Amount, month : Months, expires_at : Nat]
ApprovalRow == [status : {"executing", "executed"}, cost : Amount \cup {None}]
Answer == [code : {"OK"}, approval : Attempts, cost : Amount \cup {None}]
          \cup [code : Refusals \cup Failures]

ASSUME NoneAssumption == None \notin PreviewRow \cup ApprovalRow \cup Answer

(* The values the variables take: the columns of the three tables, the     *)
(* statuses the code writes and the codes execute() answers with.          *)
TypeOK ==
  /\ clock \in 0..MaxClock
  /\ preview \in [Previews -> PreviewRow \cup {None}]
  /\ pc \in [Attempts -> Steps \cup {"idle", "done"}]
  /\ req \in [Attempts -> Requests \cup {None}]
  /\ began \in [Attempts -> 0..MaxClock]
  /\ approval \in [Attempts -> ApprovalRow \cup {None}]
  /\ cards \subseteq Attempts
  /\ committed \subseteq Attempts
  /\ effects \subseteq Attempts
  /\ billed \subseteq Attempts
  /\ spend \in [Tenants -> [Months -> Amount]]
  /\ answer \in [Attempts -> Answer \cup {None}]

Init ==
  /\ clock = 0
  /\ preview = [p \in Previews |-> None]
  /\ pc = [a \in Attempts |-> "idle"]
  /\ req = [a \in Attempts |-> None]
  /\ began = [a \in Attempts |-> 0]
  /\ approval = [a \in Attempts |-> None]
  /\ cards = {} /\ committed = {} /\ effects = {} /\ billed = {}
  /\ spend = [t \in Tenants |-> [m \in Months |-> 0]]
  /\ answer = [a \in Attempts |-> None]

-----------------------------------------------------------------------------
Active(a) == pc[a] \in Steps
OpenTransactions == {a \in Attempts : Active(a)}
OpenPreviews == {p \in Previews : preview[p] # None /\ preview[p].stage = "priced"}

(* pool_size + max_overflow connections; a session without one waits.      *)
PoolHasRoom ==
  Cardinality(OpenTransactions) + Cardinality(OpenPreviews) < PoolSize

(* The unique constraint on (tenant_id, idempotency_key).                  *)
SameKey(a, b) ==
  req[a].tenant = req[b].tenant /\ req[a].key = req[b].key
HasRow(b) == approval[b] # None
Winners(a) == {b \in committed : SameKey(a, b)}
Holders(a) == {b \in Attempts \ (committed \cup {a}) : HasRow(b) /\ SameKey(a, b)}

BudgetOf(t, instant) == CostBudgets[t][MonthOf(instant)]
SpendOf(t, instant)  == spend[t][MonthOf(instant)]

Goto(a, step) == pc' = [pc EXCEPT ![a] = step]
Returns(a, b, c) ==
  answer' = [answer EXCEPT ![a] = [code |-> "OK", approval |-> b, cost |-> c]]

(* Mutant of Raise: the transaction is left open, its row and card with it.*)
RaiseKeepsRow(a, code) ==
  /\ Goto(a, "done")
  /\ answer' = [answer EXCEPT ![a] = [code |-> code]]
  /\ UNCHANGED <<approval, cards>>

(* An exception leaves tenant_context(): the transaction is rolled back    *)
(* and the caller gets the code.  What dispatch() did stays done.          *)
Raise(a, code) ==
  /\ Goto(a, "done")
  /\ answer' = [answer EXCEPT ![a] = [code |-> code]]
  /\ approval' = [approval EXCEPT ![a] = None]
  /\ cards' = cards \ {a}

-----------------------------------------------------------------------------
(* create_preview(): read the budget and the month's spend, then insert.   *)
PricePreview(p) ==
  /\ preview[p] = None
  /\ PoolHasRoom
  /\ \E r \in PreviewRequests :
       LET gates == EvaluateGates(BudgetOf(r.tenant, clock),
                                  SpendOf(r.tenant, clock), r.estimate, r.balance)
       IN  preview' = [preview EXCEPT ![p] =
             [stage |-> "priced", tenant |-> r.tenant, operation |-> r.operation,
              actor |-> r.actor, estimate |-> Stored(r.estimate),
              balance |-> r.balance, passes |-> Passes(gates),
              spent |-> SpendOf(r.tenant, clock), month |-> MonthOf(clock),
              expires_at |-> clock + PreviewTTL]]
  /\ UNCHANGED <<clock, billed, spend, ladder>>

StorePreview(p) ==
  /\ p \in OpenPreviews
  /\ preview[p].actor \in ProfiledActors
  /\ preview' = [preview EXCEPT ![p].stage = "stored"]
  /\ UNCHANGED <<clock, billed, spend, ladder>>

(* requested_by has no profile, or the transaction is lost.                *)
LosePreview(p) ==
  /\ p \in OpenPreviews
  /\ preview[p].actor \notin ProfiledActors \/ "crash" \in Faults
  /\ preview' = [preview EXCEPT ![p] = None]
  /\ UNCHANGED <<clock, billed, spend, ladder>>

-----------------------------------------------------------------------------
(* tenant_context() begins the transaction of an execute() call.           *)
Begin(a) ==
  /\ pc[a] = "idle"
  /\ PoolHasRoom
  /\ \E r \in Requests : req' = [req EXCEPT ![a] = r]
  /\ began' = [began EXCEPT ![a] = clock]
  /\ Goto(a, "lookup")
  /\ UNCHANGED <<clock, preview, billed, spend,
                 approval, cards, committed, effects, answer>>

(* _find_existing_approval(): only a committed row can be seen.            *)
LookupMiss(a) ==
  /\ pc[a] = "lookup"
  /\ Winners(a) = {}
  /\ Goto(a, "load")
  /\ UNCHANGED <<clock, preview, billed, spend, req, began,
                 approval, cards, committed, effects, answer>>

(* Mutant of LookupReplay: the key is taken for the payload.               *)
ReplayAnyPreview(a) ==
  /\ pc[a] = "lookup"
  /\ \E b \in Winners(a) : Returns(a, b, approval[b].cost)
  /\ Goto(a, "commit")
  /\ UNCHANGED <<clock, preview, billed, spend, req, began,
                 approval, cards, committed, effects>>

LookupReplay(a) ==
  /\ pc[a] = "lookup"
  /\ \E b \in Winners(a) :
       /\ req[b].preview = req[a].preview
       /\ Returns(a, b, approval[b].cost)
  /\ Goto(a, "commit")
  /\ UNCHANGED <<clock, preview, billed, spend, req, began,
                 approval, cards, committed, effects>>

LookupConflict(a) ==
  /\ pc[a] = "lookup"
  /\ \E b \in Winners(a) : req[b].preview # req[a].preview
  /\ Raise(a, "DUPLICATE_IDEMPOTENCY_KEY")
  /\ UNCHANGED <<clock, preview, billed, spend, req, began, committed, effects>>

(* _load_preview() filters on id, tenant and operation.                    *)
Loads(a) ==
  LET p == preview[req[a].preview]
  IN  /\ p # None
      /\ p.stage = "stored"
      /\ p.tenant = req[a].tenant
      /\ p.operation = req[a].operation
Expired(a) == preview[req[a].preview].expires_at < clock
Drifted(a) == Drifts(preview[req[a].preview].estimate, req[a].cost)

(* Mutant of LoadPreview: the expiry is not looked at.                     *)
LoadStalePreview(a) ==
  /\ pc[a] = "load"
  /\ Loads(a) /\ ~Drifted(a)
  /\ Goto(a, "budget")
  /\ UNCHANGED <<clock, preview, billed, spend, req, began,
                 approval, cards, committed, effects, answer>>

LoadPreview(a) ==
  /\ pc[a] = "load"
  /\ Loads(a) /\ ~Expired(a) /\ ~Drifted(a)
  /\ Goto(a, "budget")
  /\ UNCHANGED <<clock, preview, billed, spend, req, began,
                 approval, cards, committed, effects, answer>>

RefusePreview(a) ==
  /\ pc[a] = "load"
  /\ \/ ~Loads(a) /\ Raise(a, "NOT_FOUND")
     \/ Loads(a) /\ Expired(a) /\ Raise(a, "PREVIEW_EXPIRED")
     \/ Loads(a) /\ ~Expired(a) /\ Drifted(a) /\ Raise(a, "PREVIEW_PRICE_DRIFT")
  /\ UNCHANGED <<clock, preview, billed, spend, req, began, committed, effects>>

(* cost.assert_budget() runs on one snapshot, for the month in which the   *)
(* transaction began.                                                      *)
Affordable(a) ==
  AssertBudget(BudgetOf(req[a].tenant, began[a]), SpendOf(req[a].tenant, began[a]),
               req[a].cost, req[a].balance)

PassBudget(a) ==
  /\ pc[a] = "budget"
  /\ Affordable(a)
  /\ Goto(a, "insert")
  /\ UNCHANGED <<clock, preview, billed, spend, req, began,
                 approval, cards, committed, effects, answer>>

(* Any DBAPIError of the statement, a lost connection too, is reported as  *)
(* BUDGET_EXCEEDED.                                                        *)
FailBudget(a) ==
  /\ pc[a] = "budget"
  /\ ~Affordable(a) \/ "connection" \in Faults
  /\ Raise(a, "BUDGET_EXCEEDED")
  /\ UNCHANGED <<clock, preview, billed, spend, req, began, committed, effects>>

(* What the unique index asks of an insert; before it, two mutants of it:  *)
(* a check that sees committed rows only, and a lock without an index.     *)
UncommittedRowsIgnored(a) == Winners(a) = {}
CommittedRowsIgnored(a) == Holders(a) = {}
KeyIsFree(a) == Holders(a) = {} /\ Winners(a) = {}

(* The insert waits for a transaction that holds the same key.             *)
WaitForHolder(a) ==
  /\ pc[a] = "insert"
  /\ Holders(a) # {}
  /\ Goto(a, "waiting")
  /\ UNCHANGED <<clock, preview, billed, spend, req, began,
                 approval, cards, committed, effects, answer>>

InsertApproval(a) ==
  /\ pc[a] \in {"insert", "waiting"}
  /\ KeyIsFree(a)
  /\ req[a].actor \in ProfiledActors
  /\ approval' = [approval EXCEPT ![a] = [status |-> "executing", cost |-> None]]
  /\ Goto(a, "dispatch")
  /\ UNCHANGED <<clock, preview, billed, spend, req, began,
                 cards, committed, effects, answer>>

(* Any IntegrityError, the foreign key on approved_by included.            *)
RefuseInsert(a) ==
  /\ pc[a] \in {"insert", "waiting"}
  /\ Holders(a) = {}
  /\ Winners(a) # {} \/ req[a].actor \notin ProfiledActors
  /\ Raise(a, "DUPLICATE_IDEMPOTENCY_KEY")
  /\ UNCHANGED <<clock, preview, billed, spend, req, began, committed, effects>>

(* dispatch() returns, or raises before or after it took effect.           *)
DispatchReturns(a) ==
  /\ pc[a] = "dispatch"
  /\ effects' = effects \cup {a}
  /\ Goto(a, "finalize")
  /\ UNCHANGED <<clock, preview, billed, spend, req, began,
                 approval, cards, committed, answer>>

(* Mutant of DispatchRaises: dispatch() runs inside the try block of the   *)
(* insert, whose handler takes its IntegrityError for a duplicate key.     *)
DispatchInsideTry(a) ==
  /\ pc[a] = "dispatch"
  /\ "dispatch" \in Faults
  /\ effects' \in {effects, effects \cup {a}}
  /\ Raise(a, "DUPLICATE_IDEMPOTENCY_KEY")
  /\ UNCHANGED <<clock, preview, billed, spend, req, began, committed>>

DispatchRaises(a) ==
  /\ pc[a] = "dispatch"
  /\ "dispatch" \in Faults
  /\ effects' \in {effects, effects \cup {a}}
  /\ Raise(a, "DISPATCH_RAISED")
  /\ UNCHANGED <<clock, preview, billed, spend, req, began, committed>>

Finalize(a) ==
  /\ pc[a] = "finalize"
  /\ approval' = [approval EXCEPT ![a] =
                    [status |-> "executed", cost |-> Stored(req[a].cost)]]
  /\ Goto(a, "audit")
  /\ UNCHANGED <<clock, preview, billed, spend, req, began,
                 cards, committed, effects, answer>>

(* audit.write_card() casts the caller's role to actor_role.               *)
WriteCard(a) ==
  /\ pc[a] = "audit"
  /\ req[a].actor \in CardActors
  /\ cards' = cards \cup {a}
  /\ Returns(a, a, req[a].cost)
  /\ Goto(a, "commit")
  /\ UNCHANGED <<clock, preview, billed, spend, req, began,
                 approval, committed, effects>>

(* Mutant of RefuseCard: a card that cannot be written is given up.        *)
CardIsBestEffort(a) ==
  /\ pc[a] = "audit"
  /\ req[a].actor \notin CardActors
  /\ Returns(a, a, req[a].cost)
  /\ Goto(a, "commit")
  /\ UNCHANGED <<clock, preview, billed, spend, req, began,
                 approval, cards, committed, effects>>

RefuseCard(a) ==
  /\ pc[a] = "audit"
  /\ req[a].actor \notin CardActors
  /\ Raise(a, "INTERNAL_ERROR")
  /\ UNCHANGED <<clock, preview, billed, spend, req, began, committed, effects>>

-----------------------------------------------------------------------------
(* A billed cost_ledger row for the effect of a, dated in month m.         *)
Bill(a, m) ==
  /\ billed' = billed \cup {a}
  /\ spend' = [spend EXCEPT ![req[a].tenant][m] = @ + Stored(req[a].cost)]

(* The transaction commits; a lost connection may still hide the answer.   *)
Commit(a) ==
  /\ pc[a] = "commit"
  /\ Goto(a, "done")
  /\ committed' = IF HasRow(a) THEN committed \cup {a} ELSE committed
  /\ IF HasRow(a) /\ BillsInline
     THEN Bill(a, MonthOf(began[a]))
     ELSE UNCHANGED <<billed, spend>>
  /\ \/ UNCHANGED answer
     \/ "connection" \in Faults /\ answer' = [answer EXCEPT ![a] = [code |-> "LOST"]]
  /\ UNCHANGED <<clock, preview, req, began, approval, cards, effects>>

(* A cancelled request, a dead worker or database session: the transaction *)
(* rolls back at whatever statement it had reached.                        *)
Crash(a) ==
  /\ Active(a)
  /\ "crash" \in Faults
  /\ Raise(a, "LOST")
  /\ UNCHANGED <<clock, preview, billed, spend, req, began, committed, effects>>

(* The provider's charge reaches cost_ledger later, from another process.  *)
BillLater(a) ==
  /\ ~BillsInline
  /\ a \in effects \ billed
  /\ Bill(a, MonthOf(clock))
  /\ UNCHANGED <<clock, preview, ladder>>

Tick ==
  /\ clock < MaxClock
  /\ clock' = clock + 1
  /\ UNCHANGED <<preview, billed, spend, ladder>>

-----------------------------------------------------------------------------
(* The statements of execute() once its transaction is open.               *)
Step(a) ==
  \/ LookupMiss(a) \/ LookupReplay(a) \/ LookupConflict(a)
  \/ LoadPreview(a) \/ RefusePreview(a)
  \/ PassBudget(a) \/ FailBudget(a)
  \/ WaitForHolder(a) \/ InsertApproval(a) \/ RefuseInsert(a)
  \/ DispatchReturns(a) \/ DispatchRaises(a)
  \/ Finalize(a) \/ WriteCard(a) \/ RefuseCard(a)
  \/ Commit(a)

Next ==
  \/ \E p \in Previews : PricePreview(p) \/ StorePreview(p) \/ LosePreview(p)
  \/ \E a \in Attempts : Begin(a) \/ Step(a) \/ Crash(a) \/ BillLater(a)
  \/ Tick

Spec == Init /\ [][Next]_vars

(* The event loop runs every ready coroutine and PostgreSQL serves every   *)
(* statement; that dispatch() ends, by returning or raising, is assumed of *)
(* the caller.                                                             *)
FairSpec == Spec /\ \A a \in Attempts : WF_vars(Step(a))

-----------------------------------------------------------------------------
(* Safety.                                                                 *)

(* At any moment at most one approval row exists for a tenant and an       *)
(* idempotency key, counting the uncommitted row of a transaction that has *)
(* yet to dispatch: the unique constraint, with the wait it implies, is    *)
(* what keeps two concurrent execute() calls from dispatching together.    *)
OneApprovalPerKey ==
  \A a, b \in Attempts : HasRow(a) /\ HasRow(b) /\ SameKey(a, b) => a = b

(* An approval that survives is executed at the stored price, its dispatch *)
(* took effect and it has its audit card; a call that ended without one    *)
(* left neither row nor card.  This is what "inside one transaction" buys, *)
(* whatever statement the failure hits.                                    *)
AllOrNothing ==
  /\ \A a \in committed :
       /\ approval[a] = [status |-> "executed", cost |-> Stored(req[a].cost)]
       /\ a \in effects \cap cards
  /\ \A a \in Attempts \ committed :
       pc[a] = "done" => ~HasRow(a) /\ a \notin cards

(* A call answered with a refusal spent nothing, and an effect that no     *)
(* surviving approval records is only ever answered with a failure: the    *)
(* client is never told OK, nor "refused", about it.                       *)
HonestAnswers ==
  \A a \in Attempts : pc[a] = "done" =>
    /\ answer[a].code \in Refusals => a \notin effects \cup committed
    /\ a \in effects \ committed => answer[a].code \in Failures

AnsweredOK(a) == pc[a] = "done" /\ answer[a].code = "OK"

(* Every OK for a tenant's key names one committed approval of that tenant *)
(* and key, for the preview that was asked for, at a price that differs    *)
(* from the first answer only by what the column rounds away.              *)
ReplaysAgree ==
  \A a, b \in Attempts : AnsweredOK(a) =>
    /\ answer[a].approval \in Winners(a)
    /\ req[answer[a].approval].preview = req[a].preview
    /\ AnsweredOK(b) /\ SameKey(a, b) =>
         /\ answer[a].approval = answer[b].approval
         /\ 2 * Distance(answer[a].cost, answer[b].cost) <= Grain

(* Nothing is dispatched but against a stored preview of the same tenant   *)
(* and operation that had not expired when the transaction began, at a     *)
(* price within a tenth of it and within the per-run cap and balance floor *)
(* of the month; however long the insert waited in between.                *)
Quoted(a) ==
  /\ Loads(a) /\ ~Drifted(a)
  /\ preview[req[a].preview].expires_at >= began[a]
Cleared(a) ==
  LET b == BudgetOf(req[a].tenant, began[a])
  IN  /\ b # NoBudget
      /\ ~OverPerRun(b, req[a].cost)
      /\ ~BelowFloor(b, req[a].cost, req[a].balance)
EffectsArePriced == \A a \in effects : Quoted(a) /\ Cleared(a)

(* When dispatch() bills in the transaction of execute(), a hard monthly   *)
(* cap is overrun by no more than the other transactions the pools allow   *)
(* may spend in one run each: assert_budget() cannot see their rows.  With *)
(* one transaction at a time the cap is exact.                             *)
OverrunBounded ==
  BillsInline =>
    \A t \in Tenants, m \in Months :
      LET b == CostBudgets[t][m]
      IN  spend[t][m] > 0 =>
            /\ b # NoBudget
            /\ b.hard_stop =>
                 spend[t][m] <= b.monthly_cap + (PoolSize - 1) * b.per_run_cap

(* A budget refusal of a price no higher than a passing preview's, in the  *)
(* same month and at no lower a balance, means that money was billed since *)
(* the preview: the Python gates and cost.assert_budget() agree.  The      *)
(* gates judge the caller's estimate, the preview keeps it rounded; a      *)
(* balance of whole grains leaves no room between the two, a finer one can *)
(* refuse the rounded price of a preview that passed.                      *)
PassingPreviewHolds(a) ==
  LET p == preview[req[a].preview]
  IN  /\ p.passes
      /\ req[a].cost <= p.estimate
      /\ MonthOf(began[a]) = p.month
      /\ \/ req[a].balance = NoBalance
         \/ p.balance # NoBalance /\ Whole(p.balance) /\ p.balance <= req[a].balance

GatesMatchRefusals ==
  \A a \in Attempts :
    /\ "connection" \notin Faults
    /\ pc[a] = "done" /\ answer[a].code = "BUDGET_EXCEEDED"
    /\ PassingPreviewHolds(a)
    => SpendOf(req[a].tenant, began[a]) > preview[req[a].preview].spent

(* A tenant's key is executed at most once, as long as nothing fails after *)
(* the dispatch: every call that dispatches then commits, and later calls  *)
(* with its key are replays or refusals.                                   *)
OneExecutionPerKey ==
  \A a, b \in effects : SameKey(a, b) => a = b

-----------------------------------------------------------------------------
(* The inductive invariant behind the safety properties: what a call has   *)
(* written is a function of the statement it has reached.                  *)
Untouched(a) == ~HasRow(a) /\ a \notin cards \cup effects \cup committed
Executing(a) ==
  /\ approval[a] = [status |-> "executing", cost |-> None]
  /\ a \notin cards \cup committed
Executed(a) ==
  /\ approval[a] = [status |-> "executed", cost |-> Stored(req[a].cost)]
  /\ a \in effects

AnswersOwn(a) == answer[a] = [code |-> "OK", approval |-> a, cost |-> req[a].cost]
AnswersReplay(a) ==
  \E b \in Winners(a) :
    /\ req[b].preview = req[a].preview
    /\ answer[a] = [code |-> "OK", approval |-> b, cost |-> approval[b].cost]

RowFollowsStep(a) ==
  /\ pc[a] \in {"idle", "lookup", "load", "budget", "insert", "waiting"}
     => Untouched(a)
  /\ pc[a] = "dispatch" => Executing(a) /\ a \notin effects
  /\ pc[a] = "finalize" => Executing(a) /\ a \in effects
  /\ pc[a] = "audit" => Executed(a) /\ a \notin cards \cup committed
  /\ pc[a] = "commit" =>
       /\ a \notin committed
       /\ \/ Executed(a) /\ a \in cards /\ AnswersOwn(a)
          \/ Untouched(a) /\ AnswersReplay(a)
  /\ pc[a] = "done" =>
       \/ a \in committed \cap cards /\ Executed(a)
       \/ a \notin committed \cup cards /\ ~HasRow(a)

AnswerFollowsRow(a) ==
  /\ pc[a] # "idle" => req[a] \in Requests
  /\ pc[a] = "done" =>
       \/ a \in committed /\ AnswersOwn(a)
       \/ a \notin effects \cup committed /\ AnswersReplay(a)
       \/ a \notin effects \cup committed /\ answer[a] \in [code : Refusals]
       \/ answer[a] \in [code : Failures]

(* Every row, card, effect and answer is where the statements executed so  *)
(* far put it, at most one row per key.                                    *)
LadderInv ==
  /\ TypeOK
  /\ \A a \in Attempts : RowFollowsStep(a) /\ AnswerFollowsRow(a)
  /\ OneApprovalPerKey

(* A call past the checks has passed them, and stays so while it waits:    *)
(* stored previews and budgets do not change under it.                     *)
PricedSteps ==
  \A a \in Attempts :
    /\ began[a] <= clock
    /\ pc[a] \in {"budget", "insert", "waiting", "dispatch"} => Quoted(a)
    /\ pc[a] \in {"insert", "waiting", "dispatch"} => Cleared(a)

(* A passing preview would pass cost.assert_budget() at its stored price,  *)
(* and a refusal by it stands: the same request would be refused now.      *)
QuoteHolds(p) ==
  p.passes =>
    AssertBudget(CostBudgets[p.tenant][p.month], p.spent, p.estimate,
                 IF p.balance # NoBalance /\ Whole(p.balance)
                 THEN p.balance ELSE NoBalance)
RefusalStands(a) ==
  pc[a] = "done" /\ answer[a].code = "BUDGET_EXCEEDED" => Loads(a) /\ ~Affordable(a)
GatesInv ==
  /\ \A t \in Tenants, m \in Months : Whole(spend[t][m])
  /\ \A p \in Previews : preview[p] # None =>
       Whole(preview[p].spent) /\ QuoteHolds(preview[p])
  /\ "connection" \notin Faults => \A a \in Attempts : RefusalStands(a)

(* The transactions past assert_budget() that have yet to bill, and what   *)
(* they may bill beyond what others saw: one of them the price it was      *)
(* cleared at, every other one the per-run cap.                            *)
Spenders(t, m) ==
  {a \in Attempts :
     /\ \/ pc[a] \in {"insert", "waiting", "dispatch", "finalize", "audit"}
        \/ pc[a] = "commit" /\ HasRow(a)
     /\ req[a].tenant = t
     /\ MonthOf(began[a]) = m}
Within(b, spent, n, c) ==
  spent + c + (n - 1) * b.per_run_cap
    <= b.monthly_cap + (PoolSize - 1) * b.per_run_cap
Foreseen(t, m) ==
  LET b == CostBudgets[t][m]
      n == Cardinality(Spenders(t, m))
      prices == {b.per_run_cap} \cup {Stored(req[a].cost) : a \in Spenders(t, m)}
  IN  spend[t][m] > 0 \/ n > 0 =>
        /\ b # NoBudget
        /\ b.per_run_cap >= 0
        /\ b.hard_stop => \E c \in prices : Within(b, spend[t][m], n, c)
PoolBounded ==
  Cardinality(OpenTransactions) + Cardinality(OpenPreviews) <= PoolSize
SpendInv ==
  /\ PoolBounded
  /\ BillsInline => \A t \in Tenants, m \in Months : Foreseen(t, m)

(* What the two sides of spend control know of each other: gates and       *)
(* refusals agree, and no month is spent beyond what was foreseen.         *)
BudgetInv == GatesInv /\ SpendInv

-----------------------------------------------------------------------------
(* Action properties.                                                      *)

(* A dispatch takes effect only while its call alone holds the key and no  *)
(* approval of that key has been committed.                                *)
DispatchIsExclusive ==
  [][\A a \in effects' \ effects : Winners(a) = {} /\ Holders(a) = {}]_vars

-----------------------------------------------------------------------------
(* Liveness.                                                               *)

(* Every execute() call ends, one that waits for a concurrent call with    *)
(* the same key included, whatever happens to the holder.                  *)
EveryCallEnds == \A a \in Attempts : Active(a) ~> pc[a] = "done"

-----------------------------------------------------------------------------
(* What the repository says of the ladder and the code does not do.        *)

(* "The monthly spend ceiling enforced by cost.assert_budget()".           *)
SpendWithinCeiling ==
  \A t \in Tenants, m \in Months :
    LET b == CostBudgets[t][m]
    IN  b # NoBudget /\ b.hard_stop => spend[t][m] <= b.monthly_cap

(* "One approval, one execution": an execution of a key belongs to the one *)
(* approval of that key.                                                   *)
OneApprovalOneExecution ==
  \A a, b \in Attempts :
    a \in committed /\ b \in effects /\ SameKey(a, b) => a = b

=============================================================================
