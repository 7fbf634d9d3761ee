# Verification of the as-baptist API

The API is a FastAPI service over PostgreSQL. Its own logic is small and most of
it is about *when* things happen: money is spent by a callback in the middle of a
database transaction, the uniqueness of a key decides who may spend, a limit is
read from a table others are writing, a key document is shared by every request
of a process. This directory holds TLA+ models of that logic, the TLC
configurations that check them and the theorems TLAPS proves about them.

## Inventory

| Component | State | Operations | Talks to | Hard part | What makes it correct |
|---|---|---|---|---|---|
| **Approval ladder** `app/services/approval_ladder.py`, tables `cost_preview`, `approval` (migration 0005) | previews, approvals, the progress of every `execute()` | `create_preview`, `execute` and its six statements around `dispatch()` | spend control, audit, the caller's `dispatch` | concurrent calls with one key; failures after the side effect; retries | at most one approval per key; effect, approval and card together or not at all; truthful answers; replays agree |
| **Spend control** migration 0004: `cost_budget`, `cost_ledger`, `cost.month_spend()`, `cost.assert_budget()`; `_evaluate_gates()` | caps per tenant and month, billed rows | check at preview (Python), check at execute (SQL), billing (outside `src/`) | ladder | unlocked read of a sum; two implementations of one rule; rounding; month boundary | cap overrun is bounded; gates mean what the enforcement does |
| **Audit trail** `app/services/audit.py`, `audit.write_card()` | `audit_card`, append-only by a trigger of rows | `write_card` | ladder | a refused card must undo the approval | a card for every approval, none without |
| **JWKS cache, token verification** `app/core/security.py` | cached keys, expiry, an `asyncio.Lock` | `get`, `verify` | identity provider | many coroutines, one fetch; rotation; cancellation | verdicts follow the provider's keys within a window; no stuck lock |
| **Tenant context, RLS** `app/db/rls.py`, migrations 0001-0005 | GUCs of a transaction, policies, triggers | `tenant_context` | pool, every query | settings on pooled connections | a statement sees and writes its own tenant only; no setting outlives its transaction |
| **Session, pool, readiness** `app/db/session.py` | 10+5 connections | checkout, `check_ready` | all | exhaustion, timeout racing checkout | connections come back |
| **Request pipeline** `app/deps.py`, `app/main.py`, `app/core/idempotency.py` | one scoped transaction per request | authentication, role gate, commit at teardown | all | commit after the response | what the client is told is committed; only operators write |
| **Location scope** `app.can_read_location()`, memberships | memberships, their locations | the predicate of the location policies | tenant context | memberships change meanwhile | a restriction never widens |
| **Locations** router, service, repository | table `location` | list, get, create, patch | request pipeline | unlocked read-modify-write; count and page apart | columns nobody supplied survive; a walk over the pages misses little |
| **ETag and envelope** `app/core/etag.py`, `app/core/envelope.py` | none; caches outside keep answers | `compute_etag`, `matches`, `build_page`, `build_meta` | locations | an answer kept for one token revalidated by another | a 304 confirms only what this token would be told now |
| **Migrations** `migrations/` | the catalog, `alembic_version` | upgrade and downgrade over five revisions | every table, all four roles | partial downgrades over rows; two containers that migrate at once; default privileges | one catalog per revision; it isolates tenants and roles |
| Identity, health, errors, configuration, logging, schemas, scripts | none of their own | | | | |

`PROJECT.json` lists the components with their status, and under `hazards` every
place where this code is hard to test, with the properties that cover it.

## Modules

| Module | Models |
|---|---|
| `CostBudget` | pure operators: what `numeric(12,4)` stores, the drift test, `cost.assert_budget()`, `_evaluate_gates()` |
| `ApprovalLadder` | the state machine of the ladder, its properties and its inductive invariant |
| `IdempotentExecution` | abstract: what the ladder promises a client, without tables, transactions or prices |
| `LadderImplements` | the refinement mapping from `ApprovalLadder` to `IdempotentExecution` |
| `MCLadder` | instances of the ladder for TLC |
| `JwksCache`, `MCJwks` | `JwksCache.get()` under `TokenVerifier._verify_supabase()`, and its instance |
| `RowSecurity` | pure operators: what the policies, the `app.*` functions and `tg_enforce_tenant()` let a statement see and write |
| `LocationApi`, `MCLocation` | requests to `/v1/locations` and `/v1/ready` over pooled connections, and instances |
| `TenantStore` | abstract: what `/v1/locations` promises, without connections, settings, transactions and locks |
| `LocationImplements` | the refinement mapping from `LocationApi` to `TenantStore` |
| `LocationWalk`, `MCWalk` | walks over the pages of `/v1/locations`, with ETags and a cache, and an instance |
| `Catalog` | pure operators: what PostgreSQL does with DDL, and what grants, policies, triggers and keys let a role see and write |
| `Migrations` | the five revisions as scripts of DDL, forth and back |
| `SchemaLife`, `MCSchema` | alembic commands and the roles' writes over the life of a database, and an instance |
| `CostBudgetProofs`, `ApprovalLadderProofs`, `JwksCacheProofs`, `LocationApiProofs`, `LocationWalkProofs`, `SchemaLifeProofs` | theorems about the invariants and actions of one module each |
| `LadderPromiseProofs`, `LocationStoreProofs` | theorems: the ladder implements `IdempotentExecution`, the requests `TenantStore` |

A definition headed *Mutant of X* is X with a plausible bug in it. `PROJECT.json`
names, for every property of every passing run, the mutant that breaks it.

### ApprovalLadder and the code

An *attempt* is one call of `execute()` in a transaction of its own, as
`tenant_context()` opens it and the tests use it. `pc[a]` is the statement it runs
next; each action is one awaited statement with everything the code does up to the
next `await`. Statements of concurrent attempts interleave freely; READ COMMITTED
makes a statement see its own writes and what was committed before it, so `Winners`
(committed rows of the key) is what a `select` finds and `Holders` (uncommitted ones)
is what only the unique index knows.

| Code (`approval_ladder.py`) | Actions |
|---|---|
| `create_preview()` 48-106, gates and month spend read, then insert | `PricePreview`, `StorePreview`; `LosePreview` when `requested_by` has no profile or the transaction dies |
| `tenant_context()` begins | `Begin`: `began` is the transaction's `now()` |
| `_find_existing_approval()` 192-196 | `LookupMiss`, `LookupReplay`, `LookupConflict` |
| `_load_preview()`, expiry, drift 198-207 | `LoadPreview`, `RefusePreview` |
| `cost.assert_budget()` 209-215 | `PassBudget`, `FailBudget` (any `DBAPIError`) |
| insert 217-237 | `WaitForHolder`, `InsertApproval`, `RefuseInsert` (any `IntegrityError`) |
| `dispatch()` 239 | `DispatchReturns`, `DispatchRaises` (before or after its effect) |
| update 241-252 | `Finalize` |
| `audit.write_card()` 254-262 | `WriteCard`, `RefuseCard` (role outside `actor_role`) |
| end of `tenant_context()` | `Commit`; its acknowledgement may be lost |
| cancellation, dead worker or session, at any statement | `Crash` |
| the bill, written outside `src/` | in `Commit` when `BillsInline`, else `BillLater` |

Amounts are integers; `Grain` of them make one stored 0.0001 USD, so that the
caller's finer `Decimal`, the rounded column and the difference between a first
answer and a replay are all there. Location, parameters, units and the JSON result
are left out: no decision reads them.

### JwksCache and the code

Coroutines switch at `await` only, so one action is what a call does between two
awaits: `Hit` and `Miss` are `get()` up to the lock (taking a free one and starting
the request included), `WakeToHit` and `WakeToFetch` the second check, `Store`,
`FetchFails` and `Cancel` the ways out of the fetch. The lock is first come, first
served, as `asyncio.Lock` is. The provider reads its keys (`ProviderAnswers`) before
the answer arrives, and publishes and retires keys at any time.

### LocationApi and the code

A *request* is one HTTP request with the claims of its token; `pc[r]` is the statement
it runs next and `conn[r]` the connection its session holds. `settings[c]` are the
`app.*` settings of a connection: every select goes through `SelectPolicy` with the
settings of its connection, never with the claims, so what a request sees depends on who
bound what. The properties are stated with the claims.

| Code | Actions |
|---|---|
| `get_tenant_context()`, `require_operator()` (`deps.py`) | `Arrive`, `Refuse` (403) |
| `tenant_context()`: checkout and `set_config` (`rls.py`) | `Bind`; `TimeOut` when the pool stays empty |
| `check_ready()` (`session.py`), `/v1/ready` | `Ping`, `PingReturns`, `TimeOut` |
| `list_locations()`: total, then page | `Count`, `Page` |
| `get_by_slug()` | `Load`, `LoadFails` (404) |
| `create()` | `Insert`, `InsertFails` (an `IntegrityError` is a 500) |
| `update()`: supplied columns that differ from the loaded row | `Update`, `UpdateFails`, `UpdateNothing` |
| unique index, row lock | `WaitForRow` |
| end of `get_scoped_db()` | `Respond` and `Commit`; `Crash` at any statement |
| memberships, written outside `src/` | `ChangeMembership` |

Nothing deletes a location or changes its slug, so tenant and slug name a row. `lat` and
`lng` stand for all columns a patch may supply; they are the two a constraint joins.
When `get_scoped_db()` is torn down depends on the framework release, of which
`pyproject.toml` admits both kinds: `RespondFirst` is a constant, and each run takes one.

`LocationImplements` maps this to `TenantStore`: the table is the committed one, a call is
answered when its request is, a patch has read its row when the service has. A create
and a patch take effect at `Commit`; all other statements but the load are stutters. The
mapping is for builds that commit first: a response sent before its commit promises
what a crash may take back.

### LocationWalk and the code

A *walker* is a client that asks for page after page while `has_more` says so.
`LocationApi` has single requests with their transactions; here a request is reduced to
its two reads, and writers to rows that enter or leave the result the walk filters by.

| Code | Actions and operators |
|---|---|
| the client's request, with the tag it has kept | `Start`, `Send` |
| `select count(*)` (`repositories/location.py`) | `Count` |
| `select ... order by name limit offset`, `build_page()`, `compute_etag()`, `matches()`, 304 or 200 | `Page`; `PageFails` when the limit is negative (a 500) |
| `order by name`, equal names in any order | `Orders` |
| creates and patches of other requests | `Enter`, `Leave` |

The cache is shared by all clients and knows answers by limit and offset only, the worst
a cache that revalidates can do; `compute_etag()` puts the tenant into the hash, and an
answer tells two members of one tenant apart by its rows.

### SchemaLife and the code

`Migrations` writes every `upgrade()` and `downgrade()` as the sequence of its DDL
statements, in its order; `Catalog` says what each does and when PostgreSQL refuses it. A
catalog is the tables, grants, default privileges, policies, triggers, keys and
functions; columns that refer to nothing, indexes, checks and enum types are left out,
and a row is its table, its key and its references. A command runs the scripts of the
revisions it passes one after the other (`Steps`, `ExecuteSteps`); a statement that fails
ends it. `Fresh[v]` is a database that was only ever upgraded, to revision v.

| Code | Actions |
|---|---|
| `alembic upgrade head`, `alembic downgrade <revision>`: reads `alembic_version` | `Read` |
| the steps of the command, in one transaction (`env.py`, `context.begin_transaction()`) | `Migrate`, `MigrateFails` |
| `sql/seed/local.sql`, provisioning | `Seed` |
| a statement of `app_api`, `app_worker`, `app_readonly` or the superuser, under any binding of tenant, actor and operator, or none | `Insert`, `Update`, `Delete` |
| `truncate ... cascade`, as the tests' fixtures run it as `app_migrator` (`tests/test_audit_and_cost.py:84`, `tests/security/conftest.py:78`, `tests/test_locations.py:40`) | `Truncate` |
| `audit.write_card()`, a definer function | `WriteCard` |

The first DDL statement of a command locks what it changes until the command ends, so a
whole command is one action between two statements of the roles; reading the version is
an action of its own, because another container's command may come in between. A
delete takes along what cascades. A truncate empties its table and all that refer to it,
directly or not (`EmptiedWith`); it asks for a privilege of its own, and neither the policies nor
the triggers of rows see it. So the trigger of 0004 that keeps `audit_card` append-only does not
stop it: what keeps the application's roles from it is that no migration grants it to them
(`RolesKeepTheirSurface`), and nothing keeps the superuser. `CardsAreAppendOnly` says what is
left: no statement changes a card or takes one of several away. Keys are checked past the policies, as PostgreSQL
checks them, those of the seed rows included; a key names tables that are there.

## Runs

`tlc -workers 2 -config X.cfg M`. Attempts, calls, walks and time are finite, and a database
left at base has nothing to write to: every system here may stop, so deadlock is not
checked.

| Run | Question | Bounds |
|---|---|---|
| `LadderFaults` | Does every fault at every statement leave rows, cards, effects and answers consistent, and does the whole implement `IdempotentExecution`? | 3 calls with one key (a holder, a waiter, a later replay), 2 previews (same or other payload), all faults, three kinds of actor; price 43 at grain 4, stored as 44 |
| `LadderTenants` | Is every effect quoted and cleared by its own tenant? | 2 tenants, 2 operations, one key and preview id between them, clock to 2 with previews that live 1 tick, prices at and over the drift limit and the caps |
| `LadderBudget` | How far can a cap be overrun, what is a passing preview worth, is a key executed once? Is the invariant behind the first two (`BudgetInv`) true? | 3 calls, 3 keys, 2 months of which one has a budget, 2 transactions at a time; estimates of 8 and 11 (stored as 12) and prices of 8 and 12 at grain 2 against caps of 12 and 20 and a balance of 14 with a floor of 2: the exact fit to each cap and the overrun by a concurrent call both occur |
| `LadderLive` | Does every call end? | as `LadderFaults` with one preview, with fairness, without symmetry |
| `JwksRotation` | Do verdicts follow the provider, fetches serve everybody, and waits end? Does a call keep its place in the lock's queue? (`CacheInv` is the invariant of the proofs.) | 3 calls, one key to retire and one to come, TTL and timeout of 1 tick, clock to 4 |
| `LocationWrites` | Do concurrent patches merge by column and keep the constraints, do answers match the table, does the whole implement `TenantStore`? | 3 requests on 2 connections, one slug taken and one free, patches of one column, of both, and to null, limits 1 and 2 with offsets 0 and 1, crashes and lost acknowledgements; commit before response |
| `LocationScopes` | Does a setting outlive its transaction, a read leave its scope, a client write, a wait go on forever? Is the strengthened invariant of the proofs (`StoreInv`) true where the response comes first? | 2 tenants with the same slugs, 2 requests on 2 connections that are reused, an operator of both, a client whose list of locations changes and is revoked, a token without tenant, pings; response before commit; with fairness, without symmetry |
| `LocationWalk` | What may a walk miss, what does a 304 confirm, does every walk end? (`WalkInv` likewise.) | 2 walkers through one cache, 3 slugs of which two have equal names, tokens of two tenants and of a member restricted to one location, limits -1, 0 and 1, 2 writes during the walks; with fairness |
| `SchemaMigrations` | Does every history of commands and writes leave the catalog of its revision, and does that catalog isolate tenants and roles? Do cards stay, but for a truncate of all? (`SchemaInv` likewise.) | 2 alembic processes, 3 commands, downgrades to base, 0002 and 0004 (past every key that was added to an older table), 2 tenants, one member, a row or two of every table that others refer to |

Three attempts are enough for every role a key knows (holder, waiter, replayer)
and for two of one role; two keys, tenants or previews for every way to differ in
one. Three commands are an upgrade, a downgrade and the way back, or two that overtake
each other. Symmetry is used where no liveness is checked.

Fairness (`FairSpec`): the statement an attempt is at is eventually taken when it stays
possible, because the event loop resumes ready coroutines and PostgreSQL answers or
fails. That `dispatch()` ends is assumed of the caller. Nothing is assumed of previews,
begins, billing, crashes or the clock. `LocationApi` has the same fairness for a request's
statements; its wait for a connection is ended by the pool's timeout. In
`LocationWalk` a client that has begun sends its next request and the server answers it;
nothing is assumed of writers. `WalkEnds` then rests on the offset: it grows by the limit
while the total stays bounded.

### Where the code and its words differ

Three runs each check what a docstring or a document says and are expected to fail;
`PROJECT.json` quotes the lines under `findings`.

- `CeilingOverrun`: concurrent calls with different keys pass `cost.assert_budget()`
  together and overrun a hard monthly cap. `OverrunBounded` says by how much when
  bills are written in the same transaction: one per-run cap for every other
  transaction the pool allows. With deferred billing nothing bounds it.
- `ExecutedTwice`: an effect whose transaction rolled back leaves no trace of its key.
- `FailedReupgrade`: a downgrade over rows that name an approval (or a listed location)
  drops what they name and leaves the rows; the next upgrade fails at the key it adds.
  A row of the second kind can be deleted. A card can be neither updated nor deleted, so
  that only the superuser clears the way, by a truncate of the whole trail or by switching
  its trigger off (which is not modelled). CI verifies the round trip to base, where the
  rows are gone as well, and that works; the run is about a downgrade by one revision over
  rows. `FailuresAreExplained` says that
  commands fail for no other reason than this and being overtaken, and downgrades
  for the second only.

Two further disagreements need no run, for single actions of `ApprovalLadder` show them.
`execute()` says that a concurrent loser does not block (`approval_ladder.py:187`), and the loser
waits in its insert (`WaitForHolder`); it is then told that its payload differed
(`RefuseInsert`, `DUPLICATE_IDEMPOTENCY_KEY` in `errors.py:47`) whatever the payload was.

## Proofs

`tlapm M.tla` with M one of the eight proof modules. The theorems hold for all
constants under the assumptions named in the modules (requests are well typed,
budgets exist or not per month with limits in whole cents, as `numeric(12,2)` has them,
months cover the clock, `None` is none of the rows, codes and calls, stored locations meet
their constraint at the start, there are finitely many locations, calls and rows, a token's
list names known locations, seed rows have keys of their own). No theorem
bounds the number of calls, tenants, connections, rows or steps.

*Gates.* `GatesMirrorEnforcement`: the Python gates all pass exactly when the
database function would accept, for every budget, spend, amount and balance.
`StoredBounds`: rounding moves an amount by at most half a grain.

*The ladder.* None of the safety properties is inductive: that no two rows share a
key at an insert says nothing about how a later rollback or commit leaves the
others. `LadderInv` strengthens them with `RowFollowsStep` and `AnswerFollowsRow`, which
make row, card, effect and answer of an attempt a function of the statement it
has reached. A step changes the state of its own attempt only (`Kept`, `LocalStep`), so
each action needs a proof for that attempt and for the uniqueness of rows; the
insert is the only action that adds a row, and its guard is what the index enforces.
From `LadderInvariant` follow `UniqueApproval`, `Atomicity`, `Honesty`, `ReplayAgreement` and
`ExclusiveDispatch`. `PricedDispatch` needs a second invariant,
`PricedSteps`: what the checks established stays true while the call waits, because
stored previews and budgets do not change. `SingleExecution` is for systems without lost
transactions and raising dispatches, whose callers' roles are all in `actor_role`: there no
row of an effect is ever rolled back (`EffectsRecorded`), and rows are unique.

*The budget.* `GatesMatchRefusals` compares two decisions at two times. `GatesInv` says what a
stored preview knows of the spend it was priced at (`QuoteHolds`) and what made a refusal
(`RefusalStands`); the refusal stands because billed spend only grows. Limits, spend and
stored prices are multiples of the stored grain, so the rounding that could move a price
over a limit cannot; a balance is whatever its provider reports, and a preview is taken at
its word only when its balance was a multiple as well. `OverrunBounded` is about a sum over open
transactions. `SpendInv` bounds it in advance: of the transactions that have passed the check
and have yet to bill (`Spenders`), one counts with the price it was cleared at and every
other with the per-run cap (`Foreseen`); passing the check, billing and every way to end keep
that, and the pool bounds how many they are (`PoolBounded`).

*The key cache.* `CacheInv` joins the lock, its queue and the one open fetch (`LockInOrder`): the lock
is held exactly while someone fetches or is about to, in the order of the queue. With
it go what was published when the stored document was read (`CachedOnce`), what a call has
been answered (`Answered`), and a deadline: a call has waited no longer than one timeout for
each call that is done before it, plus the current one (`Overdue`). The deadline is a
product of two variables, which the arithmetic of the provers does not do;
`TimesSuccessor` and `TimesMonotonic` are the two facts needed. From `CacheInvariant` follow
`ConvoyIsBounded`, `FetchesAreSingle` and `VerdictsFollow`.

`ConvoyIsBounded` counts every other call the process ever makes; a process that lives long makes
many, so it says that waits end and little of how long they are. `WaitByPlace` bounds a wait by the
place in the queue: a call found at place n waits at most n timeouts from then on. `Due` is when a
place is promised the lock. A step never puts a waiting call further back (`PlacesMove`), and only
the first of the queue, as it leaves to fetch, puts off the time the lock comes free, by the one
timeout by which everybody else then stands nearer (`HandoverMoves`, `PlacesAdvance`). Together that is
`PromisesAreKept`, for every step, and `WaitByPlace` its consequence from the moment a call
stands at its place (`Expects`).

*The walks.* A row a walk has missed must have been moved over the offset by a row that left, or
was behind a total that was counted before a row entered. `WalkInv` counts both: the
rows the walk is past without having them (`Passed`) are at most the ones that left, the
result now is at most the total and the late ones. That a page of an order holds the rows of
its ranks is a fact about bijections (`OrderShape`). `TakenIsCurrent` needs no invariant:
the tag determines rows, total and tenant, whatever the cache holds.

*The promise.* `LadderKeepsPromise`, for any faults: the ladder implements
`IdempotentExecution`. The mapping picks the holder of a slot from a set of rows; `OwnSlot`
and `FreeSlot` say, from the uniqueness of rows, which attempt that is, `OtherSlots` that a
step leaves all slots but its own alone. The insert acquires, a commit settles or
replays, an exception abandons the slot of a call that has its row and refuses any other;
all other statements are stutters.

*Isolation.* `ReadsOwnScope` speaks of the token of a request, the policies of the settings of
its connection; what joins them is where every request stands. `LocationInv` says so:
`OneHolder` (a connection has one holder), `IdleUnbound` (nobody's connection is bound to
nobody), and for each request `Admitted` (past the gate means let through), `Bound` (the
connection of a request carries its claims, a ping's carries none) and `Wrote` (what it may
commit is the row it names). A statement (`Statement`) moves no connection; an ending
(`Ending`) unbinds its own, and by `OneHolder` no other request's. From
`LocationInvariant` follow `NoTenantLeft`, `ReadsScope` and `OperatorsWrite`; the last needs `Wrote`
because the write policies do not look at roles, so that only the gate an earlier step
passed keeps clients out.

*The store.* That two patches, each valid for the row it loaded, never store half a
coordinate pair is not inductive, nor is that an answer is true: both depend on what was
written and is not committed. `StoreInv` adds that to `LocationInv`. `OneWriter`: uncommitted
rows have different places, by the row lock and the unique index. `Pending`: the row a
request has written is what its create or patch makes of the row the table holds now, and
meets the constraint; the lock is why a concurrent commit cannot make this false.
`Handled` and `Answered` say what a request has loaded, written and answered at each
statement. From `StoreInvariant` follow `PairsStayTogether`, `AnswersAreTrue` and
`SuppliedColumnsOnly`, and with the mapping of `LocationImplements` `RequestsImplementStore`: where
requests commit before they respond, every step is one of `TenantStore` or a stutter. Where
they respond first this is not so, and the theorem assumes `~RespondFirst`.

*The schema.* A command is two nested runs, of revisions and of statements, so its theorems are
inductions over their lengths. The induction theorems of the library take a predicate as a
parameter, which the provers cannot instantiate; `CountUp` states induction for a *set* of
numbers, from the well-foundedness of `<`, and `RunHistory` and `StepsHistory` unfold a run into
the list of databases it goes through, on which all other lemmas work.

`SchemaInv` has two parts. `Sane` holds after every statement of any migration made of `Sound`
statements: nothing hangs on a table that is not there, every reference a key covers
resolves, policies name the tenant. `Like` joins the version to the catalog: the database
is like `Fresh` at its version. Nothing evaluates `Fresh` for this. Upwards: what a
statement changes depends on the catalog alone, and rows can only make a key fail, so what
succeeds on a database succeeds on the fresh one too and leaves them alike (`AlikeRun`,
`UpRevision`). Downwards: a script touches nothing outside its revision's tables and leaves
none of these, so the result is what was there before the upgrade (`OutsideRun`, `DownTables`,
`DownRevision`). 0002 fits neither: it creates no table, grants on all there are, and its
downgrade keeps the grants. Below 0002 `Like` therefore says no more of the grants than that they are
few (`Narrow`), and `Grants2Run` computes that 0002 ends with the same grants and defaults
whatever it began with.

From `SchemaInvariant` follow `NoDanglingReference` and `SameCatalog` at once. The others read what they
need off the fresh databases, revision by revision: row security on every table from 0002
on (`AllSecured`), the guard wherever there are cards (`CardsGuarded`), the grants of worker and
read-only role (`Surface`). `ReadsOwnTenant` and `WritesOwnTenant` then follow from `PolicyOk`: a
role of the application needs a policy, and each names the tenant, for a scope row through
its membership, of which there is one. `CardsGoTogether` needs that no delete cascades into a card, and
leaves the superuser's truncate as the one way but a downgrade in which cards go.

A truncate keeps `Sane` because what it empties is closed under references (`EmptiedAre`). The
set is defined by a recursive function, which the provers know only as a `CHOOSE`: that there is such
a function at all is shown first, with the least closed set of tables.

`FailuresExplained` and `FirstUpgradeSucceeds` say that commands do succeed. The tables come in
one order (`Built`), a version has the first so many of them (`Stage`), and every key but two refers
backwards, so that tables can be created in that order and dropped in the other. The two,
`ScopeKey` and `CardKey`, are added after both their tables and dropped before them. `Goes1` to
`Goes5` and `Back1` to `Back5` go through the ten scripts: each statement is possible where the one
before it left the database, an added key being the only one that depends on the rows. A database
that is `Like` the fresh one at its version has the same tables and keys, so no history puts
an object in a command's way that the command has not read in `alembic_version`; what remains is
another command or an orphan.

Only model-checked, as out of the prover's reach: liveness (`EveryCallEnds`,
`EveryRequestEnds`, `WalkEnds`).

## Limits and plan

Not modelled: formatting, JSON, pydantic validation, logging, configuration, tooling.
Costs are taken to be non-negative. Budgets do not change during a run. A fetch of keys
ends within one timeout (httpx's applies to each phase of it). The HTTP routes do not
call the ladder yet, so the caller of `execute()` is the one the tests show.

`LocationApi` leaves out the filters of `list` (in `LocationWalk` they are the result set)
and the bodies of responses to writes. `LocationWalk` takes one filter per walk and no change
of memberships during it; `LocationApi` has those. `SchemaLife` does not model `alembic --sql`,
which only prints, nor statements that span several alembic versions of one connection.
Configuration, logging and tooling are not modelled because they keep no state that steps of
two actors could disagree about; schemas only as far as an answer carries what a page says.

Order of what comes next, and why in this order:

1. `RequestPipeline`: `JwksCache` verdicts give the claims of `LocationApi`; `GET /v1/me`, the mock
   tokens, the idempotency header; a caller of the ladder that catches the refusals of
   its dispatch. It joins the two halves of a request that are modelled apart today.
2. `CostLedger`: rows of a ledger refine the billed sum the ladder uses.
