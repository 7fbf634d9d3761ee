---------------------------- MODULE LocationApi ----------------------------
(***************************************************************************)
(* Requests to /v1/locations and /v1/ready over the connections of one     *)
(* pool: the token's claims and the operator gate (deps.py), one           *)
(* transaction per request bound by tenant_context() (rls.py), the         *)
(* statements of router, service and repository, and the commit when the   *)
(* dependency get_scoped_db() is torn down.                                *)
(*                                                                         *)
(* Every action is one awaited statement.  A statement sees what is        *)
(* committed before it (READ COMMITTED); no handler reads after it wrote,  *)
(* and none writes more than one row.                                      *)
(***************************************************************************)
EXTENDS RowSecurity, Integers, FiniteSetsExt

CONSTANTS Requests,          \* identities of HTTP requests
          Connections,       \* the pooled connections
          Asks,              \* what requests may ask
          Coordinates,       \* values of lat and lng
          NameRank,          \* where a slug's name sorts: names may be equal
          InitialTables,     \* contents of table location at the start
          InitialMembers,    \* memberships at the start
          MembershipChanges, \* memberships an administrator may write later
          RespondFirst,      \* get_scoped_db() ends after the response is sent
          Faults             \* the failures that may happen

Columns == {"lat", "lng"}
Row == [Columns -> Coordinates \cup {None}]
(* The check constraint location_coords_paired.                            *)
Paired(row) == (row["lat"] = None) <=> (row["lng"] = None)

Values == UNION {[cs -> Coordinates \cup {None}] : cs \in SUBSET Columns}

(* A token may come without a tenant.                                      *)
Claims == [tenant : Tenants \cup {None}, actor : Actors, role : Roles]
Ask == [kind : {"list", "get", "create", "patch", "ready"}, ctx : Claims,
        slug : Slugs, values : Values, limit : Nat, offset : Nat]

ASSUME AskAssumption == Asks \subseteq Ask /\ NameRank \in [Slugs -> Nat]
ASSUME StartAssumption ==
  /\ InitialTables \subseteq [Locations -> Row \cup {None}]
  /\ \A table \in InitialTables, l \in Locations : table[l] # None => Paired(table[l])
  /\ InitialMembers \subseteq Memberships
  /\ MembershipChanges \subseteq Tenants \X Actors \X Membership
ASSUME BuildAssumption ==
  RespondFirst \in BOOLEAN /\ Faults \subseteq {"crash", "connection"}
ASSUME FiniteAssumption ==
  IsFiniteSet(Requests) /\ IsFiniteSet(Locations) /\ Connections # {}

VARIABLES
  location,   \* the committed rows of table location
  members,    \* membership and membership_location
  settings,   \* the app.* settings of a connection's transaction
  pc,         \* the statement a request runs next
  ask,        \* what it asked
  conn,       \* the connection its session holds
  total,      \* what its count(*) returned
  seen,       \* the rows its last select returned
  loaded,     \* the row it loaded, as it was then
  write,      \* the row its transaction wrote and has not committed
  committed,  \* requests whose write is committed
  answer      \* the code of the response

request == <<pc, ask, conn, total, seen, loaded, write, committed, answer>>
vars    == <<location, members, settings, request>>

Steps == {"checkout", "ping", "count", "page", "load", "insert", "update",
          "waiting", "respond", "teardown"}
Refusals == {"TENANT_SCOPE_MISSING", "FORBIDDEN_ROLE", "NOT_FOUND", "INTERNAL_ERROR",
             "NOT_READY"}
Codes == Refusals \cup {"OK", "LOST"}
Write == [at : Locations, row : Row]

ASSUME OutsideAssumption ==
  None \notin Connections \cup Asks \cup Coordinates \cup Row \cup Write \cup Codes

(* The values the variables take.                                          *)
TypeOK ==
  /\ location \in [Locations -> Row \cup {None}]
  /\ members \in Memberships
  /\ settings \in [Connections -> Settings]
  /\ pc \in [Requests -> Steps \cup {"idle", "done"}]
  /\ ask \in [Requests -> Asks \cup {None}]
  /\ conn \in [Requests -> Connections \cup {None}]
  /\ total \in [Requests -> Nat]
  /\ seen \in [Requests -> SUBSET Locations]
  /\ loaded \in [Requests -> Row \cup {None}]
  /\ write \in [Requests -> Write \cup {None}]
  /\ committed \subseteq Requests
  /\ answer \in [Requests -> Codes \cup {None}]

Init ==
  /\ location \in InitialTables
  /\ members \in InitialMembers
  /\ settings = [c \in Connections |-> Unbound]
  /\ pc = [r \in Requests |-> "idle"]
  /\ ask = [r \in Requests |-> None]
  /\ conn = [r \in Requests |-> None]
  /\ total = [r \in Requests |-> 0]
  /\ seen = [r \in Requests |-> {}]
  /\ loaded = [r \in Requests |-> None]
  /\ write = [r \in Requests |-> None]
  /\ committed = {}
  /\ answer = [r \in Requests |-> None]

-----------------------------------------------------------------------------
Active(r) == pc[r] \in Steps
Idle(c) == \A r \in Requests : conn[r] # c
Goto(r, step) == pc' = [pc EXCEPT ![r] = step]

(* The row a create makes or a patch changes, and who else is writing it.  *)
Target(r) == <<ask[r].ctx.tenant, ask[r].slug>>
Held(r, l) == \E o \in Requests \ {r} : write[o] # None /\ write[o].at = l

(* What a select on table location returns now.                            *)
Sees(r) ==
  {l \in Locations :
     location[l] # None /\ SelectPolicy(settings[conn[r]], members, l)}

(* Mutant of EndTransaction: set_config() without is_local.                *)
KeepSettings(r) ==
  /\ settings' = settings
  /\ conn' = [conn EXCEPT ![r] = None]
  /\ write' = [write EXCEPT ![r] = None]

(* Commit or rollback: SET LOCAL ends, locks go, the pool has its          *)
(* connection back.                                                        *)
EndTransaction(r) ==
  /\ settings' = IF conn[r] = None THEN settings
                 ELSE [settings EXCEPT ![conn[r]] = Unbound]
  /\ conn' = [conn EXCEPT ![r] = None]
  /\ write' = [write EXCEPT ![r] = None]

(* The transaction ends with nothing to commit: an exception has left the  *)
(* handler, or nothing was written.                                        *)
Rollback(r, code) ==
  /\ Goto(r, "done")
  /\ answer' = [answer EXCEPT ![r] = code]
  /\ EndTransaction(r)
  /\ UNCHANGED <<location, members, ask, total, seen, loaded, committed>>

-----------------------------------------------------------------------------
(* get_tenant_context() asks for a tenant, require_operator() on create    *)
(* and patch for a role, both before any transaction.  Mutant of Gated:    *)
(* the writing routes depend on get_tenant_context() alone.                *)
Scoped(q) == q.kind = "ready" \/ q.ctx.tenant # None
NoGate(q) == FALSE
Gated(q) == q.kind \in {"create", "patch"} /\ ~IsOperator(q.ctx)

Arrive(r) ==
  /\ pc[r] = "idle"
  /\ \E q \in Asks : Scoped(q) /\ ~Gated(q) /\ ask' = [ask EXCEPT ![r] = q]
  /\ Goto(r, "checkout")
  /\ UNCHANGED <<location, members, settings, conn, total, seen, loaded, write,
                 committed, answer>>

Refuse(r) ==
  /\ pc[r] = "idle"
  /\ \E q \in Asks :
       /\ ask' = [ask EXCEPT ![r] = q]
       /\ \/ ~Scoped(q) /\ answer' = [answer EXCEPT ![r] = "TENANT_SCOPE_MISSING"]
          \/ /\ Scoped(q) /\ Gated(q)
             /\ answer' = [answer EXCEPT ![r] = "FORBIDDEN_ROLE"]
  /\ Goto(r, "done")
  /\ UNCHANGED <<location, members, settings, conn, total, seen, loaded, write,
                 committed>>

FirstStatement(kind) ==
  CASE kind = "list"   -> "count"
    [] kind = "create" -> "insert"
    [] OTHER           -> "load"

(* Mutant of Bind: only the tenant is set.                                 *)
BindTenantOnly(r) ==
  /\ pc[r] = "checkout" /\ ask[r].kind # "ready"
  /\ \E c \in Connections :
       /\ Idle(c)
       /\ conn' = [conn EXCEPT ![r] = c]
       /\ settings' = [settings EXCEPT ![c].tenant = ask[r].ctx.tenant]
  /\ Goto(r, FirstStatement(ask[r].kind))
  /\ UNCHANGED <<location, members, ask, total, seen, loaded, write, committed, answer>>

(* tenant_context(): the first statement takes a connection and binds it.  *)
Bind(r) ==
  /\ pc[r] = "checkout" /\ ask[r].kind # "ready"
  /\ \E c \in Connections :
       /\ Idle(c)
       /\ conn' = [conn EXCEPT ![r] = c]
       /\ settings' = [settings EXCEPT ![c] = ask[r].ctx]
  /\ Goto(r, FirstStatement(ask[r].kind))
  /\ UNCHANGED <<location, members, ask, total, seen, loaded, write, committed, answer>>

(* check_ready(): a transaction of its own, without a tenant.              *)
Ping(r) ==
  /\ pc[r] = "checkout" /\ ask[r].kind = "ready"
  /\ \E c \in Connections : Idle(c) /\ conn' = [conn EXCEPT ![r] = c]
  /\ Goto(r, "ping")
  /\ UNCHANGED <<location, members, settings, ask, total, seen, loaded, write,
                 committed, answer>>

PingReturns(r) == pc[r] = "ping" /\ Rollback(r, "OK")

(* The pool's timeout, and wait_for() around the ping, which cancels it.   *)
TimeOut(r) ==
  \/ pc[r] = "checkout" /\ (\A c \in Connections : ~Idle(c)) /\ ask[r].kind # "ready"
     /\ Rollback(r, "INTERNAL_ERROR")
  \/ pc[r] \in {"checkout", "ping"} /\ ask[r].kind = "ready" /\ Rollback(r, "NOT_READY")

-----------------------------------------------------------------------------
(* list_locations(): the total and the page are two statements.            *)
Count(r) ==
  /\ pc[r] = "count"
  /\ total' = [total EXCEPT ![r] = Cardinality(Sees(r))]
  /\ Goto(r, "page")
  /\ UNCHANGED <<location, members, settings, ask, conn, seen, loaded, write,
                 committed, answer>>

(* order by name limit .. offset ..: equal names come in any order.        *)
SortsFirst(part, rows) ==
  \A x \in part, y \in rows \ part : NameRank[SlugOf(x)] <= NameRank[SlugOf(y)]

Pages(rows, limit, offset) ==
  {page \in SUBSET rows : \E before \in SUBSET (rows \ page) :
     /\ SortsFirst(before, rows) /\ SortsFirst(before \cup page, rows)
     /\ Cardinality(before) = Min({offset, Cardinality(rows)})
     /\ Cardinality(page) = Min({limit, Cardinality(rows) - Cardinality(before)})}

Page(r) ==
  /\ pc[r] = "page"
  /\ \E page \in Pages(Sees(r), ask[r].limit, ask[r].offset) :
       seen' = [seen EXCEPT ![r] = page]
  /\ Goto(r, "respond")
  /\ UNCHANGED <<location, members, settings, ask, conn, total, loaded, write,
                 committed, answer>>

(* get_by_slug(): the row with the slug that the policies leave; the       *)
(* session keeps it as it was.                                             *)
WithSlug(r) == {l \in Sees(r) : SlugOf(l) = ask[r].slug}

Load(r) ==
  /\ pc[r] = "load"
  /\ \E l \in WithSlug(r) :
       /\ WithSlug(r) = {l}
       /\ seen' = [seen EXCEPT ![r] = {l}]
       /\ loaded' = [loaded EXCEPT ![r] = location[l]]
  /\ Goto(r, IF ask[r].kind = "patch" THEN "update" ELSE "respond")
  /\ UNCHANGED <<location, members, settings, ask, conn, total, write, committed, answer>>

LoadFails(r) ==
  /\ pc[r] = "load"
  /\ \/ WithSlug(r) = {} /\ Rollback(r, "NOT_FOUND")
     \/ Cardinality(WithSlug(r)) > 1 /\ Rollback(r, "INTERNAL_ERROR")

-----------------------------------------------------------------------------
NewRow(r) ==
  [c \in Columns |-> IF c \in DOMAIN ask[r].values THEN ask[r].values[c] ELSE None]

(* insert .. returning needs the row to be visible as well.                *)
Insertable(r) ==
  /\ WritePolicy(settings[conn[r]], Target(r))
  /\ SelectPolicy(settings[conn[r]], members, Target(r))
  /\ Paired(NewRow(r))

(* SQLAlchemy writes the supplied columns that differ from the row it      *)
(* loaded, to the row as it is by then.  Mutants of Updated: every column  *)
(* is written back as it was loaded; the constraint looks at that row.     *)
Changed(r) == {c \in DOMAIN ask[r].values : ask[r].values[c] # loaded[r][c]}
WholeRow(r) ==
  [c \in Columns |-> IF c \in Changed(r) THEN ask[r].values[c] ELSE loaded[r][c]]
Updated(r) ==
  [c \in Columns |-> IF c \in Changed(r) THEN ask[r].values[c]
                     ELSE location[Target(r)][c]]
CheckLoaded(r) == Paired(WholeRow(r))
Updatable(r) == Paired(Updated(r))

Inserting(r) == pc[r] \in {"insert", "waiting"} /\ ask[r].kind = "create"
Updating(r) ==
  pc[r] \in {"update", "waiting"} /\ ask[r].kind = "patch" /\ Changed(r) # {}

(* The unique index and the row lock make a second writer wait.            *)
WaitForRow(r) ==
  /\ pc[r] \in {"insert", "update"}
  /\ (Inserting(r) /\ Insertable(r)) \/ Updating(r)
  /\ Held(r, Target(r))
  /\ Goto(r, "waiting")
  /\ UNCHANGED <<location, members, settings, ask, conn, total, seen, loaded, write,
                 committed, answer>>

Writes(r, row) ==
  /\ write' = [write EXCEPT ![r] = [at |-> Target(r), row |-> row]]
  /\ Goto(r, "respond")
  /\ UNCHANGED <<location, members, settings, ask, conn, total, seen, loaded,
                 committed, answer>>

(* Mutants of Insert: a check before the insert in place of the index; on  *)
(* conflict do update.                                                     *)
InsertUnindexed(r) ==
  /\ Inserting(r) /\ Insertable(r)
  /\ location[Target(r)] = None
  /\ Writes(r, NewRow(r))

Upsert(r) ==
  /\ Inserting(r) /\ Insertable(r)
  /\ ~Held(r, Target(r))
  /\ Writes(r, NewRow(r))

Insert(r) ==
  /\ Inserting(r) /\ Insertable(r)
  /\ ~Held(r, Target(r)) /\ location[Target(r)] = None
  /\ Writes(r, NewRow(r))

(* No constraint violation is mapped to a problem of its own.              *)
InsertFails(r) ==
  /\ Inserting(r)
  /\ ~Insertable(r) \/ (~Held(r, Target(r)) /\ location[Target(r)] # None)
  /\ Rollback(r, "INTERNAL_ERROR")

Update(r) ==
  /\ Updating(r) /\ ~Held(r, Target(r))
  /\ Updatable(r)
  /\ Writes(r, Updated(r))

UpdateFails(r) ==
  /\ Updating(r) /\ ~Held(r, Target(r))
  /\ ~Updatable(r)
  /\ Rollback(r, "INTERNAL_ERROR")

(* A flush without changes sends no statement.                             *)
UpdateNothing(r) ==
  /\ pc[r] = "update" /\ Changed(r) = {}
  /\ Goto(r, "respond")
  /\ UNCHANGED <<location, members, settings, ask, conn, total, seen, loaded, write,
                 committed, answer>>

-----------------------------------------------------------------------------
(* The handler has returned.  Newer releases of the framework send the     *)
(* response before they tear get_scoped_db() down, older ones after.       *)
Respond(r) ==
  /\ pc[r] = "respond" /\ RespondFirst
  /\ answer' = [answer EXCEPT ![r] = "OK"]
  /\ Goto(r, "teardown")
  /\ UNCHANGED <<location, members, settings, ask, conn, total, seen, loaded, write,
                 committed>>

(* The first response counts.                                              *)
Says(r, code) ==
  answer' = [answer EXCEPT ![r] = IF answer[r] = None THEN code ELSE answer[r]]

MayCommit(r) == pc[r] = IF RespondFirst THEN "teardown" ELSE "respond"

(* Mutant of Commit: the session is closed without a commit.               *)
CloseSession(r) ==
  /\ MayCommit(r)
  /\ Says(r, "OK")
  /\ Goto(r, "done")
  /\ EndTransaction(r)
  /\ UNCHANGED <<location, committed, members, ask, total, seen, loaded>>

(* session.begin() ends: commit.  Its acknowledgement may be lost.         *)
Commit(r) ==
  /\ MayCommit(r)
  /\ IF write[r] = None THEN UNCHANGED <<location, committed>>
     ELSE /\ location' = [location EXCEPT ![write[r].at] = write[r].row]
          /\ committed' = committed \cup {r}
  /\ Says(r, "OK") \/ ("connection" \in Faults /\ Says(r, "LOST"))
  /\ Goto(r, "done")
  /\ EndTransaction(r)
  /\ UNCHANGED <<members, ask, total, seen, loaded>>

(* Mutant of Crash: the server keeps the transaction of a lost client.     *)
CrashKeepsLock(r) ==
  /\ Active(r) /\ "crash" \in Faults
  /\ Says(r, "LOST")
  /\ Goto(r, "done")
  /\ UNCHANGED <<location, members, settings, conn, write, ask, total, seen, loaded,
                 committed>>

(* The request is cancelled or its session breaks: rollback.               *)
Crash(r) ==
  /\ Active(r) /\ "crash" \in Faults
  /\ Says(r, "LOST")
  /\ Goto(r, "done")
  /\ EndTransaction(r)
  /\ UNCHANGED <<location, members, ask, total, seen, loaded, committed>>

(* Memberships are written outside src/.                                   *)
ChangeMembership ==
  /\ \E change \in MembershipChanges :
       members' = [members EXCEPT ![change[1]][change[2]] = change[3]]
  /\ UNCHANGED <<location, settings, request>>

Progress(r) ==
  \/ Bind(r) \/ Ping(r) \/ PingReturns(r) \/ TimeOut(r)
  \/ Count(r) \/ Page(r) \/ Load(r) \/ LoadFails(r)
  \/ WaitForRow(r) \/ Insert(r) \/ InsertFails(r)
  \/ Update(r) \/ UpdateFails(r) \/ UpdateNothing(r)
  \/ Respond(r) \/ Commit(r)

Next ==
  \/ \E r \in Requests : Arrive(r) \/ Refuse(r) \/ Progress(r) \/ Crash(r)
  \/ ChangeMembership

Spec == Init /\ [][Next]_vars

(* The event loop resumes a request whose statement may go on, and the     *)
(* pool's timeout ends its wait for a connection.  Nothing is assumed of   *)
(* arrivals, crashes and administrators.                                   *)
FairSpec == Spec /\ \A r \in Requests : WF_vars(Progress(r))

-----------------------------------------------------------------------------
(* What a select returns belongs to the tenant of the token that asked     *)
(* and, for a client whose active membership lists locations, to the       *)
(* list as it is at that statement: whichever requests used the            *)
(* connection before and whatever they left on it.                         *)
ReadsOwnScope ==
  [][\A r \in Requests : seen'[r] # seen[r] =>
       LET me == ask[r].ctx
           m  == members[me.tenant][me.actor]
       IN  \A l \in seen'[r] :
             /\ TenantOf(l) = me.tenant
             /\ \/ IsOperator(me) \/ m = None \/ m.status # "active"
                \/ m.locations = {} \/ l \in m.locations]_vars

(* No tenant outlives its transaction: a connection nobody holds, and the  *)
(* one check_ready() pings on, are bound to none.                          *)
NoTenantLeftBound ==
  \A c \in Connections :
    settings[c] # Unbound =>
      \E r \in Requests : conn[r] = c /\ settings[c] = ask[r].ctx /\ pc[r] # "ping"

(* A row changes only by the commit of a request of its tenant made in an  *)
(* operator role.  The policies do not look at the role of a writer.       *)
OperatorsWriteTheirOwn ==
  [][\A l \in Locations : location'[l] # location[l] =>
       \E r \in committed' \ committed :
         /\ ask[r].ctx.tenant = TenantOf(l)
         /\ IsOperator(ask[r].ctx)]_vars

(* "Only supplied fields change": a patch leaves the columns it did not    *)
(* supply as the last writer left them, also when that write came between  *)
(* its load and its update.                                                *)
OnlySuppliedChange ==
  [][\A r \in committed' \ committed : ask[r].kind = "patch" =>
       \A c \in Columns \ DOMAIN ask[r].values :
         location'[Target(r)][c] = location[Target(r)][c]]_vars

(* Latitude and longitude are stored together or not at all, although two  *)
(* patches may each supply half of them.                                   *)
CoordinatesPaired ==
  \A l \in Locations : location[l] # None => Paired(location[l])

(* A refused or failed request changed nothing; with the response sent     *)
(* after the commit, a write that was acknowledged is in the table.        *)
AnswersMatchTable ==
  \A r \in Requests :
    /\ answer[r] \in Refusals => r \notin committed
    /\ answer[r] = "OK" /\ ~RespondFirst
         => \/ ask[r].kind \notin {"create", "patch"}
            \/ ask[r].kind = "patch" /\ Changed(r) = {}
            \/ r \in committed

(* Every request is answered: waits for rows and connections end.          *)
EveryRequestEnds == \A r \in Requests : Active(r) ~> pc[r] = "done"

-----------------------------------------------------------------------------
(* The inductive invariant behind the properties of isolation: where a     *)
(* request is says which connection it holds, bound to whom, and whose row *)
(* it may have written.                                                    *)
OneHolder ==
  \A a, b \in Requests : conn[a] # None /\ conn[a] = conn[b] => a = b
IdleUnbound == \A c \in Connections : Idle(c) => settings[c] = Unbound

Admitted(r) ==
  pc[r] \in Steps => ask[r] \in Asks /\ Scoped(ask[r]) /\ ~Gated(ask[r])
Bound(r) ==
  /\ pc[r] \in {"idle", "checkout", "done"} => conn[r] = None
  /\ pc[r] = "ping" => conn[r] # None /\ settings[conn[r]] = Unbound
  /\ pc[r] \in Steps \ {"checkout", "ping"} =>
       /\ ask[r].kind # "ready"
       /\ conn[r] # None /\ settings[conn[r]] = ask[r].ctx
Wrote(r) ==
  /\ pc[r] \in {"update", "waiting"} /\ ask[r].kind = "patch" =>
       location[Target(r)] # None /\ loaded[r] # None
  /\ write[r] # None =>
       /\ pc[r] \in {"respond", "teardown"}
       /\ ask[r].kind \in {"create", "patch"}
       /\ write[r].at = Target(r)
  /\ r \in committed => pc[r] = "done"

(* Connections are held by one request each, bound to its token's claims   *)
(* from its first statement to its last, and unbound in between.           *)
LocationInv ==
  /\ TypeOK /\ OneHolder /\ IdleUnbound
  /\ \A r \in Requests : Admitted(r) /\ Bound(r) /\ Wrote(r)


(* What a request has written and not committed is what the table is to    *)
(* become, for the lock keeps every other writer of the row away.          *)
OneWriter ==
  \A a, b \in Requests :
    write[a] # None /\ write[b] # None /\ write[a].at = write[b].at => a = b

Pending(r) ==
  write[r] # None =>
    /\ Paired(write[r].row)
    /\ ask[r].kind = "create" =>
         location[Target(r)] = None /\ write[r].row = NewRow(r)
    /\ ask[r].kind = "patch" =>
         /\ location[Target(r)] # None /\ loaded[r] # None
         /\ Changed(r) # {} /\ write[r].row = Updated(r)

(* Where a request is says what kind it is, and what it has to show when   *)
(* its handler has returned.                                               *)
Handled(r) ==
  /\ pc[r] = "ping" => ask[r].kind = "ready"
  /\ pc[r] \in {"count", "page"} => ask[r].kind = "list"
  /\ pc[r] = "load" => ask[r].kind \in {"get", "patch"}
  /\ pc[r] = "insert" => ask[r].kind = "create"
  /\ pc[r] = "update" => ask[r].kind = "patch"
  /\ pc[r] = "waiting" =>
       ask[r].kind = "create" \/ (ask[r].kind = "patch" /\ Changed(r) # {})
  /\ pc[r] \in {"respond", "teardown"} =>
       /\ ask[r].kind = "get" => loaded[r] # None
       /\ ask[r].kind = "create" => write[r] # None
       /\ ask[r].kind = "patch" =>
            loaded[r] # None /\ (write[r] = None <=> Changed(r) = {})

(* A request is answered when it is done, or by the early response.        *)
Answered(r) ==
  /\ pc[r] = "idle" => ask[r] = None /\ loaded[r] = None
  /\ pc[r] = "teardown" => RespondFirst /\ answer[r] = "OK"
  /\ pc[r] \notin {"teardown", "done"} => answer[r] = None
  /\ r \in committed => answer[r] \in {"OK", "LOST"}

(* Writes in flight, requests and answers fit each other and the table.    *)
StoreInv ==
  /\ LocationInv /\ OneWriter /\ CoordinatesPaired /\ AnswersMatchTable
  /\ \A r \in Requests : Pending(r) /\ Handled(r) /\ Answered(r)

=============================================================================
