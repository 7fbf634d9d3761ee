------------------------- MODULE LocationApiProofs -------------------------
(* Isolation of the requests to /v1/locations, for every number of         *)
(* requests, connections, tenants and locations, every content of the      *)
(* tables, both builds and all faults.                                     *)
EXTENDS LocationApi, FiniteSetTheorems, TLAPS

(***************************************************************************)
(* Values.                                                                 *)
(***************************************************************************)

(* A request that passed the gates names a tenant, unless it is a ping,    *)
(* and writes only in an operator role.                                    *)
LEMMA AskType ==
  ASSUME NEW q \in Asks
  PROVE  /\ q.ctx \in Claims /\ q.slug \in Slugs
         /\ q.values \in Values /\ q.limit \in Nat /\ q.offset \in Nat
         /\ q.kind \in {"list", "get", "create", "patch", "ready"}
         /\ Scoped(q) /\ q.kind # "ready" =>
              q.ctx \in Context /\ <<q.ctx.tenant, q.slug>> \in Locations
         /\ ~Gated(q) /\ q.kind \in {"create", "patch"} => IsOperator(q.ctx)
<1>1. q \in Ask
  BY AskAssumption
<1> QED
  BY <1>1 DEF Ask, Claims, Context, Scoped, Gated, Locations

(* The supplied values fit the columns.                                    *)
LEMMA ValueType ==
  ASSUME NEW v \in Values, NEW c \in DOMAIN v
  PROVE  c \in Columns /\ v[c] \in Coordinates \cup {None}
BY DEF Values

(* The settings a context leaves are not those of an unbound transaction.  *)
LEMMA ContextBinds ==
  ASSUME NEW x \in Context
  PROVE  x \in Settings /\ x # Unbound /\ x.tenant # None /\ Unbound \in Settings
BY NoneIsNeither DEF Context, Settings, Unbound

(* What a select returns are locations with a committed row, finitely many.*)
LEMMA SeesRows ==
  ASSUME NEW r \in Requests
  PROVE  /\ Sees(r) \subseteq Locations
         /\ \A l \in Sees(r) : location[l] # None
         /\ Cardinality(Sees(r)) \in Nat
<1>1. Sees(r) \subseteq Locations /\ \A l \in Sees(r) : location[l] # None
  BY DEF Sees
<1>2. IsFiniteSet(Sees(r))
  BY <1>1, FiniteAssumption, FS_Subset
<1> QED
  BY <1>1, <1>2, FS_CardinalityType

(***************************************************************************)
(* Steps of four shapes.                                                   *)
(***************************************************************************)

(* A statement of a bound request: the connection stays, the row it wrote, *)
(* if any, is its own and nobody else's changes.                           *)
Statement(r) ==
  /\ pc[r] \in Steps \ {"checkout", "ping", "teardown"}
  /\ \E step \in Steps \ {"checkout", "ping"} : Goto(r, step)
  /\ UNCHANGED <<location, members, settings, ask, conn, committed>>

(* The end of a request: its connection is free and unbound again.         *)
Ending(r) ==
  /\ Active(r)
  /\ Goto(r, "done")
  /\ EndTransaction(r)
  /\ UNCHANGED <<members, ask, total, seen, loaded>>

(* The statements between binding and teardown.                            *)
LEMMA StatementShape ==
  ASSUME TypeOK, NEW r \in Requests,
         \/ Count(r) \/ Page(r) \/ Load(r) \/ WaitForRow(r)
         \/ Insert(r) \/ Update(r) \/ UpdateNothing(r) \/ Respond(r)
  PROVE  Statement(r)
BY DEF TypeOK, Statement, Goto, Steps, Count, Page, Load, WaitForRow, Inserting, Updating,
       Insert, Update, Writes, UpdateNothing, Respond

(* The ways a request ends without a commit.                               *)
LEMMA EndingShape ==
  ASSUME TypeOK, NEW r \in Requests,
         \/ PingReturns(r) \/ TimeOut(r) \/ LoadFails(r)
         \/ InsertFails(r) \/ UpdateFails(r) \/ Crash(r)
  PROVE  Ending(r) /\ UNCHANGED <<location, committed>>
BY DEF Ending, Active, Steps, Rollback, PingReturns, TimeOut, LoadFails, InsertFails,
       UpdateFails, Inserting, Updating, Crash

(* A commit ends a request whose handler has returned.                     *)
LEMMA CommitShape ==
  ASSUME TypeOK, NEW r \in Requests, Commit(r)
  PROVE  Ending(r) /\ pc[r] \in {"respond", "teardown"}
BY DEF Ending, Active, Steps, Commit, MayCommit

(***************************************************************************)
(* Type correctness.                                                       *)
(***************************************************************************)

(* The row a bound request writes is a location of its tenant.             *)
LEMMA TargetType ==
  ASSUME LocationInv, NEW r \in Requests, pc[r] \in Steps \ {"checkout", "ping"}
  PROVE  /\ ask[r] \in Asks /\ ask[r].ctx \in Context
         /\ Target(r) \in Locations /\ TenantOf(Target(r)) = ask[r].ctx.tenant
<1>1. Admitted(r) /\ Bound(r)
  BY DEF LocationInv
<1>2. ask[r] \in Asks /\ Scoped(ask[r]) /\ ask[r].kind # "ready"
  BY <1>1 DEF Admitted, Bound
<1> QED
  BY <1>2, AskType DEF Target, TenantOf

(* What a patch or a create writes is a row.                               *)
LEMMA RowType ==
  ASSUME LocationInv, NEW r \in Requests, pc[r] \in Steps \ {"checkout", "ping"}
  PROVE  /\ NewRow(r) \in Row
         /\ location[Target(r)] # None => Updated(r) \in Row
<1>1. Target(r) \in Locations /\ ask[r].values \in Values
  BY TargetType, AskType
<1>2. \A c \in DOMAIN ask[r].values : ask[r].values[c] \in Coordinates \cup {None}
  BY <1>1, ValueType
<1>3. NewRow(r) \in Row
  BY <1>2 DEF NewRow, Row
<1>4. ASSUME location[Target(r)] # None
      PROVE  Updated(r) \in Row
  <2>1. location[Target(r)] \in Row
    BY <1>1, <1>4 DEF LocationInv, TypeOK
  <2> QED
    BY <1>2, <2>1 DEF Updated, Row, Changed
<1> QED
  BY <1>3, <1>4

(* The initial state is well typed.                                        *)
LEMMA InitType == Init => TypeOK
BY StartAssumption DEF Init, TypeOK, Settings

(* The end of a request keeps the types.                                   *)
LEMMA EndingType ==
  ASSUME TypeOK, NEW r \in Requests, Ending(r),
         location' \in [Locations -> Row \cup {None}], committed' \subseteq Requests,
         answer' \in [Requests -> Codes \cup {None}]
  PROVE  TypeOK'
BY DEF TypeOK, Ending, Goto, EndTransaction, Settings

(* Every step keeps the types.                                             *)
LEMMA NextType ==
  ASSUME LocationInv, [Next]_vars
  PROVE  TypeOK'
<1>0. TypeOK
  BY DEF LocationInv
<1>1. ASSUME NEW r \in Requests, Arrive(r) \/ Refuse(r)
      PROVE  TypeOK'
  BY <1>0, <1>1 DEF TypeOK, Arrive, Refuse, Goto, Steps, Codes, Refusals
<1>2. ASSUME NEW r \in Requests, Bind(r)
      PROVE  TypeOK'
  <2>1. ask[r] \in Asks /\ Scoped(ask[r])
    BY <1>2 DEF LocationInv, Admitted, Bind, Steps
  <2>2. ask[r].ctx \in Settings
    BY <1>2, <2>1, AskType, ContextBinds DEF Bind
  <2>3. FirstStatement(ask[r].kind) \in Steps
    BY DEF FirstStatement, Steps
  <2> QED
    BY <1>0, <1>2, <2>2, <2>3 DEF TypeOK, Bind, Goto
<1>3. ASSUME NEW r \in Requests, Ping(r)
      PROVE  TypeOK'
  BY <1>0, <1>3 DEF TypeOK, Ping, Goto, Steps
<1>4. ASSUME NEW r \in Requests, Count(r) \/ Page(r) \/ Load(r)
      PROVE  TypeOK'
  <2>1. total'[r] \in Nat /\ seen'[r] \subseteq Locations /\ loaded'[r] \in Row \cup {None}
    BY <1>0, <1>4, SeesRows DEF TypeOK, Count, Page, Load, Pages, WithSlug
  <2> QED
    BY <1>0, <1>4, <2>1 DEF TypeOK, Count, Page, Load, Goto, Steps
<1>5. ASSUME NEW r \in Requests, Insert(r) \/ Update(r)
      PROVE  TypeOK'
  <2>1. pc[r] \in Steps \ {"checkout", "ping"}
    BY <1>5 DEF Insert, Update, Inserting, Updating, Steps
  <2>2. PICK row \in Row : Writes(r, row)
    <3>1. CASE Insert(r)
      BY <2>1, <3>1, RowType DEF Insert
    <3>2. CASE Update(r)
      <4>1. location[Target(r)] # None
        BY <3>2 DEF Update, Updating, LocationInv, Wrote
      <4> QED
        BY <2>1, <3>2, <4>1, RowType DEF Update
    <3> QED
      BY <1>5, <3>1, <3>2
  <2>3. [at |-> Target(r), row |-> row] \in Write
    BY <2>1, <2>2, TargetType DEF Write
  <2> QED
    BY <1>0, <2>2, <2>3 DEF TypeOK, Writes, Goto, Steps
<1>6. ASSUME NEW r \in Requests, WaitForRow(r) \/ UpdateNothing(r) \/ Respond(r)
      PROVE  TypeOK'
  BY <1>0, <1>6 DEF TypeOK, WaitForRow, UpdateNothing, Respond, Goto, Steps, Codes
<1>7. ASSUME NEW r \in Requests, \/ PingReturns(r) \/ TimeOut(r) \/ LoadFails(r)
                                 \/ InsertFails(r) \/ UpdateFails(r) \/ Crash(r)
      PROVE  TypeOK'
  <2>1. Ending(r) /\ UNCHANGED <<location, committed>>
    BY <1>0, <1>7, EndingShape
  <2>2. answer' \in [Requests -> Codes \cup {None}]
    BY <1>0, <1>7 DEF TypeOK, PingReturns, TimeOut, LoadFails, InsertFails, UpdateFails,
                      Crash, Rollback, Says, Codes, Refusals
  <2> QED
    BY <1>0, <2>1, <2>2, EndingType DEF TypeOK
<1>8. ASSUME NEW r \in Requests, Commit(r)
      PROVE  TypeOK'
  <2>1. location' \in [Locations -> Row \cup {None}] /\ committed' \subseteq Requests
    BY <1>0, <1>8 DEF TypeOK, Commit, Write
  <2>2. answer' \in [Requests -> Codes \cup {None}]
    BY <1>0, <1>8 DEF TypeOK, Commit, Says, Codes
  <2> QED
    BY <1>0, <1>8, <2>1, <2>2, EndingType, CommitShape
<1>9. CASE ChangeMembership
  BY <1>0, <1>9, StartAssumption DEF TypeOK, ChangeMembership, request, Memberships
<1>10. CASE UNCHANGED vars
  BY <1>0, <1>10 DEF TypeOK, vars, request
<1> QED
  BY <1>1, <1>2, <1>3, <1>4, <1>5, <1>6, <1>7, <1>8, <1>9, <1>10 DEF Next, Progress

(***************************************************************************)
(* Who holds which connection, bound to whom.                              *)
(***************************************************************************)

(* What a request is held to, apart from the types.                        *)
Isolated == /\ OneHolder /\ IdleUnbound
            /\ \A r \in Requests : Admitted(r) /\ Bound(r) /\ Wrote(r)

(* A request that passes the gate holds nothing yet; a refused one never   *)
(* will.                                                                   *)
LEMMA ArrivalKeeps ==
  ASSUME LocationInv, NEW r \in Requests, Arrive(r) \/ Refuse(r)
  PROVE  Isolated'
<1>1. TypeOK /\ OneHolder /\ IdleUnbound
  BY DEF LocationInv
<1>2. /\ pc[r] = "idle" /\ pc' = [pc EXCEPT ![r] = pc'[r]]
      /\ pc'[r] \in {"checkout", "done"}
      /\ ask' = [ask EXCEPT ![r] = ask'[r]]
      /\ pc'[r] = "checkout" => ask'[r] \in Asks /\ Scoped(ask'[r]) /\ ~Gated(ask'[r])
      /\ UNCHANGED <<location, settings, conn, loaded, write, committed>>
  BY <1>1 DEF Arrive, Refuse, Goto, TypeOK
<1>3. ASSUME NEW o \in Requests
      PROVE  Admitted(o)' /\ Bound(o)' /\ Wrote(o)'
  <2>1. Admitted(o) /\ Bound(o) /\ Wrote(o) /\ Bound(r) /\ Wrote(r)
    BY DEF LocationInv
  <2>2. CASE o = r
    BY <1>1, <1>2, <2>1, <2>2 DEF TypeOK, Admitted, Bound, Wrote, Steps
  <2>3. CASE o # r
    BY <1>1, <1>2, <2>1, <2>3 DEF TypeOK, Admitted, Bound, Wrote, Target
  <2> QED
    BY <2>2, <2>3
<1> QED
  BY <1>1, <1>2, <1>3 DEF Isolated, OneHolder, IdleUnbound, Idle

(* The connection a request takes was idle, so it was unbound; binding it  *)
(* leaves its own tenant there and touches no other.                       *)
LEMMA CheckoutKeeps ==
  ASSUME LocationInv, NEW r \in Requests, Bind(r) \/ Ping(r)
  PROVE  Isolated'
<1>1. TypeOK /\ OneHolder /\ IdleUnbound
  BY DEF LocationInv
<1>2. PICK c \in Connections : Idle(c) /\ conn' = [conn EXCEPT ![r] = c]
                               /\ \/ Bind(r) /\ settings' = [settings EXCEPT ![c] = ask[r].ctx]
                                  \/ Ping(r) /\ settings' = settings
  BY DEF Bind, Ping
<1>3. settings[c] = Unbound /\ c # None
  BY <1>1, <1>2, OutsideAssumption DEF IdleUnbound
<1>4. /\ pc[r] = "checkout" /\ pc' = [pc EXCEPT ![r] = pc'[r]]
      /\ Ping(r) => pc'[r] = "ping"
      /\ Bind(r) => pc'[r] \in {"count", "insert", "load"} /\ ask[r].kind # "ready"
      /\ UNCHANGED <<location, ask, loaded, write, committed>>
  BY <1>1 DEF Bind, Ping, Goto, TypeOK, FirstStatement
<1>5. ASSUME NEW o \in Requests
      PROVE  Admitted(o)' /\ Bound(o)' /\ Wrote(o)'
  <2>1. Admitted(o) /\ Bound(o) /\ Wrote(o)
    BY DEF LocationInv
  <2>2. CASE o = r
    BY <1>1, <1>2, <1>3, <1>4, <2>1, <2>2 DEF TypeOK, Admitted, Bound, Wrote, Steps
  <2>3. CASE o # r
    <3>1. conn[o] # c
      BY <1>2 DEF Idle
    <3> QED
      BY <1>1, <1>2, <1>4, <2>1, <2>3, <3>1 DEF TypeOK, Admitted, Bound, Wrote, Target
  <2> QED
    BY <2>2, <2>3
<1>6. OneHolder'
  BY <1>1, <1>2 DEF OneHolder, TypeOK, Idle
<1>7. IdleUnbound'
  <2>1. ASSUME NEW d \in Connections, Idle(d)'
        PROVE  d # c /\ Idle(d)
    <3>1. conn'[r] = c /\ \A o \in Requests : conn'[o] # d
      BY <1>1, <1>2, <2>1 DEF Idle, TypeOK
    <3> QED
      BY <1>1, <1>2, <1>4, <3>1, OutsideAssumption DEF Idle, TypeOK, LocationInv, Bound
  <2> QED
    BY <1>1, <1>2, <2>1 DEF IdleUnbound, TypeOK
<1> QED
  BY <1>5, <1>6, <1>7 DEF Isolated

(* A row a request loads under its own tenant is the row its patch names.  *)
LEMMA LoadsTarget ==
  ASSUME LocationInv, NEW r \in Requests, Load(r)
  PROVE  loaded'[r] = location[Target(r)] /\ location[Target(r)] # None
<1>1. PICK l \in WithSlug(r) : loaded' = [loaded EXCEPT ![r] = location[l]]
  BY DEF Load
<1>2. /\ l \in Locations /\ location[l] # None /\ SlugOf(l) = ask[r].slug
      /\ TenantOf(l) = settings[conn[r]].tenant
  BY SeesRows DEF WithSlug, Sees, SelectPolicy
<1>3. settings[conn[r]] = ask[r].ctx
  BY DEF LocationInv, Bound, Load, Steps
<1>4. l = Target(r)
  BY <1>2, <1>3 DEF Locations, TenantOf, SlugOf, Target
<1> QED
  BY <1>1, <1>2, <1>4 DEF LocationInv, TypeOK

(* A statement keeps its connection, and what it writes is its own row.    *)
LEMMA StatementKeeps ==
  ASSUME LocationInv, NEW r \in Requests,
         \/ Count(r) \/ Page(r) \/ Load(r) \/ WaitForRow(r)
         \/ Insert(r) \/ Update(r) \/ UpdateNothing(r) \/ Respond(r)
  PROVE  Isolated'
<1>1. TypeOK /\ OneHolder /\ IdleUnbound
  BY DEF LocationInv
<1>2. Statement(r)
  BY <1>1, StatementShape
<1>3. ASSUME NEW o \in Requests
      PROVE  Admitted(o)' /\ Bound(o)'
  <2>1. Admitted(o) /\ Bound(o)
    BY DEF LocationInv
  <2> QED
    BY <1>1, <1>2, <2>1 DEF Statement, Goto, TypeOK, Admitted, Bound, Steps
<1>4. Wrote(r)'
  <2>0. r \in committed' => pc'[r] = "done"
    BY <1>2 DEF Statement, LocationInv, Wrote, Steps
  <2>1. Wrote(r)
    BY DEF LocationInv
  <2>2. CASE Load(r)
    <3>1. location[Target(r)] # None /\ loaded'[r] # None
      BY <2>2, LoadsTarget
    <3>2. write[r] = None
      BY <2>1, <2>2 DEF Wrote, Load
    <3> QED
      BY <2>0, <2>2, <3>1, <3>2 DEF Wrote, Target, Load
  <2>3. CASE Insert(r) \/ Update(r)
    BY <1>1, <2>0, <2>1, <2>3 DEF TypeOK, Wrote, Target, Insert, Update, Inserting, Updating,
                            Writes, Goto
  <2>4. CASE WaitForRow(r)
    BY <1>1, <2>0, <2>1, <2>4 DEF TypeOK, Wrote, Target, WaitForRow, Inserting, Updating, Goto
  <2>5. CASE Count(r) \/ Page(r) \/ UpdateNothing(r) \/ Respond(r)
    BY <1>1, <2>0, <2>1, <2>5 DEF TypeOK, Wrote, Target, Count, Page, UpdateNothing, Respond, Goto
  <2> QED
    BY <2>2, <2>3, <2>4, <2>5
<1>5. ASSUME NEW o \in Requests, o # r
      PROVE  Wrote(o)'
  <2>1. Wrote(o)
    BY DEF LocationInv
  <2>2. pc'[o] = pc[o] /\ UNCHANGED <<location, ask, committed>>
    BY <1>1, <1>2, <1>5 DEF Statement, Goto, TypeOK
  <2>3. write'[o] = write[o] /\ loaded'[o] = loaded[o]
    BY <1>1, <1>5 DEF TypeOK, Count, Page, Load, WaitForRow, Insert, Update, UpdateNothing,
                      Respond, Writes
  <2> QED
    BY <2>1, <2>2, <2>3 DEF Wrote, Target
<1>6. OneHolder' /\ IdleUnbound'
  BY <1>1, <1>2 DEF Statement, OneHolder, IdleUnbound, Idle
<1> QED
  BY <1>3, <1>4, <1>5, <1>6 DEF Isolated

(* A request that ends leaves its connection unbound and others' alone.    *)
LEMMA EndingKeeps ==
  ASSUME LocationInv, NEW r \in Requests, Ending(r),
         committed' \subseteq committed \cup {r},
         \A l : location[l] # None => location'[l] # None
  PROVE  Isolated'
<1>1. TypeOK /\ OneHolder /\ IdleUnbound
  BY DEF LocationInv
<1>2. ASSUME NEW o \in Requests
      PROVE  Admitted(o)' /\ Bound(o)' /\ Wrote(o)'
  <2>1. Admitted(o) /\ Bound(o) /\ Wrote(o)
    BY DEF LocationInv
  <2>2. CASE o = r
    BY <1>1, <2>2 DEF TypeOK, Ending, Goto, EndTransaction, Admitted, Bound, Wrote, Steps
  <2>3. CASE o # r
    <3>1. /\ pc'[o] = pc[o] /\ conn'[o] = conn[o] /\ write'[o] = write[o]
          /\ o \in committed' => o \in committed
          /\ UNCHANGED <<ask, loaded>>
      BY <1>1, <2>3 DEF TypeOK, Ending, Goto, EndTransaction
    <3>2. conn[o] # None => settings'[conn[o]] = settings[conn[o]]
      BY <1>1, <2>3 DEF TypeOK, OneHolder, Ending, EndTransaction
    <3> QED
      BY <2>1, <3>1, <3>2 DEF Admitted, Bound, Wrote, Target, Steps
  <2> QED
    BY <2>2, <2>3
<1>3. OneHolder'
  BY <1>1 DEF TypeOK, OneHolder, Ending, EndTransaction
<1>4. ASSUME NEW c \in Connections, Idle(c)'
      PROVE  settings'[c] = Unbound
  <2>1. CASE conn[r] = c
    BY <1>1, <2>1, OutsideAssumption DEF TypeOK, Ending, EndTransaction
  <2>2. CASE conn[r] # c
    <3>1. Idle(c)
      BY <1>1, <1>4, <2>2 DEF TypeOK, Idle, Ending, EndTransaction
    <3>2. settings'[c] = settings[c]
      BY <1>1, <2>2 DEF TypeOK, Ending, EndTransaction
    <3> QED
      BY <1>1, <3>1, <3>2 DEF IdleUnbound
  <2> QED
    BY <2>1, <2>2
<1> QED
  BY <1>2, <1>3, <1>4 DEF Isolated, IdleUnbound

(* A commit writes a row where there was one or none, and removes none.    *)
LEMMA CommitKeepsRows ==
  ASSUME LocationInv, NEW r \in Requests, Commit(r), NEW l, location[l] # None
  PROVE  location'[l] # None
<1>1. TypeOK
  BY DEF LocationInv
<1>2. CASE write[r] = None
  BY <1>2 DEF Commit
<1>3. CASE write[r] # None
  <2>1. write[r].at \in Locations /\ write[r].row # None
    BY <1>1, <1>3, OutsideAssumption DEF TypeOK, Write
  <2>2. location' = [location EXCEPT ![write[r].at] = write[r].row]
    BY <1>3 DEF Commit
  <2>3. CASE l = write[r].at
    BY <1>1, <2>1, <2>2, <2>3 DEF TypeOK
  <2>4. CASE l # write[r].at
    BY <2>2, <2>4 DEF TypeOK
  <2> QED
    BY <2>3, <2>4
<1> QED
  BY <1>2, <1>3

(* Every step keeps the inductive invariant.                               *)
LEMMA NextKeeps ==
  ASSUME LocationInv, [Next]_vars
  PROVE  LocationInv'
<1>0. TypeOK'
  BY NextType
<1>1. Isolated'
  <2>0. TypeOK
    BY DEF LocationInv
  <2>1. ASSUME NEW r \in Requests,
               \/ PingReturns(r) \/ TimeOut(r) \/ LoadFails(r)
               \/ InsertFails(r) \/ UpdateFails(r) \/ Crash(r)
        PROVE  Isolated'
    <3>1. Ending(r) /\ UNCHANGED <<location, committed>>
      BY <2>0, <2>1, EndingShape
    <3> QED
      BY <3>1, EndingKeeps
  <2>2. ASSUME NEW r \in Requests, Commit(r)
        PROVE  Isolated'
    <3>1. Ending(r) /\ committed' \subseteq committed \cup {r}
      BY <2>0, <2>2, CommitShape DEF Commit
    <3>2. \A l : location[l] # None => location'[l] # None
      BY <2>2, CommitKeepsRows
    <3> QED
      BY <3>1, <3>2, EndingKeeps
  <2>3. CASE ChangeMembership \/ UNCHANGED vars
    BY <2>3 DEF ChangeMembership, vars, request, LocationInv, Isolated, OneHolder, IdleUnbound,
                Idle, Admitted, Bound, Wrote, Target
  <2> QED
    BY <2>1, <2>2, <2>3, ArrivalKeeps, CheckoutKeeps, StatementKeeps DEF Next, Progress
<1> QED
  BY <1>0, <1>1 DEF LocationInv, Isolated

(***************************************************************************)
(* The properties.                                                         *)
(***************************************************************************)

(* At the start nobody holds anything.                                     *)
LEMMA InitInv == Init => LocationInv
<1> SUFFICES ASSUME Init PROVE LocationInv
  OBVIOUS
<1>1. TypeOK
  BY InitType
<1>2. OneHolder /\ IdleUnbound
  BY DEF Init, OneHolder, IdleUnbound
<1>3. \A r \in Requests : Admitted(r) /\ Bound(r) /\ Wrote(r)
  BY DEF Init, Admitted, Bound, Wrote, Steps
<1> QED
  BY <1>1, <1>2, <1>3 DEF LocationInv

(* Connections are held by one request each, bound to its claims from its  *)
(* first statement to its last and unbound in between; whoever is past the *)
(* gate was let through; and a request writes only the row it names.       *)
THEOREM LocationInvariant == Spec => []LocationInv
<1>1. LocationInv /\ [Next]_vars => LocationInv'
  BY NextKeeps
<1> QED
  BY InitInv, <1>1, PTL DEF Spec

(* The variables keep their types.                                         *)
THEOREM LocationTypes == Spec => []TypeOK
<1>1. LocationInv => TypeOK
  BY DEF LocationInv
<1> QED
  BY LocationInvariant, <1>1, PTL

(* set_config(.., true) ends with the transaction: no request ever runs on *)
(* a connection that still carries another's tenant.                       *)
THEOREM NoTenantLeft == Spec => []NoTenantLeftBound
<1>1. LocationInv => NoTenantLeftBound
  <2> SUFFICES ASSUME LocationInv, NEW c \in Connections, settings[c] # Unbound
               PROVE  \E r \in Requests :
                        conn[r] = c /\ settings[c] = ask[r].ctx /\ pc[r] # "ping"
    BY DEF NoTenantLeftBound
  <2>1. PICK r \in Requests : conn[r] = c
    BY DEF LocationInv, IdleUnbound, Idle
  <2>2. c # None
    BY OutsideAssumption
  <2>3. Bound(r) /\ pc[r] \in Steps \cup {"idle", "done"}
    BY DEF LocationInv, TypeOK
  <2> QED
    BY <2>1, <2>2, <2>3 DEF Bound, Steps
<1> QED
  BY LocationInvariant, <1>1, PTL

(* Only Page and Load change what a request has seen, and both read what   *)
(* the policies leave of the table under the request's own claims.         *)
LEMMA SeenInScope ==
  ASSUME LocationInv, [Next]_vars, NEW r \in Requests, seen'[r] # seen[r]
  PROVE  seen'[r] \subseteq Sees(r) /\ settings[conn[r]] = ask[r].ctx
<1>0. seen \in [Requests -> SUBSET Locations]
  BY DEF LocationInv, TypeOK
<1>1. Page(r) \/ Load(r)
  <2>1. ASSUME NEW o \in Requests, Arrive(o) \/ Refuse(o) \/ Bind(o) \/ Ping(o)
        PROVE  FALSE
    BY <2>1 DEF Arrive, Refuse, Bind, Ping
  <2>2. ASSUME NEW o \in Requests,
               \/ PingReturns(o) \/ TimeOut(o) \/ LoadFails(o)
               \/ InsertFails(o) \/ UpdateFails(o) \/ Crash(o) \/ Commit(o)
        PROVE  FALSE
    BY <2>2, EndingShape, CommitShape DEF Ending, LocationInv
  <2>3. ASSUME NEW o \in Requests, \/ Count(o) \/ WaitForRow(o) \/ Insert(o) \/ Update(o)
                                   \/ UpdateNothing(o) \/ Respond(o)
        PROVE  FALSE
    BY <2>3 DEF Count, WaitForRow, Insert, Update, UpdateNothing, Respond, Writes
  <2>4. ASSUME NEW o \in Requests, o # r, Page(o) \/ Load(o)
        PROVE  FALSE
    BY <1>0, <2>4 DEF Page, Load
  <2>5. ~(ChangeMembership \/ UNCHANGED vars)
    BY DEF ChangeMembership, vars, request
  <2> QED
    BY <2>1, <2>2, <2>3, <2>4, <2>5 DEF Next, Progress
<1>2. settings[conn[r]] = ask[r].ctx
  BY <1>1 DEF LocationInv, Bound, Page, Load, Steps
<1>3. seen'[r] \subseteq Sees(r)
  BY <1>0, <1>1 DEF Page, Pages, Load, WithSlug
<1> QED
  BY <1>2, <1>3

(* A select returns rows of the asking token's tenant only, and to a       *)
(* client with an active list only locations on it.                        *)
THEOREM ReadsScope == Spec => ReadsOwnScope
<1> DEFINE InScope(r) ==
      seen'[r] # seen[r] =>
        LET me == ask[r].ctx
            m  == members[me.tenant][me.actor]
        IN  \A l \in seen'[r] :
              /\ TenantOf(l) = me.tenant
              /\ \/ IsOperator(me) \/ m = None \/ m.status # "active"
                 \/ m.locations = {} \/ l \in m.locations
<1>1. ASSUME LocationInv, [Next]_vars, NEW r \in Requests
      PROVE  InScope(r)
  <2> SUFFICES ASSUME seen'[r] # seen[r], NEW l \in seen'[r]
               PROVE  LET me == ask[r].ctx
                          m  == members[me.tenant][me.actor]
                      IN  /\ TenantOf(l) = me.tenant
                          /\ \/ IsOperator(me) \/ m = None \/ m.status # "active"
                             \/ m.locations = {} \/ l \in m.locations
    OBVIOUS
  <2>1. SelectPolicy(ask[r].ctx, members, l)
    BY <1>1, SeenInScope DEF Sees
  <2> QED
    BY <2>1 DEF SelectPolicy, CanReadLocation, Assigned
<1>2. LocationInv /\ [Next]_vars => [\A r \in Requests : InScope(r)]_vars
  BY <1>1
<1> QED
  BY LocationInvariant, <1>2, PTL DEF Spec, ReadsOwnScope

(* Only Commit changes the table, by the row the request named and wrote.  *)
LEMMA CommitsTarget ==
  ASSUME LocationInv, [Next]_vars, NEW l \in Locations, location'[l] # location[l]
  PROVE  \E r \in Requests : Commit(r) /\ write[r] # None /\ l = write[r].at
<1>0. TypeOK
  BY DEF LocationInv
<1>1. ASSUME NEW o \in Requests, Arrive(o) \/ Refuse(o) \/ Bind(o) \/ Ping(o)
      PROVE  FALSE
  BY <1>1 DEF Arrive, Refuse, Bind, Ping
<1>2. ASSUME NEW o \in Requests,
             \/ PingReturns(o) \/ TimeOut(o) \/ LoadFails(o)
             \/ InsertFails(o) \/ UpdateFails(o) \/ Crash(o)
      PROVE  FALSE
  BY <1>0, <1>2, EndingShape
<1>3. ASSUME NEW o \in Requests,
             \/ Count(o) \/ Page(o) \/ Load(o) \/ WaitForRow(o)
             \/ Insert(o) \/ Update(o) \/ UpdateNothing(o) \/ Respond(o)
      PROVE  FALSE
  BY <1>0, <1>3, StatementShape DEF Statement
<1>4. ~(ChangeMembership \/ UNCHANGED vars)
  BY DEF ChangeMembership, vars, request
<1>5. PICK r \in Requests : Commit(r)
  BY <1>1, <1>2, <1>3, <1>4 DEF Next, Progress
<1> QED
  BY <1>0, <1>5 DEF Commit, TypeOK

(* A location changes only by the commit of an operator's request of its   *)
(* own tenant, although the write policies do not look at the role.        *)
THEOREM OperatorsWrite == Spec => OperatorsWriteTheirOwn
<1> DEFINE ByOperator(l) ==
      location'[l] # location[l] =>
        \E r \in committed' \ committed :
          /\ ask[r].ctx.tenant = TenantOf(l)
          /\ IsOperator(ask[r].ctx)
<1>1. ASSUME LocationInv, [Next]_vars, NEW l \in Locations
      PROVE  ByOperator(l)
  <2> SUFFICES ASSUME location'[l] # location[l]
               PROVE  \E r \in committed' \ committed :
                        ask[r].ctx.tenant = TenantOf(l) /\ IsOperator(ask[r].ctx)
    OBVIOUS
  <2>1. PICK r \in Requests : Commit(r) /\ write[r] # None /\ l = write[r].at
    BY <1>1, CommitsTarget
  <2>2. Admitted(r) /\ Bound(r) /\ Wrote(r)
    BY <1>1 DEF LocationInv
  <2>3. pc[r] \in {"respond", "teardown"}
    BY <2>1, <2>2 DEF Wrote
  <2>4. /\ ask[r] \in Asks /\ ~Gated(ask[r])
        /\ ask[r].kind \in {"create", "patch"} /\ l = Target(r)
    BY <2>1, <2>2, <2>3 DEF Admitted, Wrote, Steps
  <2>5. IsOperator(ask[r].ctx)
    BY <2>4, AskType
  <2>6. TenantOf(l) = ask[r].ctx.tenant
    BY <1>1, <2>3, <2>4, TargetType DEF Steps
  <2>7. r \in committed' \ committed
    BY <2>1, <2>2, <2>3 DEF Wrote, Commit
  <2> QED
    BY <2>5, <2>6, <2>7
<1>2. LocationInv /\ [Next]_vars => [\A l \in Locations : ByOperator(l)]_vars
  BY <1>1
<1> QED
  BY LocationInvariant, <1>2, PTL DEF Spec, OperatorsWriteTheirOwn

=============================================================================
