------------------------------- MODULE Catalog -------------------------------
(***************************************************************************)
(* What PostgreSQL does with the DDL of the migrations and with the        *)
(* statements of the four database roles: a database is a record of its    *)
(* catalog (tables, grants, policies, triggers, foreign keys, functions)   *)
(* and its rows, DDL statements are records that Execute() applies in      *)
(* order, and a statement of a role is judged by the grants, policies,     *)
(* triggers and keys the catalog has by then.                              *)
(***************************************************************************)
EXTENDS Integers, Sequences

CONSTANTS Tenants, Actors, None

Commands == {"select", "insert", "update", "delete", "truncate"}
Migrator == "app_migrator"   \* a superuser: grants and policies do not bind it
AppRoles == {"app_api", "app_worker", "app_readonly"}

(* A row: its table, primary key, and its non-null references by column.   *)
(* For membership_location the key stands for the pair.                    *)
TenantId(row) == IF "tenant_id" \in DOMAIN row.refs THEN row.refs["tenant_id"] ELSE None

(* What tenant_context() has bound; nobody is bound outside of it.         *)
Settings ==
  [tenant : Tenants, actor : Actors, operator : BOOLEAN]
  \cup {[tenant |-> None, actor |-> None, operator |-> FALSE]}

Empty ==
  [ok |-> TRUE, tables |-> {}, secured |-> {}, grants |-> {}, defaults |-> {},
   policies |-> {}, triggers |-> {}, keys |-> {}, functions |-> {}, rows |-> {}]
CatalogOf(db) == [db EXCEPT !.rows = {}]

-----------------------------------------------------------------------------
(* Foreign keys.                                                           *)
Key(from, column, to) == [from |-> from, column |-> column, to |-> to, cascade |-> FALSE]
CascadeKey(from, column, to) == [Key(from, column, to) EXCEPT !.cascade = TRUE]

Uses(row, key) == row.table = key.from /\ key.column \in DOMAIN row.refs
RefersTo(row, key, target) ==
  Uses(row, key) /\ target.table = key.to /\ target.id = row.refs[key.column]
Resolves(row, key, rows) == Uses(row, key) => \E t \in rows : RefersTo(row, key, t)

-----------------------------------------------------------------------------
(* DDL.  A set-valued statement stands for one statement per element.      *)
CreateTable(table, keys) == [do |-> "create table", table |-> table, keys |-> keys]
DropTable(table)         == [do |-> "drop table", table |-> table]

(* Mutant of AddKey: not valid, so that the rows there are not checked.    *)
AddKeyNotValid(key)      == [do |-> "add key", key |-> key, valid |-> FALSE]
AddKey(key)              == [do |-> "add key", key |-> key, valid |-> TRUE]
DropKey(key)             == [do |-> "drop key", key |-> key]
Secure(tables)           == [do |-> "secure", tables |-> tables]
Unsecure(tables)         == [do |-> "unsecure", tables |-> tables]
CreatePolicies(policies) == [do |-> "create policies", policies |-> policies]
DropPolicies(tables)     == [do |-> "drop policies", tables |-> tables]
CreateTriggers(triggers) == [do |-> "create triggers", triggers |-> triggers]
DropTriggers(triggers)   == [do |-> "drop triggers", triggers |-> triggers]
Grant(roles, tables, cmds)  ==
  [do |-> "grant", tables |-> tables, grants |-> roles \X tables \X cmds]
Revoke(roles, tables, cmds) == [do |-> "revoke", grants |-> roles \X tables \X cmds]
GrantSelectOnAll(roles)     == [do |-> "grant on all", roles |-> roles]
DefaultGrant(roles, cmds)   == [do |-> "default", defaults |-> roles \X cmds]
CreateFunctions(functions)  == [do |-> "create functions", functions |-> functions]
DropFunctions(names)        == [do |-> "drop functions", names |-> names]

(* Without IF EXISTS a statement fails on what is there already, or is     *)
(* not; a key needs its tables, and checks every row when it is added.     *)
Possible(db, s) ==
  CASE s.do = "create table" ->
         s.table \notin db.tables /\ \A k \in s.keys : k.to \in db.tables \cup {s.table}
    [] s.do = "drop table" ->
         s.table \in db.tables /\ \A k \in db.keys : k.to = s.table => k.from = s.table
    [] s.do = "add key" ->
         /\ s.key \notin db.keys /\ {s.key.from, s.key.to} \subseteq db.tables
         /\ s.valid => \A row \in db.rows : Resolves(row, s.key, db.rows)
    [] s.do = "drop key" -> s.key \in db.keys
    [] s.do \in {"secure", "unsecure", "grant"} -> s.tables \subseteq db.tables
    [] s.do = "create policies" ->
         /\ s.policies \cap db.policies = {}
         /\ \A p \in s.policies : p.table \in db.tables
    [] s.do = "create triggers" ->
         /\ s.triggers \cap db.triggers = {}
         /\ \A t \in s.triggers : t[1] \in db.tables
    [] OTHER -> TRUE

(* A new table gets the default privileges; with a table go its rows and   *)
(* all that hangs on it.                                                   *)
Effect(db, s) ==
  CASE s.do = "create table" ->
         [db EXCEPT !.tables = @ \cup {s.table}, !.keys = @ \cup s.keys,
                    !.grants = @ \cup {<<d[1], s.table, d[2]>> : d \in db.defaults}]
    [] s.do = "drop table" ->
         [db EXCEPT !.tables   = @ \ {s.table},
                    !.secured  = @ \ {s.table},
                    !.keys     = {k \in @ : k.from # s.table},
                    !.grants   = {g \in @ : g[2] # s.table},
                    !.policies = {p \in @ : p.table # s.table},
                    !.triggers = {t \in @ : t[1] # s.table},
                    !.rows     = {r \in @ : r.table # s.table}]
    [] s.do = "add key"  -> [db EXCEPT !.keys = @ \cup {s.key}]
    [] s.do = "drop key" -> [db EXCEPT !.keys = @ \ {s.key}]
    [] s.do = "secure"   -> [db EXCEPT !.secured = @ \cup s.tables]
    [] s.do = "unsecure" -> [db EXCEPT !.secured = @ \ s.tables]
    [] s.do = "create policies" -> [db EXCEPT !.policies = @ \cup s.policies]
    [] s.do = "drop policies" ->
         [db EXCEPT !.policies = {p \in @ : p.table \notin s.tables}]
    [] s.do = "create triggers" -> [db EXCEPT !.triggers = @ \cup s.triggers]
    [] s.do = "drop triggers"   -> [db EXCEPT !.triggers = @ \ s.triggers]
    [] s.do = "grant"  -> [db EXCEPT !.grants = @ \cup s.grants]
    [] s.do = "revoke" -> [db EXCEPT !.grants = @ \ s.grants]
    [] s.do = "grant on all" ->
         [db EXCEPT !.grants = @ \cup (s.roles \X db.tables \X {"select"})]
    [] s.do = "default" -> [db EXCEPT !.defaults = @ \cup s.defaults]
    [] s.do = "create functions" -> [db EXCEPT !.functions = @ \cup s.functions]
    [] s.do = "drop functions" ->
         [db EXCEPT !.functions = {f \in @ : f[1] \notin s.names}]

Execute(db, s) ==
  IF db.ok /\ Possible(db, s) THEN Effect(db, s) ELSE [db EXCEPT !.ok = FALSE]

(* A script runs statement by statement; a failure ends it.                *)
ExecuteAll(db, script) ==
  LET after[n \in 0 .. Len(script)] ==
        IF n = 0 THEN db ELSE Execute(after[n - 1], script[n])
  IN  after[Len(script)]

-----------------------------------------------------------------------------
(* The locations an actor's membership in the bound tenant lists.  The     *)
(* status of a membership is left out: all of them are active.             *)
Listed(db, s) ==
  {ml.refs["location_id"] : ml \in {x \in db.rows :
     /\ x.table = "membership_location"
     /\ \E m \in db.rows : /\ m.table = "membership" /\ m.id = x.refs["membership_id"]
                           /\ TenantId(m) = s.tenant /\ m.refs["user_id"] = s.actor}}

(* The conditions the policies use; an unbound setting is null.            *)
Holds(db, rule, s, row) ==
  CASE rule = "its tenant" -> row.id = s.tenant
    [] rule = "self" -> row.id = s.actor
    [] rule = "tenant" -> s.tenant # None /\ TenantId(row) = s.tenant
    [] rule = "membership" ->
         \E m \in db.rows : /\ m.table = "membership" /\ m.id = row.refs["membership_id"]
                            /\ s.tenant # None /\ TenantId(m) = s.tenant
    [] rule = "location scope" ->
         /\ s.tenant # None /\ TenantId(row) = s.tenant
         /\ s.operator \/ Listed(db, s) = {} \/ row.id \in Listed(db, s)

(* A table with row security admits what some policy admits.               *)
Permits(db, role, s, cmd, row) ==
  \/ role = Migrator
  \/ /\ <<role, row.table, cmd>> \in db.grants
     /\ row.table \in db.secured =>
          \E p \in db.policies : /\ p.table = row.table /\ p.cmd = cmd
                                 /\ role \in p.roles /\ Holds(db, p.rule, s, row)

SeenBy(db, role, s) == {row \in db.rows : Permits(db, role, s, "select", row)}

(* tg_enforce_tenant() on an insert, where old is None, or an update.      *)
EnforcesTenant(db, role, s, old, new) ==
  <<new.table, "enforce tenant">> \in db.triggers =>
    \/ role = Migrator
    \/ /\ s.tenant # None
       /\ IF old = None THEN TenantId(new) = s.tenant ELSE TenantId(new) = TenantId(old)

(* audit.tg_forbid_mutation() spares nobody.                               *)
Mutable(db, row) == <<row.table, "immutable">> \notin db.triggers

(* Keys are checked by the owner of the table, for whom there are no       *)
(* policies: a reference may name a row its writer cannot see.             *)
KeysResolve(db, row) ==
  row.table \in db.tables /\ \A k \in db.keys : Resolves(row, k, db.rows)
KeyFree(db, row) == \A r \in db.rows : r.table = row.table => r.id # row.id

MayInsert(db, role, s, row) ==
  /\ KeysResolve(db, row) /\ KeyFree(db, row)
  /\ Permits(db, role, s, "insert", row) /\ EnforcesTenant(db, role, s, None, row)

(* An update or delete names its row, so the select policy holds of the    *)
(* row as well, for an update before and after.                            *)
MayUpdate(db, role, s, old, new) ==
  LET after == [db EXCEPT !.rows = (@ \ {old}) \cup {new}]
  IN  /\ old # new /\ old.table = new.table /\ old.id = new.id
      /\ \A cmd \in {"select", "update"} :
           Permits(db, role, s, cmd, old) /\ Permits(after, role, s, cmd, new)
      /\ EnforcesTenant(db, role, s, old, new) /\ Mutable(db, old)
      /\ KeysResolve(db, new)

(* No cascade reaches a table that is itself referenced by a cascade.      *)
TakenAlong(db, row) ==
  {r \in db.rows : \E k \in db.keys : k.cascade /\ RefersTo(r, k, row)}
MayDelete(db, role, s, row) ==
  /\ \A cmd \in {"select", "delete"} : Permits(db, role, s, cmd, row)
  /\ Mutable(db, row)
  /\ \A r \in db.rows, k \in db.keys : RefersTo(r, k, row) => k.cascade

(* TRUNCATE ... CASCADE empties a table and every table that refers to it, *)
(* directly or not; keys make no circle.  It asks for its own privilege on *)
(* each of them, and neither policies nor the triggers of rows see it.     *)
EmptiedWith(db, table) ==
  LET refers[t \in db.tables] == t = table \/ \E k \in db.keys : k.from = t /\ refers[k.to]
  IN  {t \in db.tables : refers[t]}
MayTruncate(db, role, table) ==
  role = Migrator \/ \A t \in EmptiedWith(db, table) : <<role, t, "truncate">> \in db.grants

=============================================================================
