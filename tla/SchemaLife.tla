----------------------------- MODULE SchemaLife -----------------------------
(***************************************************************************)
(* The life of one database: alembic commands take its schema forth and    *)
(* back (migrations/env.py), several of them at a time where several       *)
(* containers start, while the four roles write rows.                      *)
(*                                                                         *)
(* A command reads the version in the table alembic_version, then runs all *)
(* its steps in one transaction.  Their locks keep every other writer of   *)
(* the changed tables waiting, so that transaction is one action.          *)
(***************************************************************************)
EXTENDS Migrations

CONSTANTS Migrators,    \* alembic processes; each runs one command at a time
          Downgrades,   \* revisions a downgrade may go to
          MaxCommands,  \* how many commands are started
          SeedRows,     \* rows of the seed file and of provisioning
          Pool          \* rows the roles write; updates choose among them

ASSUME RowAssumption ==
  \A row \in SeedRows \cup Pool :
    /\ row.table \in Fresh[LastRevision].tables
    /\ DOMAIN row.refs \subseteq
         {k.column : k \in {x \in Fresh[LastRevision].keys : x.from = row.table}}
ASSUME SeedAssumption ==
  /\ \A a, b \in SeedRows : a.table = b.table /\ a.id = b.id => a = b
  /\ \A row \in SeedRows \cup Pool : row.id # None
ASSUME CommandAssumption == Downgrades \subseteq 0 .. LastRevision /\ MaxCommands \in Nat

VARIABLES
  db,       \* catalog and rows
  version,  \* table alembic_version
  command,  \* the command a process runs: what it read and where it goes
  outcome,  \* how its last command ended
  started   \* commands started

vars == <<db, version, command, outcome, started>>

Versions == 0 .. LastRevision

Init ==
  /\ db = Empty
  /\ version = 0
  /\ command = [m \in Migrators |-> None]
  /\ outcome = [m \in Migrators |-> "none"]
  /\ started = 0

-----------------------------------------------------------------------------
(* alembic upgrade head, or downgrade to an earlier revision.              *)
Read(m) ==
  /\ command[m] = None /\ started < MaxCommands
  /\ \E goal \in {LastRevision} \cup {d \in Downgrades : d < version} :
       command' = [command EXCEPT ![m] = [base |-> version, goal |-> goal]]
  /\ started' = started + 1
  /\ UNCHANGED <<db, version, outcome>>

Migrated(m) == ExecuteSteps(db, Steps(command[m].base, command[m].goal))

Ends(m, how) ==
  /\ command' = [command EXCEPT ![m] = None]
  /\ outcome' = [outcome EXCEPT ![m] = how]
  /\ UNCHANGED started

(* Every step updates the version it read to its own; when another command *)
(* was faster its objects are in the way, or that update finds no row.     *)
Migrate(m) ==
  /\ command[m] # None
  /\ \/ command[m].goal = command[m].base /\ UNCHANGED <<db, version>>
     \/ /\ version = command[m].base /\ Migrated(m).ok
        /\ db' = Migrated(m)
        /\ version' = command[m].goal
  /\ Ends(m, "done")

(* Mutant of MigrateFails: the steps before the failing one are kept.      *)
MigrateHalfway(m) ==
  /\ command[m] # None /\ command[m].goal # command[m].base
  /\ version # command[m].base \/ ~Migrated(m).ok
  /\ db' = Migrated(m)
  /\ UNCHANGED version
  /\ Ends(m, "failed")

(* The transaction is rolled back as a whole.                              *)
MigrateFails(m) ==
  /\ command[m] # None /\ command[m].goal # command[m].base
  /\ version # command[m].base \/ ~Migrated(m).ok
  /\ UNCHANGED <<db, version>>
  /\ Ends(m, "failed")

-----------------------------------------------------------------------------
Stores(rows) == db' = [db EXCEPT !.rows = rows] /\ UNCHANGED <<version, command, outcome, started>>

(* sql/seed/local.sql: on conflict do nothing; references are checked as   *)
(* in any other insert.                                                    *)
Seed ==
  LET after == db.rows \cup {r \in SeedRows : KeyFree(db, r)}
  IN  /\ ~(SeedRows \subseteq db.rows)
      /\ {r.table : r \in SeedRows} \subseteq db.tables
      /\ \A r \in after \ db.rows, k \in db.keys : Resolves(r, k, after)
      /\ Stores(after)

(* One statement of a role in a transaction of its own.                    *)
Insert(role, s, row)  == MayInsert(db, role, s, row) /\ Stores(db.rows \cup {row})
Update(role, s, old, new) ==
  MayUpdate(db, role, s, old, new) /\ Stores((db.rows \ {old}) \cup {new})
Delete(role, s, row) ==
  MayDelete(db, role, s, row) /\ Stores(db.rows \ ({row} \cup TakenAlong(db, row)))

(* audit.write_card() runs as its owner, with the tenant that is bound.    *)
WriteCard(role, s, row) ==
  /\ <<"audit.write_card", role>> \in db.functions
  /\ row.table = "audit_card" /\ s.tenant # None /\ TenantId(row) = s.tenant
  /\ MayInsert(db, Migrator, s, row)
  /\ Stores(db.rows \cup {row})

(* No setting matters to it.  That of several tables is one for each.      *)
Truncate(role, table) ==
  /\ MayTruncate(db, role, table)
  /\ LET emptied == EmptiedWith(db, table)
     IN  Stores({row \in db.rows : row.table \notin emptied})

Statement(role, s) ==
  \/ \E row \in Pool : Insert(role, s, row) \/ WriteCard(role, s, row)
  \/ \E old \in db.rows : Delete(role, s, old) \/ \E new \in Pool : Update(role, s, old, new)

Next ==
  \/ \E m \in Migrators : Read(m) \/ Migrate(m) \/ MigrateFails(m)
  \/ Seed
  \/ \E role \in AppRoles \cup {Migrator}, s \in Settings : Statement(role, s)
  \/ \E role \in AppRoles \cup {Migrator}, table \in db.tables : Truncate(role, table)

Spec == Init /\ [][Next]_vars

-----------------------------------------------------------------------------
(* What holds of a database after every statement of a migration that has  *)
(* succeeded so far.                                                       *)
Fields == {"ok", "tables", "secured", "grants", "defaults", "policies", "triggers",
           "keys", "functions", "rows"}
Shape(d) == d = [f \in Fields |-> d[f]]
Others(d, e, changed) == \A f \in Fields \ changed : e[f] = d[f]

(* Nothing hangs on a table that is not there.                             *)
Hangs(d) ==
  /\ d.secured \subseteq d.tables
  /\ \A g \in d.grants : g[2] \in d.tables
  /\ \A p \in d.policies : p.table \in d.tables
  /\ \A t \in d.triggers : t[1] \in d.tables
  /\ \A k \in d.keys : k.from \in d.tables /\ k.to \in d.tables

(* Rows go along from these tables only, and nothing refers to them.       *)
Cascaded == {"membership_location", "location_alias"}
KeyOk(k) == k.to \notin Cascaded /\ (k.cascade => k.from \in Cascaded)

(* A policy names the tenant; a tenant and a profile are only read.        *)
PolicyOk(p) ==
  CASE p.table = "tenant"       -> p.cmd = "select" /\ p.rule = "its tenant"
    [] p.table = "user_profile" -> p.cmd = "select" /\ p.rule = "self"
    [] p.table = "membership_location" -> p.rule = "membership"
    [] OTHER -> p.rule \in {"tenant", "location scope"}

Defaults2 == (Api \X Crud) \cup ((Worker \cup Readonly) \X {"select"})

Sane(d) ==
  /\ Shape(d)
  /\ d.ok =>
       /\ d.rows \subseteq SeedRows \cup Pool
       /\ \A r \in d.rows : r.table \in d.tables
       /\ \A a, b \in d.rows : a.table = b.table /\ a.id = b.id => a = b
       /\ \A k \in d.keys, row \in d.rows : Resolves(row, k, d.rows)
       /\ Hangs(d)
       /\ \A k \in d.keys : KeyOk(k)
       /\ \A p \in d.policies : PolicyOk(p)
       /\ d.defaults \subseteq Defaults2
       /\ d.functions \subseteq Functions4

(* What a history of commands leaves at a version.  Before 0002 grants and *)
(* default privileges may be left over from a later revision, but no other *)
(* than 0002 itself gives.                                                 *)
Narrow(d) == d.grants \subseteq {<<x[1], t, x[2]>> : x \in Defaults2, t \in d.tables}

Like(v, d) ==
  /\ Fresh[v].ok
  /\ Others(d, Fresh[v], {"ok", "rows", "grants", "defaults"})
  /\ v >= 2 => Others(d, Fresh[v], {"ok", "rows"})
  /\ v < 2 => Narrow(d)

TypeOK ==
  /\ Shape(db) /\ db.ok
  /\ version \in Versions
  /\ command \in [Migrators -> [base : Versions, goal : Versions] \cup {None}]
  /\ outcome \in [Migrators -> {"none", "done", "failed"}]
  /\ started \in 0 .. MaxCommands

SchemaInv == TypeOK /\ Sane(db) /\ Like(version, db)

-----------------------------------------------------------------------------
(* From revision 0002 on the catalog depends on the revision alone: no     *)
(* grant, policy, trigger or key of a longer history is left or lost.      *)
OneCatalogPerRevision ==
  version >= 2 => CatalogOf(db) = CatalogOf(Fresh[version])

(* From revision 0002 on, whatever is bound or not, a role of the          *)
(* application sees rows of the bound tenant only, and its own profile.    *)
TenantOf(row) ==
  CASE row.table = "tenant" -> row.id
    [] row.table = "membership_location" ->
         TenantId(CHOOSE m \in db.rows :
                    m.table = "membership" /\ m.id = row.refs["membership_id"])
    [] OTHER -> TenantId(row)

SeesOwnTenant ==
  version >= 2 =>
    \A role \in AppRoles, s \in Settings : \A row \in SeenBy(db, role, s) :
      IF row.table = "user_profile" THEN row.id = s.actor
      ELSE s.tenant # None /\ TenantOf(row) = s.tenant

(* "app_worker has a narrower surface and cannot read identity tables; and *)
(* app_readonly is read-only": by the grants, whatever the default         *)
(* privileges have given to the tables of later migrations.  None of the   *)
(* three may truncate, which no policy or trigger would stop.              *)
RolesKeepTheirSurface ==
  version >= 2 => \A g \in db.grants :
    /\ g[1] = "app_worker" =>
         /\ g[2] \notin Identity \cup {"cost_budget", "approval"}
         /\ g[3] = "select" \/ g \in Worker \X {"audit_card", "cost_ledger"} \X {"insert"}
    /\ g[1] = "app_readonly" => g[3] = "select"
    /\ g[3] # "truncate"

(* Every reference that a key of the schema covers names a row, after any  *)
(* command, cascade and order of writes.                                   *)
ReferencesResolve ==
  \A k \in db.keys, row \in db.rows : Resolves(row, k, db.rows)

(* Nobody, the superuser included, changes a card or takes some of the     *)
(* cards away.  They go all at once: with the downgrade that drops their   *)
(* table, or when the superuser truncates it or a table it refers to.      *)
CardsAreAppendOnly ==
  [][\A card \in db.rows :
       card.table = "audit_card" /\ "audit_card" \in db'.tables =>
         card \in db'.rows \/ \E table \in db.tables : Truncate(Migrator, table)]_vars

(* From revision 0002 on a role of the application may write rows of the   *)
(* bound tenant only, and no update moves a row to another tenant: the     *)
(* policies and the triggers say so together, in every catalog a history   *)
(* of commands can leave.                                                  *)
WritesStayInTenant ==
  version >= 2 =>
    \A role \in AppRoles, s \in Settings :
      /\ \A new \in Pool : MayInsert(db, role, s, new) => TenantOf(new) = s.tenant
      /\ \A old \in db.rows :
           /\ MayDelete(db, role, s, old) => TenantOf(old) = s.tenant
           /\ \A new \in Pool :
                MayUpdate(db, role, s, old, new) =>
                  TenantOf(old) = s.tenant /\ TenantOf(new) = s.tenant

(* Rows that refer to a row of a table the revision has not got.           *)
Orphans(v) ==
  {row \in db.rows : \E k \in Fresh[v].keys : ~Resolves(row, k, db.rows)}

Fails(m) == command[m] # None /\ command'[m] = None /\ outcome'[m] = "failed"

(* A command fails only when another one was faster, or when it is an      *)
(* upgrade and rows refer to rows that an earlier downgrade dropped, or    *)
(* that were never there.  A downgrade has no such excuse.                 *)
FailuresAreExplained ==
  [][\A m \in Migrators : Fails(m) =>
       \/ version # command[m].base
       \/ command[m].goal > command[m].base /\ Orphans(command[m].goal) # {}]_vars

(* "migration upgrade/downgrade/upgrade" (README.md): a command that no    *)
(* other command overtakes succeeds.  Over a card whose approval went with *)
(* a downgrade it does not: no update or delete repairs the card, and only *)
(* a truncate of all cards lets the upgrade pass.                          *)
CommandsSucceed ==
  [][\A m \in Migrators : Fails(m) => version # command[m].base]_vars

=============================================================================
