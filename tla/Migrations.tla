----------------------------- MODULE Migrations -----------------------------
(***************************************************************************)
(* Migrations 0001 to 0005 as scripts of DDL, forth and back.  Columns     *)
(* without a reference, indexes, checks and enum types are left out; names *)
(* of policies and triggers are what they do.                              *)
(***************************************************************************)
EXTENDS Catalog

Crud == {"select", "insert", "update", "delete"}
Api == {"app_api"}
Worker == {"app_worker"}
Readonly == {"app_readonly"}

(* The policies of a table with the one rule most tables have.             *)
Policy(table, cmd, roles, rule) ==
  [table |-> table, cmd |-> cmd, roles |-> roles, rule |-> rule]
Policies(table, rule, readers, writers, deleters) ==
  {Policy(table, "select", readers, rule)}
  \cup {Policy(table, cmd, writers, rule) : cmd \in {"insert", "update"}}
  \cup {Policy(table, "delete", deleters, rule)}
EnforceTenant(tables) == tables \X {"enforce tenant"}
UpdatedAt(tables)     == tables \X {"updated at"}
TenantKey(table)      == Key(table, "tenant_id", "tenant")

-----------------------------------------------------------------------------
(* 0001: the tenant spine.                                                 *)
Spine == {"tenant", "user_profile", "membership", "membership_location", "tenant_credential"}
Identity == Spine \ {"tenant"}

Up1 ==
  << CreateTable("tenant", {}),
     CreateTable("user_profile", {}),
     CreateTable("membership",
       {TenantKey("membership"), Key("membership", "user_id", "user_profile"),
        Key("membership", "invited_by", "user_profile")}),
     CreateTable("membership_location",
       {CascadeKey("membership_location", "membership_id", "membership")}),
     CreateTable("tenant_credential", {TenantKey("tenant_credential")}) >>

Down1 ==
  << DropTable("tenant_credential"), DropTable("membership_location"),
     DropTable("membership"), DropTable("user_profile"), DropTable("tenant") >>

(* 0002: roles, functions and the policies of the spine.                   *)
(* Mutant of Grants2: the spine too is left to the default privileges.     *)
GrantsByDefault2 ==
  << GrantSelectOnAll(Worker \cup Readonly),
     Revoke(Worker, Identity, Commands),
     DefaultGrant(Api, Crud),
     DefaultGrant(Worker \cup Readonly, {"select"}) >>

(* Mutant of Grants2: nothing is taken from the worker.                    *)
GrantsWithoutRevoke2 ==
  << Grant(Api, Spine, Crud),
     GrantSelectOnAll(Worker \cup Readonly),
     DefaultGrant(Api, Crud),
     DefaultGrant(Worker \cup Readonly, {"select"}) >>

Grants2 ==
  << Grant(Api, Spine, Crud),
     GrantSelectOnAll(Worker \cup Readonly),
     Revoke(Worker, Identity, Commands),
     GrantSelectOnAll(Readonly),
     DefaultGrant(Api, Crud),
     DefaultGrant(Worker \cup Readonly, {"select"}) >>

Policies2 ==
  {Policy("tenant", "select", AppRoles, "its tenant"),
   Policy("user_profile", "select", Api, "self")}
  \cup Policies("membership", "tenant", AppRoles, Api \cup Worker, Api)
  \cup Policies("membership_location", "membership", AppRoles, Api \cup Worker, Api)
  \cup Policies("tenant_credential", "tenant", Api, Api \cup Worker, Api)

Triggers2 ==
  EnforceTenant({"membership", "tenant_credential"})
  \cup UpdatedAt({"tenant", "user_profile", "membership", "tenant_credential"})

Up2 ==
  Grants2 \o << Secure(Spine), CreatePolicies(Policies2), CreateTriggers(Triggers2) >>

(* Roles, grants and default privileges stay; the schema app is dropped    *)
(* with its functions when nothing hangs on them any more.                 *)
Down2 ==
  << DropTriggers(Triggers2), DropPolicies(Spine), Unsecure(Spine) >>

(* 0003: locations, and the key of membership_location 0001 could not have.*)
ScopeKey == CascadeKey("membership_location", "location_id", "location")

Tables3 ==
  << CreateTable("location", {TenantKey("location")}),
     CreateTable("location_alias",
       {TenantKey("location_alias"),
        CascadeKey("location_alias", "location_id", "location"),
        Key("location_alias", "created_by", "user_profile")}),
     AddKey(ScopeKey) >>

Policies3 ==
  {Policy("location", "select", Api, "location scope"),
   Policy("location", "select", Worker \cup Readonly, "tenant")}
  \cup {Policy("location", cmd, Api, "tenant") : cmd \in {"insert", "update", "delete"}}
  \cup Policies("location_alias", "tenant", AppRoles, Api \cup Worker, Api)

(* Mutant of Secured3: row security is forgotten on the second table.      *)
SecuredWithoutAlias3 == {"location"}
Secured3 == {"location", "location_alias"}

Triggers3 == EnforceTenant({"location", "location_alias"}) \cup UpdatedAt({"location"})

Up3 ==
  Tables3 \o << Secure(Secured3), CreatePolicies(Policies3), CreateTriggers(Triggers3) >>

Down3 ==
  << DropTriggers(Triggers3), DropPolicies({"location", "location_alias"}),
     DropKey(ScopeKey), DropTable("location_alias"), DropTable("location") >>

-----------------------------------------------------------------------------
(* 0004: audit cards, ledger and budget.                                   *)
Money == {"cost_ledger", "cost_budget"}

Tables4 ==
  << CreateTable("audit_card",
       {TenantKey("audit_card"), Key("audit_card", "location_id", "location"),
        Key("audit_card", "actor_id", "user_profile")}),
     CreateTable("cost_ledger",
       {TenantKey("cost_ledger"), Key("cost_ledger", "location_id", "location")}),
     CreateTable("cost_budget", {TenantKey("cost_budget")}) >>

(* Mutant of Secured4: a table is missing in the loop.                    *)
SecuredWithoutCards4 == Money
Secured4 == {"audit_card"} \cup Money

Policies4 ==
  {Policy("audit_card", "select", AppRoles, "tenant"),
   Policy("audit_card", "insert", Worker, "tenant"),
   Policy("cost_ledger", "select", AppRoles, "tenant"),
   Policy("cost_ledger", "insert", Api \cup Worker, "tenant")}
  \cup {Policy("cost_ledger", cmd, Api, "tenant") : cmd \in {"update", "delete"}}
  \cup Policies("cost_budget", "tenant", Api \cup Readonly, Api, Api)

(* Mutant of Triggers4: append-only is left to the grants.                 *)
TriggersWithoutGuard4 ==
  EnforceTenant(Secured4) \cup UpdatedAt({"cost_budget"})

Triggers4 ==
  EnforceTenant(Secured4) \cup UpdatedAt({"cost_budget"})
  \cup {<<"audit_card", "immutable">>}

(* The default privileges have already given more than this.               *)
Grants4 ==
  << Revoke(Api, {"audit_card"}, {"insert", "update", "delete"}),
     Grant(Worker, {"audit_card", "cost_ledger"}, {"insert"}),
     Revoke(Worker, {"cost_budget"}, Commands) >>

Functions4 ==
  {"audit.write_card", "cost.month_spend", "cost.assert_budget"} \X (Api \cup Worker)

Up4 ==
  Tables4 \o << Secure(Secured4), CreatePolicies(Policies4),
                CreateTriggers(Triggers4) >>
          \o Grants4 \o << CreateFunctions(Functions4) >>

Down4 ==
  << DropFunctions({f[1] : f \in Functions4}), DropTriggers(Triggers4),
     DropPolicies(Secured4),
     DropTable("cost_budget"), DropTable("cost_ledger"), DropTable("audit_card") >>

(* 0005: previews and approvals, and the key of audit_card.                *)
CardKey == Key("audit_card", "approval_id", "approval")

Tables5 ==
  << CreateTable("cost_preview",
       {TenantKey("cost_preview"), Key("cost_preview", "location_id", "location"),
        Key("cost_preview", "requested_by", "user_profile")}),
     CreateTable("approval",
       {TenantKey("approval"), Key("approval", "location_id", "location"),
        Key("approval", "cost_preview_id", "cost_preview"),
        Key("approval", "approved_by", "user_profile")}),
     AddKey(CardKey) >>

Policies5 ==
  Policies("cost_preview", "tenant", AppRoles, Api, Api)
  \cup Policies("approval", "tenant", Api, Api, Api)

Triggers5 == EnforceTenant({"cost_preview", "approval"})

Up5 ==
  Tables5 \o << Secure({"cost_preview", "approval"}), CreatePolicies(Policies5),
                CreateTriggers(Triggers5), Revoke(Worker, {"approval"}, Commands) >>

(* Mutant of Down5: the key that came last is forgotten.                   *)
DownWithoutKey5 ==
  << DropTriggers(Triggers5), DropPolicies({"cost_preview", "approval"}),
     DropTable("approval"), DropTable("cost_preview") >>

Down5 ==
  << DropTriggers(Triggers5), DropPolicies({"cost_preview", "approval"}),
     DropKey(CardKey), DropTable("approval"), DropTable("cost_preview") >>

-----------------------------------------------------------------------------
LastRevision == 5
Ups   == << Up1, Up2, Up3, Up4, Up5 >>
Downs == << Down1, Down2, Down3, Down4, Down5 >>

(* The steps of one alembic command, in the order it runs them.            *)
Steps(from, to) ==
  IF from < to THEN [i \in 1 .. to - from |-> Ups[from + i]]
  ELSE [i \in 1 .. from - to |-> Downs[from - i + 1]]
ExecuteSteps(db, steps) ==
  LET after[n \in 0 .. Len(steps)] ==
        IF n = 0 THEN db ELSE ExecuteAll(after[n - 1], steps[n])
  IN  after[Len(steps)]

(* The catalog of a database that was only ever upgraded.                  *)
Fresh == [v \in 0 .. LastRevision |-> ExecuteSteps(Empty, Steps(0, v))]

=============================================================================
