---------------------------- MODULE RowSecurity ----------------------------
(***************************************************************************)
(* What PostgreSQL lets a statement of role app_api see and write in table *)
(* location: the settings tenant_context() binds to a transaction, the     *)
(* app.* functions that read them, the policies and tg_enforce_tenant().   *)
(*                                                                         *)
(* A location is named by its tenant and slug, which are unique together,  *)
(* never change and never disappear; membership_location names it so too.  *)
(***************************************************************************)
EXTENDS FiniteSets

CONSTANTS Tenants, Actors, Slugs,
          Roles,  \* the roles a token may carry
          None

Locations == Tenants \X Slugs
TenantOf(l) == l[1]
SlugOf(l)   == l[2]

Context == [tenant : Tenants, actor : Actors, role : Roles]

(* A transaction in which set_config() was not called.                     *)
Unbound  == [tenant |-> None, actor |-> None, role |-> "none"]
Settings == Context \cup {Unbound}

(* One membership of an actor in a tenant, with its membership_location    *)
(* rows; (tenant_id, user_id) is unique.                                   *)
Membership == [status : {"active", "pending", "revoked"},
               locations : SUBSET Locations]
Memberships == [Tenants -> [Actors -> Membership \cup {None}]]

ASSUME NoneIsNeither == None \notin Tenants \cup Actors \cup Membership

-----------------------------------------------------------------------------
OperatorRoles == {"as_admin", "as_staff", "system"}
IsOperator(s) == s.role \in OperatorRoles

(* The locations an active membership lists.                               *)
Assigned(s, members) ==
  LET m == members[s.tenant][s.actor]
  IN  IF m # None /\ m.status = "active" THEN m.locations ELSE {}

(* app.can_read_location(): no list means no restriction.                  *)
CanReadLocation(s, members, l) ==
  \/ IsOperator(s)
  \/ Assigned(s, members) = {}
  \/ l \in Assigned(s, members)

(* Mutant of SelectPolicy: the plain tenant policy of the other tables.    *)
SelectTenant(s, members, l) == s.tenant = TenantOf(l)

(* location_select_scoped; a missing setting is null and matches nothing.  *)
SelectPolicy(s, members, l) ==
  s.tenant = TenantOf(l) /\ CanReadLocation(s, members, l)

(* location_insert_tenant and location_update_tenant agree with what       *)
(* tg_enforce_tenant() asks of a new row: a tenant is bound and is its own.*)
WritePolicy(s, l) == s.tenant # None /\ s.tenant = TenantOf(l)

=============================================================================
