------------------------------ MODULE MCSchema ------------------------------
(* A small database for SchemaLife: tenants t1 and t2, a profile with a    *)
(* membership in t1, and a row or two of each table whose rows others      *)
(* refer to.  The alias of t2 names a location of t1, which no key or      *)
(* policy forbids.                                                         *)
EXTENDS SchemaLife, TLC

MCRow(table, id, refs) == [table |-> table, id |-> id, refs |-> refs]
Owned(table, id, tenant) == MCRow(table, id, [tenant_id |-> tenant])

MCTenants == {"t1", "t2"}
MCActors  == {"bob"}
MCSeed ==
  {MCRow("tenant", "t1", <<>>), MCRow("tenant", "t2", <<>>),
   MCRow("user_profile", "bob", <<>>),
   MCRow("membership", "m1", [tenant_id |-> "t1", user_id |-> "bob"])}
MCPool ==
  {MCRow("membership_location", "m1 l1", [membership_id |-> "m1", location_id |-> "l1"]),
   Owned("location", "l1", "t1"), Owned("location", "l1", "t2"),
   MCRow("location_alias", "n1", [tenant_id |-> "t2", location_id |-> "l1"]),
   Owned("audit_card", "c1", "t1"),
   MCRow("audit_card", "c1", [tenant_id |-> "t1", approval_id |-> "a1"]),
   Owned("approval", "a1", "t1")}

Symmetry == Permutations(Migrators)

=============================================================================
