----------------------------- MODULE MCLocation -----------------------------
(* Small instances of LocationApi.  Tenant t1 has the actors ann, whose    *)
(* token carries an operator role, and bob, a client; ann also works for   *)
(* every other tenant, or with a token that names none.                    *)
EXTENDS LocationImplements, TLC

CONSTANTS t1, ann, bob, s1, s2,
          Kinds,        \* the requests that are made
          Present,      \* the slugs every tenant has at the start
          PatchValues,  \* the values patches and creates supply
          Limits, Offsets,
          Assignments   \* what bob's membership may list, by slug

Staff(t) == [tenant |-> t, actor |-> ann, role |-> "as_staff"]
Client   == [tenant |-> t1, actor |-> bob, role |-> "client_user"]
Nobody   == [tenant |-> None, actor |-> ann, role |-> "as_staff"]
Contexts == {Staff(t) : t \in Tenants} \cup IF bob \in Actors THEN {Client, Nobody} ELSE {}

MCAsks ==
  [kind : Kinds \cap {"create", "patch"}, ctx : Contexts, slug : Slugs,
   values : PatchValues, limit : {0}, offset : {0}]
  \cup [kind : Kinds \cap {"list"}, ctx : Contexts, slug : {s1},
        values : {<<>>}, limit : Limits, offset : Offsets]
  \cup [kind : Kinds \cap {"get"}, ctx : Contexts, slug : Slugs,
        values : {<<>>}, limit : {0}, offset : {0}]
  \cup [kind : Kinds \cap {"ready"}, ctx : {Nobody}, slug : {s1},
        values : {<<>>}, limit : {0}, offset : {0}]

MCCoordinates == {1, 2}
MCPatches ==
  {[lat |-> 2], [lng |-> 2], [lat |-> 2, lng |-> 1], [lat |-> None, lng |-> None]}
OnePatch == {[lat |-> 2, lng |-> 2]}
MCRank == [s \in Slugs |-> 0]

MCTables ==
  {[l \in Locations |->
      IF SlugOf(l) \in Present THEN [lat |-> 1, lng |-> 1] ELSE None]}

Listing(status, slugs) ==
  [status |-> status, locations |-> {t1} \X slugs]
MCMembers ==
  {[t \in Tenants |-> [a \in Actors |->
      IF t = t1 /\ a = bob THEN Listing("active", slugs) ELSE None]] :
    slugs \in Assignments}
MCChanges ==
  IF bob \in Actors
  THEN {<<t1, bob, Listing("active", slugs)>> : slugs \in Assignments}
       \cup {<<t1, bob, Listing("revoked", slugs)>> : slugs \in Assignments}
  ELSE {}

Symmetry == Permutations(Requests) \cup Permutations(Connections)

=============================================================================
