------------------------------- MODULE MCWalk -------------------------------
(* A small instance of LocationWalk: tenant t1 has up to three locations,  *)
(* the first two with equal names; t2 has one of the same slug and name.   *)
EXTENDS LocationWalk

MCSlugs == {"a", "b", "c"}
MCRank == [a |-> 1, b |-> 1, c |-> 2]
MCClaims ==
  {[tenant |-> "t1", scope |-> MCSlugs], [tenant |-> "t1", scope |-> {"c"}],
   [tenant |-> "t2", scope |-> MCSlugs]}
MCRows == {({"t1"} \X {"b", "c"}) \cup {<<"t2", "c">>}}
MCLimits == {-1, 0, 1}
MCWritable == {"t1"} \X MCSlugs

=============================================================================
