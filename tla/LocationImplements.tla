------------------------- MODULE LocationImplements -------------------------
(* The requests to /v1/locations implement TenantStore, in the builds that *)
(* commit before they respond: the table is the committed one, a call has  *)
(* its reply when its request is answered, and every statement in between  *)
(* but the load of a row is a stutter.                                     *)
EXTENDS LocationApi

ASSUME ReplyAssumption == None # "REFUSED"

Replies == [r \in Requests |->
  IF answer[r] \in Refusals THEN "REFUSED" ELSE answer[r]]

Store == INSTANCE TenantStore
  WITH Calls <- Requests, Names <- Locations, Asks <- Asks, Columns <- Columns,
       NameOf <- LAMBDA q : <<q.ctx.tenant, q.slug>>, Valid <- Paired,
       table <- location, ask <- ask, read <- loaded, reply <- Replies

(* Every behaviour over the pool, the policies and the locks is one of the *)
(* store.                                                                  *)
ImplementsStore == Store!Spec

=============================================================================
