-------------------------- MODULE LadderImplements --------------------------
(* The approval ladder implements IdempotentExecution: the holder of a     *)
(* slot is the attempt with an uncommitted approval row, the slot is       *)
(* settled by the attempt whose approval is committed, and a client has    *)
(* its reply when the transaction has ended.                               *)
EXTENDS ApprovalLadder

CONSTANT Error
ASSUME ErrorAssumption ==
  /\ Error \notin Attempts \cup {None}
  /\ None \notin Attempts \cup [slot : Tenants \X Keys, subject : Previews]

The(S) == IF S = {} THEN None ELSE CHOOSE a \in S : TRUE
InSlot(a, s) == pc[a] # "idle" /\ <<req[a].tenant, req[a].key>> = s

Asked == [a \in Attempts |->
  IF pc[a] = "idle" THEN None
  ELSE [slot |-> <<req[a].tenant, req[a].key>>, subject |-> req[a].preview]]
HolderOf == [s \in Tenants \X Keys |->
  The({a \in Attempts \ committed : HasRow(a) /\ InSlot(a, s)})]
SettledBy == [s \in Tenants \X Keys |-> The({a \in committed : InSlot(a, s)})]
Told == [a \in Attempts |->
  IF pc[a] # "done" THEN None
  ELSE IF answer[a].code = "OK" THEN answer[a].approval ELSE Error]

Promise == INSTANCE IdempotentExecution
  WITH Calls <- Attempts, Slots <- Tenants \X Keys, Subjects <- Previews,
       ask <- Asked, running <- HolderOf, effects <- effects,
       settled <- SettledBy, reply <- Told

(* Every behaviour of the ladder is one of the abstract specification.     *)
ImplementsPromise == Promise!Spec

=============================================================================
