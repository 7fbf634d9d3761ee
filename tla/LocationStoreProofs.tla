------------------------ MODULE LocationStoreProofs ------------------------
(* Concurrent requests to /v1/locations merge by column, are answered as   *)
(* the table says, and, where they commit before they respond, implement   *)
(* TenantStore: for every number of requests, connections, tenants and     *)
(* locations, every content of the tables and all faults.                  *)
EXTENDS LocationImplements, LocationApiProofs

(***************************************************************************)
(* A step of one request leaves the others where they are.                 *)
(***************************************************************************)

(* What StoreInv asks of one request.                                      *)
Matched(r) ==
  /\ answer[r] \in Refusals => r \notin committed
  /\ answer[r] = "OK" /\ ~RespondFirst
       => \/ ask[r].kind \notin {"create", "patch"}
          \/ ask[r].kind = "patch" /\ Changed(r) = {}
          \/ r \in committed

Stored(r) == Pending(r) /\ Handled(r) /\ Answered(r) /\ Matched(r)

(* StoreInv, request by request.                                           *)
LEMMA StoreInvParts ==
  StoreInv <=> /\ LocationInv /\ OneWriter /\ CoordinatesPaired
               /\ \A r \in Requests : Stored(r)
BY DEF StoreInv, AnswersMatchTable, Stored, Matched

(* All that a request is judged by, but for the table.                     *)
Same(o) ==
  /\ pc'[o] = pc[o] /\ ask'[o] = ask[o] /\ loaded'[o] = loaded[o]
  /\ write'[o] = write[o] /\ answer'[o] = answer[o]
  /\ (o \in committed') = (o \in committed)

(* No action of a request changes the progress of another.                 *)
LEMMA OthersSame ==
  ASSUME TypeOK, NEW r \in Requests, Arrive(r) \/ Refuse(r) \/ Progress(r) \/ Crash(r),
         NEW o \in Requests, o # r
  PROVE  Same(o)
<1>1. CASE Arrive(r) \/ Refuse(r) \/ Bind(r) \/ Ping(r)
  BY <1>1 DEF TypeOK, Same, Arrive, Refuse, Bind, Ping, Goto
<1>2. CASE \/ PingReturns(r) \/ TimeOut(r) \/ LoadFails(r)
           \/ InsertFails(r) \/ UpdateFails(r)
  BY <1>2 DEF TypeOK, Same, PingReturns, TimeOut, LoadFails, InsertFails, UpdateFails,
              Rollback, EndTransaction, Goto
<1>3. CASE \/ Count(r) \/ Page(r) \/ Load(r) \/ WaitForRow(r)
           \/ UpdateNothing(r) \/ Respond(r)
  BY <1>3 DEF TypeOK, Same, Count, Page, Load, WaitForRow, UpdateNothing, Respond, Goto
<1>4. CASE Insert(r) \/ Update(r)
  BY <1>4 DEF TypeOK, Same, Insert, Update, Writes, Goto
<1>5. CASE Commit(r) \/ Crash(r)
  BY <1>5 DEF TypeOK, Same, Commit, Crash, Says, EndTransaction, Goto
<1> QED
  BY <1>1, <1>2, <1>3, <1>4, <1>5 DEF Progress

(* A request that stays where it is keeps its part, as long as the row it  *)
(* is about to change stays as it is.                                      *)
LEMMA SameKeeps ==
  ASSUME NEW o \in Requests, Stored(o), Same(o),
         write[o] # None => location'[Target(o)] = location[Target(o)]
  PROVE  Stored(o)'
<1>1. Changed(o)' = Changed(o) /\ Target(o)' = Target(o) /\ NewRow(o)' = NewRow(o)
  BY DEF Same, Changed, Target, NewRow
<1>2. write[o] # None => Updated(o)' = Updated(o)
  BY <1>1 DEF Same, Updated
<1> QED
  BY <1>1, <1>2 DEF Same, Stored, Pending, Handled, Answered, Matched

(***************************************************************************)
(* A request's own steps.                                                  *)
(***************************************************************************)

(* The codes of responses are not None.                                    *)
LEMMA CodesAreAnswers == None \notin Codes
BY OutsideAssumption

(* A request that arrives, or is refused, has written nothing.             *)
LEMMA ArrivalStored ==
  ASSUME LocationInv, NEW r \in Requests, Stored(r), Arrive(r) \/ Refuse(r)
  PROVE  Stored(r)'
<1>1. TypeOK /\ Wrote(r) /\ pc[r] = "idle"
  BY DEF LocationInv, Arrive, Refuse
<1>2. write[r] = None /\ r \notin committed /\ answer[r] = None
  BY <1>1 DEF Wrote, Stored, Answered
<1>3. /\ pc'[r] \in {"checkout", "done"} /\ write'[r] = None /\ r \notin committed'
      /\ pc'[r] = "checkout" => answer'[r] = None
      /\ answer'[r] # "OK"
  BY <1>1, <1>2, CodesAreAnswers DEF TypeOK, Arrive, Refuse, Goto, Codes
<1> QED
  BY <1>3, CodesAreAnswers DEF Stored, Pending, Handled, Answered, Matched, Codes

(* The first statement fits the kind.                                      *)
LEMMA CheckoutStored ==
  ASSUME LocationInv, NEW r \in Requests, Stored(r), Bind(r) \/ Ping(r)
  PROVE  Stored(r)'
<1>1. TypeOK /\ Wrote(r) /\ Admitted(r) /\ pc[r] = "checkout"
  BY DEF LocationInv, Bind, Ping
<1>2. ask[r].kind \in {"list", "get", "create", "patch", "ready"}
  BY <1>1, AskType DEF Admitted, Steps
<1>3. write[r] = None /\ r \notin committed /\ answer[r] = None
  BY <1>1 DEF Wrote, Stored, Answered
<1>4. /\ UNCHANGED <<ask, write, answer, committed>>
      /\ Ping(r) => pc'[r] = "ping" /\ ask[r].kind = "ready"
      /\ Bind(r) => pc'[r] = FirstStatement(ask[r].kind) /\ ask[r].kind # "ready"
  BY <1>1 DEF TypeOK, Bind, Ping, Goto
<1> QED
  BY <1>2, <1>3, <1>4, CodesAreAnswers
  DEF Stored, Pending, Handled, Answered, Matched, FirstStatement, Codes

(* Statements that write nothing.                                          *)
LEMMA StatementStored ==
  ASSUME LocationInv, NEW r \in Requests, Stored(r),
         \/ Count(r) \/ Page(r) \/ Load(r) \/ WaitForRow(r) \/ UpdateNothing(r)
  PROVE  Stored(r)'
<1>1. TypeOK /\ Wrote(r) /\ pc[r] \in {"count", "page", "load", "insert", "update"}
  BY DEF LocationInv, Count, Page, Load, WaitForRow, UpdateNothing
<1>2. write[r] = None /\ r \notin committed /\ answer[r] = None
  BY <1>1 DEF Wrote, Stored, Answered
<1>3. UNCHANGED <<ask, write, answer, committed>>
  BY DEF Count, Page, Load, WaitForRow, UpdateNothing
<1>4. Pending(r)' /\ Matched(r)' /\ (pc'[r] \notin {"idle", "teardown"} => Answered(r)')
  BY <1>2, <1>3, CodesAreAnswers DEF Pending, Matched, Answered, Codes
<1>5. pc'[r] \in {"page", "respond", "update", "waiting"}
  BY <1>1 DEF TypeOK, Count, Page, Load, WaitForRow, UpdateNothing, Goto
<1>6. Handled(r)'
  <2>1. CASE Count(r) \/ Page(r)
    BY <1>1, <2>1 DEF TypeOK, Count, Page, Goto, Stored, Handled
  <2>2. CASE Load(r)
    <3>1. loaded'[r] # None
      BY <2>2, LoadsTarget
    <3> QED
      BY <1>1, <2>2, <3>1 DEF TypeOK, Load, Goto, Stored, Handled
  <2>3. CASE WaitForRow(r)
    BY <1>1, <2>3 DEF TypeOK, WaitForRow, Inserting, Updating, Changed, Goto, Handled
  <2>4. CASE UpdateNothing(r)
    BY <1>1, <1>2, <2>4
    DEF TypeOK, UpdateNothing, Changed, Goto, Stored, Handled, Wrote
  <2> QED
    BY <2>1, <2>2, <2>3, <2>4
<1> QED
  BY <1>4, <1>5, <1>6 DEF Stored

(* The early response commits nothing.                                     *)
LEMMA RespondStored ==
  ASSUME LocationInv, NEW r \in Requests, Stored(r), Respond(r)
  PROVE  Stored(r)'
<1>1. TypeOK /\ Wrote(r) /\ pc[r] = "respond" /\ RespondFirst
  BY DEF LocationInv, Respond
<1>2. /\ pc'[r] = "teardown" /\ answer'[r] = "OK"
      /\ UNCHANGED <<location, ask, loaded, write, committed>>
  BY <1>1 DEF TypeOK, Respond, Goto
<1>3. Changed(r)' = Changed(r) /\ Target(r)' = Target(r)
      /\ NewRow(r)' = NewRow(r) /\ Updated(r)' = Updated(r)
  BY <1>2 DEF Changed, Target, NewRow, Updated
<1> QED
  BY <1>1, <1>2, <1>3, CodesAreAnswers
  DEF Stored, Pending, Handled, Answered, Matched, Wrote, Codes, Refusals

(* What a create or a patch writes is what the request is held to.         *)
LEMMA WriteStored ==
  ASSUME LocationInv, NEW r \in Requests, Stored(r), Insert(r) \/ Update(r)
  PROVE  Stored(r)' /\ write'[r].at = Target(r) /\ ~Held(r, Target(r))
<1>1. TypeOK /\ Wrote(r) /\ pc[r] \in {"insert", "update", "waiting"}
  BY DEF LocationInv, Insert, Update, Inserting, Updating
<1>2. r \notin committed /\ answer[r] = None
  BY <1>1 DEF Wrote, Stored, Answered
<1>3. PICK row : /\ Writes(r, row) /\ Paired(row)
                 /\ \/ Insert(r) /\ row = NewRow(r) /\ ask[r].kind = "create"
                    \/ /\ Update(r) /\ row = Updated(r) /\ ask[r].kind = "patch"
                       /\ Changed(r) # {}
  BY DEF Insert, Update, Inserting, Updating, Insertable, Updatable
<1>4. /\ pc'[r] = "respond" /\ write'[r] = [at |-> Target(r), row |-> row]
      /\ UNCHANGED <<location, ask, loaded, answer, committed>>
  BY <1>1, <1>3 DEF TypeOK, Writes, Goto
<1>5. Target(r) \in Locations /\ ask[r].kind # "ready"
  BY <1>1, TargetType, AskType DEF LocationInv, Bound, Steps
<1>6. row \in Row
  <2>1. CASE row = NewRow(r)
    BY <1>1, <2>1, RowType DEF Steps
  <2>2. CASE Update(r) /\ row = Updated(r)
    <3>1. location[Target(r)] # None
      BY <1>1, <2>2 DEF Wrote, Update, Updating
    <3> QED
      BY <1>1, <2>2, <3>1, RowType DEF Steps
  <2> QED
    BY <1>3, <2>1, <2>2
<1>7. write'[r] # None
  BY <1>4, <1>5, <1>6, OutsideAssumption DEF Write
<1>8. UNCHANGED <<Changed(r), Target(r), NewRow(r), Updated(r)>>
  BY <1>4 DEF Changed, Target, NewRow, Updated
<1>9. Pending(r)'
  <2>1. CASE Insert(r) /\ row = NewRow(r) /\ ask[r].kind = "create"
    <3>1. location[Target(r)] = None
      BY <2>1 DEF Insert
    <3> QED
      BY <1>3, <1>4, <1>8, <2>1, <3>1 DEF Pending
  <2>2. CASE Update(r) /\ row = Updated(r) /\ ask[r].kind = "patch"
    <3>1. location[Target(r)] # None /\ loaded[r] # None
      BY <1>1, <2>2 DEF Wrote, Update, Updating
    <3> QED
      BY <1>3, <1>4, <1>8, <2>2, <3>1 DEF Pending, Update, Updating
  <2> QED
    BY <1>3, <2>1, <2>2
<1>10. Handled(r)'
  <2>1. ask[r].kind = "patch" => loaded[r] # None /\ Changed(r) # {}
    BY <1>3 DEF LocationInv, Wrote, Update, Updating
  <2>2. ask[r].kind # "get"
    BY <1>3
  <2> QED
    BY <1>4, <1>7, <1>8, <2>1, <2>2 DEF Handled
<1>11. Answered(r)' /\ Matched(r)'
  BY <1>2, <1>4, CodesAreAnswers DEF Answered, Matched, Codes
<1> QED
  BY <1>4, <1>9, <1>10, <1>11 DEF Stored, Insert, Update

(* A request that ends without a commit is refused or lost.                *)
LEMMA EndingStored ==
  ASSUME LocationInv, NEW r \in Requests, Stored(r),
         \/ PingReturns(r) \/ TimeOut(r) \/ LoadFails(r)
         \/ InsertFails(r) \/ UpdateFails(r) \/ Crash(r)
  PROVE  Stored(r)'
<1>1. TypeOK /\ Wrote(r) /\ Active(r) /\ Goto(r, "done") /\ EndTransaction(r)
      /\ UNCHANGED <<ask, loaded, committed>>
  BY EndingShape DEF LocationInv, Ending
<1>2. pc'[r] = "done" /\ write'[r] = None /\ r \notin committed'
  BY <1>1 DEF TypeOK, Goto, EndTransaction, Active, Wrote, Steps
<1>3. answer'[r] = "OK" /\ ~RespondFirst => ask[r].kind = "ready"
  <2>1. CASE PingReturns(r)
    BY <2>1 DEF PingReturns, Stored, Handled
  <2>2. CASE TimeOut(r) \/ LoadFails(r) \/ InsertFails(r) \/ UpdateFails(r)
    BY <1>1, <2>2
    DEF TypeOK, TimeOut, LoadFails, InsertFails, UpdateFails, Rollback
  <2>3. CASE Crash(r)
    BY <1>1, <2>3 DEF TypeOK, Crash, Says, Active, Steps, Stored, Answered
  <2> QED
    BY <2>1, <2>2, <2>3
<1> QED
  BY <1>1, <1>2, <1>3 DEF Stored, Pending, Handled, Answered, Matched

(* A commit acknowledges what it stores.                                   *)
LEMMA CommitStored ==
  ASSUME LocationInv, NEW r \in Requests, Stored(r), Commit(r)
  PROVE  Stored(r)'
<1>1. /\ TypeOK /\ Wrote(r) /\ Goto(r, "done") /\ EndTransaction(r)
      /\ pc[r] \in {"respond", "teardown"} /\ UNCHANGED <<ask, loaded>>
  BY CommitShape DEF LocationInv, Ending
<1>2. pc'[r] = "done" /\ write'[r] = None
  BY <1>1 DEF TypeOK, Goto, EndTransaction
<1>3. answer'[r] \in {"OK", "LOST"}
  BY <1>1 DEF TypeOK, Commit, Says, Stored, Answered
<1>4. r \in committed' <=> write[r] # None
  BY <1>1 DEF Commit, Wrote
<1>5. Changed(r)' = Changed(r)
  BY <1>1 DEF Changed
<1>6. Matched(r)'
  BY <1>1, <1>3, <1>4, <1>5 DEF Matched, Refusals, Stored, Handled
<1> QED
  BY <1>2, <1>3, <1>6 DEF Stored, Pending, Handled, Answered

(***************************************************************************)
(* The invariant.                                                          *)
(***************************************************************************)

(* The row a commit replaces is the one its request names.                 *)
LEMMA CommitAt ==
  ASSUME StoreInv, NEW r \in Requests, Commit(r), write[r] # None
  PROVE  /\ write[r].at = Target(r) /\ Target(r) \in Locations
         /\ location' = [location EXCEPT ![Target(r)] = write[r].row]
         /\ ask[r].kind \in {"create", "patch"} /\ Paired(write[r].row)
<1>1. LocationInv /\ Wrote(r) /\ Pending(r) /\ pc[r] \in {"respond", "teardown"}
  BY CommitShape DEF StoreInv, LocationInv
<1> QED
  BY <1>1, TargetType DEF Wrote, Commit, Steps, Pending

(* A step of one request keeps what is asked of every request.             *)
LEMMA RequestKeeps ==
  ASSUME StoreInv, NEW r \in Requests,
         Arrive(r) \/ Refuse(r) \/ Progress(r) \/ Crash(r)
  PROVE  /\ \A o \in Requests : Stored(o)'
         /\ OneWriter' /\ CoordinatesPaired'
<1>1. /\ LocationInv /\ TypeOK /\ OneWriter /\ CoordinatesPaired
      /\ \A o \in Requests : Stored(o)
  BY StoreInvParts DEF LocationInv
<1>2. Stored(r)'
  BY <1>1, ArrivalStored, CheckoutStored, StatementStored, RespondStored, WriteStored,
     EndingStored, CommitStored DEF Progress
<1>3. \/ location' = location
      \/ /\ Commit(r) /\ write[r] # None /\ write'[r] = None
         /\ location' = [location EXCEPT ![write[r].at] = write[r].row]
  <2>1. CASE Arrive(r) \/ Refuse(r) \/ Bind(r) \/ Ping(r)
    BY <2>1 DEF Arrive, Refuse, Bind, Ping
  <2>2. CASE \/ Count(r) \/ Page(r) \/ Load(r) \/ WaitForRow(r)
             \/ Insert(r) \/ Update(r) \/ UpdateNothing(r) \/ Respond(r)
    BY <1>1, <2>2, StatementShape DEF Statement
  <2>3. CASE \/ PingReturns(r) \/ TimeOut(r) \/ LoadFails(r)
             \/ InsertFails(r) \/ UpdateFails(r) \/ Crash(r)
    BY <1>1, <2>3, EndingShape
  <2>4. CASE Commit(r)
    BY <1>1, <2>4 DEF Commit, EndTransaction, TypeOK
  <2> QED
    BY <2>1, <2>2, <2>3, <2>4 DEF Progress
<1>4. ASSUME NEW o \in Requests, o # r
      PROVE  Stored(o)'
  <2>1. Same(o)
    BY <1>1, <1>4, OthersSame
  <2>2. ASSUME write[o] # None
        PROVE  location'[Target(o)] = location[Target(o)]
    <3>1. write[o].at = Target(o) /\ Target(o) \in Locations
      BY <1>1, <2>2 DEF LocationInv, Wrote, TypeOK, Write
    <3>2. write[r] # None => write[r].at # Target(o)
      BY <1>1, <1>4, <2>2, <3>1 DEF OneWriter
    <3> QED
      BY <1>1, <1>3, <3>1, <3>2 DEF TypeOK
  <2> QED
    BY <1>1, <2>1, <2>2, SameKeeps
<1>5. OneWriter'
  <2>1. ASSUME NEW a \in Requests, NEW b \in Requests, a # b,
               write'[a] # None, write'[b] # None, write'[a].at = write'[b].at
        PROVE  FALSE
    <3>1. ASSUME NEW o \in Requests, o # r
          PROVE  write'[o] = write[o]
      BY <1>1, <3>1, OthersSame DEF Same
    <3>2. \/ write'[r] \in {write[r], None}
          \/ write'[r].at = Target(r) /\ ~Held(r, Target(r))
      <4>1. CASE Insert(r) \/ Update(r)
        BY <1>1, <4>1, WriteStored
      <4>2. CASE Arrive(r) \/ Refuse(r) \/ Bind(r) \/ Ping(r)
        BY <4>2 DEF Arrive, Refuse, Bind, Ping
      <4>3. CASE \/ Count(r) \/ Page(r) \/ Load(r) \/ WaitForRow(r)
                 \/ UpdateNothing(r) \/ Respond(r)
        BY <4>3 DEF Count, Page, Load, WaitForRow, UpdateNothing, Respond
      <4>4. CASE \/ PingReturns(r) \/ TimeOut(r) \/ LoadFails(r)
                 \/ InsertFails(r) \/ UpdateFails(r) \/ Crash(r) \/ Commit(r)
        BY <1>1, <4>4, EndingShape, CommitShape DEF Ending, EndTransaction, TypeOK
      <4> QED
        BY <4>1, <4>2, <4>3, <4>4 DEF Progress
    <3> QED
      BY <1>1, <2>1, <3>1, <3>2 DEF OneWriter, Held
  <2> QED
    BY <2>1 DEF OneWriter
<1>6. CoordinatesPaired'
  <2>1. CASE location' = location
    BY <1>1, <2>1 DEF CoordinatesPaired
  <2>2. CASE Commit(r) /\ write[r] # None
    BY <1>1, <2>2, CommitAt DEF CoordinatesPaired, TypeOK
  <2> QED
    BY <1>3, <2>1, <2>2
<1> QED
  BY <1>2, <1>4, <1>5, <1>6

(* Every step keeps the invariant.                                         *)
LEMMA StoreKeeps ==
  ASSUME StoreInv, [Next]_vars
  PROVE  StoreInv'
<1>1. LocationInv'
  BY NextKeeps DEF StoreInv
<1>2. CASE ChangeMembership \/ UNCHANGED vars
  <2>1. UNCHANGED <<location, pc, ask, loaded, write, answer, committed>>
    BY <1>2 DEF ChangeMembership, vars, request
  <2>2. ASSUME NEW r \in Requests
        PROVE  Stored(r)'
    BY <2>1, SameKeeps, StoreInvParts DEF Same
  <2>3. OneWriter' /\ CoordinatesPaired'
    BY <2>1 DEF StoreInv, OneWriter, CoordinatesPaired
  <2> QED
    BY <1>1, <2>2, <2>3 DEF StoreInv, AnswersMatchTable, Stored, Matched
<1>3. ASSUME NEW r \in Requests, Arrive(r) \/ Refuse(r) \/ Progress(r) \/ Crash(r)
      PROVE  StoreInv'
  BY <1>1, <1>3, RequestKeeps DEF StoreInv, AnswersMatchTable, Stored, Matched
<1> QED
  BY <1>2, <1>3 DEF Next

(* At the start nothing is written, and the stored rows meet their         *)
(* constraint.                                                             *)
LEMMA InitStore == Init => StoreInv
<1> SUFFICES ASSUME Init PROVE StoreInv
  OBVIOUS
<1>1. LocationInv
  BY InitInv
<1>2. OneWriter
  BY DEF Init, OneWriter
<1>3. CoordinatesPaired
  BY StartAssumption DEF Init, CoordinatesPaired
<1>4. \A r \in Requests : Stored(r)
  BY CodesAreAnswers DEF Init, Stored, Pending, Handled, Answered, Matched, Codes
<1> QED
  BY <1>1, <1>2, <1>3, <1>4, StoreInvParts

(* Writes in flight are what the table is to become, under the lock of     *)
(* their row; where a request stands says what it may answer.              *)
THEOREM StoreInvariant == Spec => []StoreInv
<1>1. StoreInv /\ [Next]_vars => StoreInv'
  BY StoreKeeps
<1> QED
  BY InitStore, <1>1, PTL DEF Spec

(* No merge of two patches, each valid for itself, stores half a           *)
(* coordinate pair.                                                        *)
THEOREM PairsStayTogether == Spec => []CoordinatesPaired
<1>1. StoreInv => CoordinatesPaired
  BY DEF StoreInv
<1> QED
  BY StoreInvariant, <1>1, PTL

(* A refused or failed request changed nothing, and where the commit comes *)
(* first an acknowledged write is stored.                                  *)
THEOREM AnswersAreTrue == Spec => []AnswersMatchTable
<1>1. StoreInv => AnswersMatchTable
  BY DEF StoreInv
<1> QED
  BY StoreInvariant, <1>1, PTL

(* Only a commit of a write adds a request to the committed ones.          *)
LEMMA CommittedByCommit ==
  ASSUME LocationInv, [Next]_vars, NEW r \in committed' \ committed
  PROVE  r \in Requests /\ Commit(r) /\ write[r] # None
<1>1. TypeOK /\ TypeOK'
  BY NextType DEF LocationInv
<1>2. r \in Requests
  BY <1>1 DEF TypeOK
<1>3. ASSUME NEW o \in Requests, o # r, Arrive(o) \/ Refuse(o) \/ Progress(o) \/ Crash(o)
      PROVE  FALSE
  BY <1>1, <1>2, <1>3, OthersSame DEF Same
<1>4. ~(ChangeMembership \/ UNCHANGED vars)
  BY DEF ChangeMembership, vars, request
<1>5. ~(Arrive(r) \/ Refuse(r) \/ Bind(r) \/ Ping(r))
  BY DEF Arrive, Refuse, Bind, Ping
<1>6. ~(\/ Count(r) \/ Page(r) \/ Load(r) \/ WaitForRow(r)
        \/ Insert(r) \/ Update(r) \/ UpdateNothing(r) \/ Respond(r))
  BY <1>1, <1>2, StatementShape DEF Statement
<1>7. ~(\/ PingReturns(r) \/ TimeOut(r) \/ LoadFails(r)
        \/ InsertFails(r) \/ UpdateFails(r) \/ Crash(r))
  BY <1>1, <1>2, EndingShape
<1>8. Commit(r)
  BY <1>2, <1>3, <1>4, <1>5, <1>6, <1>7 DEF Next, Progress
<1> QED
  BY <1>2, <1>8 DEF Commit

(* A patch leaves the columns it did not supply as the last writer left    *)
(* them, whoever wrote between its load and its update.                    *)
THEOREM SuppliedColumnsOnly == Spec => OnlySuppliedChange
<1> DEFINE Keeps(r) ==
      ask[r].kind = "patch" =>
        \A c \in Columns \ DOMAIN ask[r].values :
          location'[Target(r)][c] = location[Target(r)][c]
<1>1. ASSUME StoreInv, [Next]_vars, NEW r \in committed' \ committed
      PROVE  Keeps(r)
  <2>1. LocationInv /\ TypeOK
    BY <1>1 DEF StoreInv, LocationInv
  <2>2. r \in Requests /\ Commit(r) /\ write[r] # None
    BY <1>1, <2>1, CommittedByCommit
  <2>3. ask[r].kind = "patch" => location'[Target(r)] = Updated(r)
    BY <1>1, <2>1, <2>2, CommitAt DEF StoreInv, Pending, TypeOK
  <2> QED
    BY <2>3 DEF Updated, Changed
<1>2. StoreInv /\ [Next]_vars => [\A r \in committed' \ committed : Keeps(r)]_vars
  BY <1>1
<1> QED
  BY StoreInvariant, <1>2, PTL DEF Spec, OnlySuppliedChange

(***************************************************************************)
(* The refinement, in the builds that commit first.                        *)
(***************************************************************************)

(* What the store does not see.                                            *)
LEMMA Hidden ==
  UNCHANGED <<location, ask, loaded, answer>> => UNCHANGED Store!vars
BY DEF Store!vars, Replies

(* An open request has no reply yet, a reply is never None.                *)
LEMMA RepliesType ==
  ASSUME TypeOK, NEW r \in Requests
  PROVE  /\ Replies[r] = None <=> answer[r] = None
         /\ answer[r] \in {"OK", "LOST"} => Replies[r] = answer[r]
         /\ answer[r] \in Refusals => Replies[r] = "REFUSED"
BY CodesAreAnswers, ReplyAssumption DEF TypeOK, Replies, Codes, Refusals

(* The reply of a request that is answered by a code.                      *)
LEMMA RepliesTo ==
  ASSUME TypeOK, NEW r \in Requests, NEW code \in Codes,
         answer' = [answer EXCEPT ![r] = code]
  PROVE  Replies' = [Replies EXCEPT ![r] = IF code \in Refusals THEN "REFUSED" ELSE code]
BY DEF TypeOK, Replies

(* The initial states are the store's.                                     *)
LEMMA InitImplements == Init => Store!Init
<1> SUFFICES ASSUME Init PROVE Store!Init
  OBVIOUS
<1>1. CoordinatesPaired /\ LocationInv
  BY InitStore DEF StoreInv
<1>2. Replies = [r \in Requests |-> None]
  BY CodesAreAnswers DEF Init, Replies, Codes
<1>3. \A n \in Locations : location[n] = None \/ Paired(location[n])
  BY <1>1 DEF CoordinatesPaired
<1> QED
  BY <1>2, <1>3 DEF Init, Store!Init

(* A request asks when it arrives, and may be refused at once.             *)
LEMMA ArrivalImplements ==
  ASSUME StoreInv, NEW r \in Requests, Arrive(r) \/ Refuse(r)
  PROVE  Store!Asking(r)
<1>1. TypeOK /\ ask[r] = None /\ pc[r] = "idle"
  BY DEF StoreInv, LocationInv, Answered, Arrive, Refuse
<1>2. CASE Arrive(r)
  BY <1>1, <1>2 DEF Arrive, Store!Asking, Replies
<1>3. CASE Refuse(r)
  <2>1. PICK code \in Refusals : answer' = [answer EXCEPT ![r] = code]
    BY <1>3 DEF Refuse, Refusals
  <2>2. Replies' = [Replies EXCEPT ![r] = "REFUSED"]
    BY <1>1, <2>1, RepliesTo DEF Codes
  <2> QED
    BY <1>1, <1>3, <2>2 DEF Refuse, Store!Asking
<1> QED
  BY <1>2, <1>3

(* A load is the read of the store.                                        *)
LEMMA LoadImplements ==
  ASSUME StoreInv, NEW r \in Requests, Load(r)
  PROVE  Store!Reads(r)
<1>1. TypeOK /\ LocationInv /\ pc[r] = "load" /\ Handled(r) /\ Answered(r) /\ Admitted(r)
  BY DEF StoreInv, LocationInv, Load
<1>2. ask[r] # None /\ Replies[r] = None /\ ask[r].kind \in {"get", "patch"}
  BY <1>1, RepliesType, OutsideAssumption DEF Handled, Answered, Admitted, Steps
<1>3. loaded' = [loaded EXCEPT ![r] = location[Target(r)]] /\ location[Target(r)] # None
  <2>1. loaded'[r] = location[Target(r)] /\ location[Target(r)] # None
    BY <1>1, LoadsTarget
  <2>2. loaded' = [loaded EXCEPT ![r] = loaded'[r]]
    BY <1>1 DEF TypeOK, Load
  <2> QED
    BY <2>1, <2>2
<1>4. UNCHANGED <<location, ask, Replies>>
  BY DEF Load, Replies
<1> QED
  BY <1>2, <1>3, <1>4 DEF Store!Reads, Store!Open, Target

(* An ending without a commit is an answer of a ping, or a failure.        *)
LEMMA EndingImplements ==
  ASSUME StoreInv, ~RespondFirst, NEW r \in Requests,
         \/ PingReturns(r) \/ TimeOut(r) \/ LoadFails(r)
         \/ InsertFails(r) \/ UpdateFails(r) \/ Crash(r)
  PROVE  Store!Answers(r) \/ Store!Fails(r)
<1>1. /\ TypeOK /\ LocationInv /\ Active(r) /\ Handled(r) /\ Answered(r) /\ Admitted(r)
      /\ UNCHANGED <<location, ask, loaded>>
  BY EndingShape DEF StoreInv, LocationInv, Ending
<1>2. Store!Open(r) /\ answer[r] = None
  BY <1>1, RepliesType, OutsideAssumption DEF Store!Open, Active, Admitted, Answered, Steps
<1>3. CASE PingReturns(r)
  <2>1. answer' = [answer EXCEPT ![r] = "OK"] /\ ask[r].kind = "ready"
    BY <1>1, <1>3 DEF PingReturns, Rollback, Handled
  <2>2. Replies' = [Replies EXCEPT ![r] = "OK"]
    BY <1>1, <2>1, RepliesTo DEF Codes, Refusals
  <2> QED
    BY <1>1, <1>2, <2>1, <2>2 DEF Store!Answers, Store!Says
<1>4. CASE TimeOut(r) \/ LoadFails(r) \/ InsertFails(r) \/ UpdateFails(r)
  <2>1. PICK code \in Refusals : answer' = [answer EXCEPT ![r] = code]
    BY <1>4 DEF TimeOut, LoadFails, InsertFails, UpdateFails, Rollback, Refusals
  <2>2. Replies' = [Replies EXCEPT ![r] = "REFUSED"]
    BY <1>1, <2>1, RepliesTo DEF Codes
  <2> QED
    BY <1>1, <1>2, <2>2 DEF Store!Fails, Store!Says
<1>5. CASE Crash(r)
  <2>1. answer' = [answer EXCEPT ![r] = "LOST"]
    BY <1>2, <1>5 DEF Crash, Says
  <2>2. Replies' = [Replies EXCEPT ![r] = "LOST"]
    BY <1>1, <2>1, RepliesTo DEF Codes, Refusals
  <2> QED
    BY <1>1, <1>2, <2>2 DEF Store!Fails, Store!Says
<1> QED
  BY <1>3, <1>4, <1>5

(* A commit is the create or the patch of the store, of the row as it is   *)
(* then, or the answer of a request with nothing to write.                 *)
LEMMA CommitImplements ==
  ASSUME StoreInv, ~RespondFirst, NEW r \in Requests, Commit(r)
  PROVE  Store!Creates(r) \/ Store!Patches(r) \/ Store!Answers(r)
<1>1. /\ TypeOK /\ LocationInv /\ Handled(r) /\ Answered(r) /\ Admitted(r) /\ Pending(r)
      /\ pc[r] = "respond" /\ UNCHANGED <<ask, loaded>>
  BY DEF StoreInv, LocationInv, Commit, MayCommit
<1>2. Store!Open(r) /\ answer[r] = None
  BY <1>1, RepliesType, OutsideAssumption DEF Store!Open, Admitted, Answered, Steps
<1>3. Store!Says(r, {"OK", "LOST"})
  <2>1. PICK code \in {"OK", "LOST"} : answer' = [answer EXCEPT ![r] = code]
    BY <1>2 DEF Commit, Says
  <2>2. Replies' = [Replies EXCEPT ![r] = code]
    BY <1>1, <2>1, RepliesTo DEF Codes, Refusals
  <2> QED
    BY <1>1, <2>2 DEF Store!Says
<1>4. Store!Differs(r) = IF loaded[r] # None THEN Changed(r) ELSE {}
  BY DEF Store!Differs, Changed
<1>5. CASE write[r] = None
  <2>1. location' = location
    BY <1>5 DEF Commit
  <2>2. ask[r].kind \in {"list", "get", "patch"}
    BY <1>1, <1>5, AskType DEF Handled, Admitted, Bound, LocationInv, Steps
  <2>3. /\ ask[r].kind = "get" => loaded[r] # None
        /\ ask[r].kind = "patch" => loaded[r] # None /\ Store!Differs(r) = {}
    BY <1>1, <1>4, <1>5 DEF Handled
  <2> QED
    BY <1>2, <1>3, <2>1, <2>2, <2>3 DEF Store!Answers
<1>6. CASE write[r] # None /\ ask[r].kind = "create"
  <2>1. /\ location[Target(r)] = None /\ Paired(NewRow(r))
        /\ location' = [location EXCEPT ![Target(r)] = NewRow(r)]
    BY <1>1, <1>6, CommitAt DEF Pending
  <2> QED
    BY <1>2, <1>3, <1>6, <2>1 DEF Store!Creates, Target, NewRow
<1>7. CASE write[r] # None /\ ask[r].kind = "patch"
  <2>1. /\ Changed(r) # {} /\ loaded[r] # None /\ Paired(Updated(r))
        /\ location' = [location EXCEPT ![Target(r)] = Updated(r)]
    BY <1>1, <1>7, CommitAt DEF Pending
  <2> QED
    BY <1>2, <1>3, <1>4, <1>7, <2>1 DEF Store!Patches, Target, Updated
<1> QED
  BY <1>1, <1>5, <1>6, <1>7, CommitAt

(* Every step is a step of the store or a stutter.                         *)
LEMMA NextImplements ==
  ASSUME StoreInv, ~RespondFirst, [Next]_vars
  PROVE  [Store!Next]_(Store!vars)
<1>1. CASE ChangeMembership \/ UNCHANGED vars
  BY <1>1, Hidden DEF ChangeMembership, vars, request
<1>2. ASSUME NEW r \in Requests,
             \/ Bind(r) \/ Ping(r) \/ Count(r) \/ Page(r) \/ WaitForRow(r)
             \/ Insert(r) \/ Update(r) \/ UpdateNothing(r)
      PROVE  UNCHANGED Store!vars
  BY <1>2, Hidden
  DEF Bind, Ping, Count, Page, WaitForRow, Insert, Update, Writes, UpdateNothing
<1>3. ASSUME NEW r \in Requests,
             \/ Arrive(r) \/ Refuse(r) \/ Load(r) \/ Commit(r) \/ Crash(r)
             \/ PingReturns(r) \/ TimeOut(r) \/ LoadFails(r)
             \/ InsertFails(r) \/ UpdateFails(r)
      PROVE  Store!Next
  BY <1>3, ArrivalImplements, LoadImplements, CommitImplements, EndingImplements
  DEF Store!Next
<1>4. ASSUME NEW r \in Requests PROVE ~Respond(r)
  BY DEF Respond
<1> QED
  BY <1>1, <1>2, <1>3, <1>4 DEF Next, Progress

(* Where requests commit before they respond, every behaviour over the     *)
(* pool, the settings, the policies and the locks is one of TenantStore:   *)
(* creates and patches take effect whole, at the moment of their answer.   *)
THEOREM RequestsImplementStore ==
  ASSUME ~RespondFirst
  PROVE  Spec => ImplementsStore
<1>1. StoreInv /\ [Next]_vars => [Store!Next]_(Store!vars)
  BY NextImplements
<1> QED
  BY InitImplements, StoreInvariant, <1>1, PTL DEF Spec, ImplementsStore, Store!Spec

=============================================================================
