------------------------ MODULE LadderPromiseProofs ------------------------
(* The ladder implements IdempotentExecution, for every set of tenants,    *)
(* keys, previews and attempts, every budget and every combination of      *)
(* faults.                                                                 *)
EXTENDS LadderImplements, ApprovalLadderProofs

SlotOf(a) == <<req[a].tenant, req[a].key>>
InFlight(s) == {a \in Attempts \ committed : HasRow(a) /\ InSlot(a, s)}
Lasting(s) == {a \in committed : InSlot(a, s)}

(***************************************************************************)
(* Holders and settlers of slots.                                          *)
(***************************************************************************)

(* The element of a singleton, None of the empty set.                      *)
LEMMA TheOne ==
  /\ The({}) = None
  /\ \A S : \A x \in S : (\A y \in S : y = x) => The(S) = x
  /\ \A S : S # {} => The(S) \in S
<1>1. ASSUME NEW S, S # {} PROVE (CHOOSE a \in S : TRUE) \in S
  BY <1>1
<1> QED
  BY <1>1 DEF The

(* An attempt that has begun has asked for a slot and a subject.           *)
LEMMA Begun ==
  ASSUME LadderInv, NEW a \in Attempts, pc[a] # "idle"
  PROVE  /\ SlotOf(a) \in Tenants \X Keys
         /\ req[a].preview \in Previews
         /\ Asked[a] = [slot |-> SlotOf(a), subject |-> req[a].preview]
         /\ Asked[a] # None
<1>1. req[a].tenant \in Tenants /\ req[a].key \in Keys /\ req[a].preview \in Previews
  BY RequestAssumption DEF LadderInv, AnswerFollowsRow, Request
<1>2. Asked[a] = [slot |-> SlotOf(a), subject |-> req[a].preview]
  BY DEF Asked, SlotOf
<1> QED
  BY <1>1, <1>2, ErrorAssumption DEF SlotOf

(* Where an attempt may have a row, or be committed.                       *)
LEMMA RowsBegun ==
  ASSUME LadderInv, NEW a \in Attempts, HasRow(a) \/ a \in committed
  PROVE  pc[a] # "idle" /\ HasRow(a)
<1>1. pc[a] # "idle"
  BY DEF LadderInv, RowFollowsStep, Untouched
<1>2. a \in committed => HasRow(a)
  BY <1>1, CommittedRow, RowsExist DEF LadderInv, AnswerFollowsRow
<1> QED
  BY <1>1, <1>2

(* The row of an attempt is the only one of its slot.                      *)
LEMMA OwnSlot ==
  ASSUME LadderInv, NEW a \in Attempts, HasRow(a)
  PROVE  /\ a \notin committed =>
              HolderOf[SlotOf(a)] = a /\ SettledBy[SlotOf(a)] = None
         /\ a \in committed =>
              HolderOf[SlotOf(a)] = None /\ SettledBy[SlotOf(a)] = a
<1> DEFINE s == SlotOf(a)
<1>1. pc[a] # "idle" /\ s \in Tenants \X Keys
  BY RowsBegun, Begun
<1>2. InSlot(a, s)
  BY <1>1 DEF InSlot, SlotOf
<1>3. ASSUME NEW b \in Attempts, HasRow(b) \/ b \in committed, InSlot(b, s)
      PROVE  b = a
  <2>1. HasRow(b) /\ SameKey(a, b)
    BY <1>3, RowsBegun DEF InSlot, SlotOf, SameKey
  <2> QED
    BY <2>1 DEF LadderInv, OneApprovalPerKey
<1>4. committed \subseteq Attempts
  BY DEF LadderInv, TypeOK
<1>5. HolderOf[s] = The(InFlight(s)) /\ SettledBy[s] = The(Lasting(s))
  BY <1>1 DEF HolderOf, SettledBy, InFlight, Lasting
<1>6. CASE a \notin committed
  <2>1. a \in InFlight(s) /\ (\A b \in InFlight(s) : b = a) /\ Lasting(s) = {}
    BY <1>2, <1>3, <1>4, <1>6 DEF InFlight, Lasting
  <2> QED
    BY <1>5, <1>6, <2>1, TheOne
<1>7. CASE a \in committed
  <2>1. a \in Lasting(s) /\ (\A b \in Lasting(s) : b = a) /\ InFlight(s) = {}
    BY <1>2, <1>3, <1>4, <1>7 DEF InFlight, Lasting
  <2> QED
    BY <1>5, <1>7, <2>1, TheOne
<1> QED
  BY <1>6, <1>7

(* An attempt without a row holds no slot.                                 *)
LEMMA HolderHasRow ==
  ASSUME LadderInv, NEW a \in Attempts, NEW s \in Tenants \X Keys, HolderOf[s] = a
  PROVE  HasRow(a) /\ a \notin committed
<1>1. The(InFlight(s)) = a
  BY DEF HolderOf, InFlight
<1>2. InFlight(s) # {}
  BY <1>1, TheOne, ErrorAssumption
<1>3. a \in InFlight(s)
  BY <1>1, <1>2, TheOne
<1> QED
  BY <1>3 DEF InFlight

(* Nobody holds a free key, and nobody has settled it.                     *)
LEMMA FreeSlot ==
  ASSUME LadderInv, NEW a \in Attempts, pc[a] # "idle", ~HasRow(a), KeyIsFree(a)
  PROVE  HolderOf[SlotOf(a)] = None /\ SettledBy[SlotOf(a)] = None
<1> DEFINE s == SlotOf(a)
<1>1. s \in Tenants \X Keys
  BY Begun
<1>2. ASSUME NEW b \in Attempts, InSlot(b, s)
      PROVE  SameKey(a, b)
  BY <1>2 DEF InSlot, SlotOf, SameKey
<1>3. a \notin committed
  BY RowsBegun
<1>4. InFlight(s) = {} /\ Lasting(s) = {}
  BY <1>2, <1>3 DEF KeyIsFree, Holders, Winners, InFlight, Lasting, LadderInv, TypeOK
<1> QED
  BY <1>1, <1>4, TheOne DEF HolderOf, SettledBy, InFlight, Lasting

(***************************************************************************)
(* What a step of one attempt changes of what the promise sees.            *)
(***************************************************************************)
Alone(b) ==
  /\ pc'[b] = pc[b] /\ req'[b] = req[b] /\ answer'[b] = answer[b]
  /\ approval'[b] = approval[b]
  /\ b \in committed' <=> b \in committed

(* Slots look the same when the attempt that moves is as it was in them.   *)
LEMMA SlotKept ==
  ASSUME LadderInv, LadderInv', NEW a \in Attempts,
         \A b \in Attempts \ {a} : Alone(b), NEW s \in Tenants \X Keys,
         a \in InFlight(s)' <=> a \in InFlight(s),
         a \in Lasting(s)' <=> a \in Lasting(s)
  PROVE  HolderOf'[s] = HolderOf[s] /\ SettledBy'[s] = SettledBy[s]
<1>1. committed \subseteq Attempts /\ committed' \subseteq Attempts
  BY DEF LadderInv, TypeOK
<1>2. InFlight(s)' = InFlight(s) /\ Lasting(s)' = Lasting(s)
  BY <1>1 DEF Alone, InFlight, Lasting, HasRow, InSlot
<1>3. /\ HolderOf[s] = The(InFlight(s)) /\ SettledBy[s] = The(Lasting(s))
      /\ HolderOf'[s] = The(InFlight(s)') /\ SettledBy'[s] = The(Lasting(s)')
  BY DEF HolderOf, SettledBy, InFlight, Lasting
<1> QED
  BY <1>2, <1>3

(* A step that keeps whether there is a row, and for whom it is, keeps all *)
(* slots.                                                                  *)
LEMMA SlotsKept ==
  ASSUME LadderInv, LadderInv', NEW a \in Attempts,
         \A b \in Attempts \ {a} : Alone(b),
         \/ ~HasRow(a) /\ ~HasRow(a)'
         \/ HasRow(a) /\ HasRow(a)' /\ req'[a] = req[a],
         a \in committed' <=> a \in committed
  PROVE  HolderOf' = HolderOf /\ SettledBy' = SettledBy
<1>1. ASSUME NEW s \in Tenants \X Keys
      PROVE  HolderOf'[s] = HolderOf[s] /\ SettledBy'[s] = SettledBy[s]
  <2>1. /\ HasRow(a) => pc[a] # "idle"
        /\ HasRow(a)' => pc'[a] # "idle"
        /\ a \in committed => HasRow(a)
    BY RowsBegun DEF LadderInv, RowFollowsStep, Untouched
  <2>2. /\ a \in InFlight(s)' <=> a \in InFlight(s)
        /\ a \in Lasting(s)' <=> a \in Lasting(s)
    BY <2>1 DEF InFlight, Lasting, InSlot
  <2> QED
    BY <2>2, SlotKept
<1> QED
  BY <1>1 DEF HolderOf, SettledBy

(* Any other step changes the slot of its attempt only.                    *)
LEMMA OtherSlots ==
  ASSUME LadderInv, LadderInv', NEW a \in Attempts,
         \A b \in Attempts \ {a} : Alone(b), pc[a] # "idle", req'[a] = req[a]
  PROVE  /\ HolderOf' = [HolderOf EXCEPT ![SlotOf(a)] = HolderOf'[SlotOf(a)]]
         /\ SettledBy' = [SettledBy EXCEPT ![SlotOf(a)] = SettledBy'[SlotOf(a)]]
<1>1. ASSUME NEW s \in Tenants \X Keys, s # SlotOf(a)
      PROVE  HolderOf'[s] = HolderOf[s] /\ SettledBy'[s] = SettledBy[s]
  <2>1. /\ a \notin InFlight(s) /\ a \notin InFlight(s)'
        /\ a \notin Lasting(s) /\ a \notin Lasting(s)'
    BY <1>1 DEF InFlight, Lasting, InSlot, SlotOf
  <2> QED
    BY <2>1, SlotKept
<1>2. SlotOf(a) \in Tenants \X Keys
  BY Begun
<1> QED
  BY <1>1, <1>2 DEF HolderOf, SettledBy

(* OwnSlot in the state after a step.                                      *)
LEMMA OwnSlotNext ==
  ASSUME NEW a \in Attempts
  PROVE  (LadderInv /\ HasRow(a) =>
         /\ a \notin committed =>
              HolderOf[SlotOf(a)] = a /\ SettledBy[SlotOf(a)] = None
         /\ a \in committed =>
              HolderOf[SlotOf(a)] = None /\ SettledBy[SlotOf(a)] = a)'
<1>1. LadderInv /\ HasRow(a) =>
         /\ a \notin committed =>
              HolderOf[SlotOf(a)] = a /\ SettledBy[SlotOf(a)] = None
         /\ a \in committed =>
              HolderOf[SlotOf(a)] = None /\ SettledBy[SlotOf(a)] = a
  BY OwnSlot
<1> QED
  BY <1>1, PTL

(* The other components of the promise, as one attempt moves.              *)
LEMMA OtherParts ==
  ASSUME LadderInv, NEW a \in Attempts, \A b \in Attempts \ {a} : Alone(b)
  PROVE  /\ pc[a] # "idle" /\ pc'[a] # "idle" /\ req'[a] = req[a] => Asked' = Asked
         /\ Asked' = [Asked EXCEPT ![a] = Asked'[a]]
         /\ pc[a] # "done" => Told[a] = None
         /\ pc[a] # "done" /\ pc'[a] # "done" => Told' = Told
         /\ Told' = [Told EXCEPT ![a] = Told'[a]]
         /\ pc'[a] = "done" =>
              Told'[a] = IF answer'[a].code = "OK" THEN answer'[a].approval ELSE Error
<1>1. /\ pc[a] # "idle" /\ pc'[a] # "idle" /\ req'[a] = req[a] => Asked' = Asked
      /\ Asked' = [Asked EXCEPT ![a] = Asked'[a]]
  <2>1. \A b \in Attempts \ {a} : Asked'[b] = Asked[b]
    BY DEF Asked, Alone
  <2>2. pc[a] # "idle" /\ pc'[a] # "idle" /\ req'[a] = req[a] => Asked'[a] = Asked[a]
    BY DEF Asked
  <2> QED
    BY <2>1, <2>2 DEF Asked
<1>2. /\ pc[a] # "done" => Told[a] = None
      /\ pc[a] # "done" /\ pc'[a] # "done" => Told' = Told
      /\ Told' = [Told EXCEPT ![a] = Told'[a]]
      /\ pc'[a] = "done" =>
           Told'[a] = IF answer'[a].code = "OK" THEN answer'[a].approval ELSE Error
  <2>1. \A b \in Attempts \ {a} : Told'[b] = Told[b]
    BY DEF Told, Alone
  <2>2. /\ pc[a] # "done" => Told[a] = None
        /\ pc'[a] # "done" => Told'[a] = None
        /\ pc'[a] = "done" =>
             Told'[a] = IF answer'[a].code = "OK" THEN answer'[a].approval ELSE Error
    BY DEF Told
  <2> QED
    BY <2>1, <2>2 DEF Told
<1> QED
  BY <1>1, <1>2

(***************************************************************************)
(* Every step is a step of the promise or a stutter.                       *)
(***************************************************************************)

(* What is seen of an attempt whose transaction is open.                   *)
LEMMA OpenAsked ==
  ASSUME LadderInv, NEW a \in Attempts, Active(a)
  PROVE  /\ Promise!Open(a) /\ Promise!Slot(a) = SlotOf(a)
         /\ pc[a] # "idle" /\ pc[a] # "done" /\ req[a] \in Requests
         /\ SlotOf(a) \in Tenants \X Keys
<1>1. pc[a] # "idle" /\ pc[a] # "done"
  BY DEF Active, Steps
<1>2. Asked[a].slot = SlotOf(a) /\ Asked[a] # None /\ SlotOf(a) \in Tenants \X Keys
  <2>1. Asked[a] = [slot |-> SlotOf(a), subject |-> req[a].preview]
    BY <1>1, Begun
  <2>2. Asked[a] # None /\ SlotOf(a) \in Tenants \X Keys
    BY <1>1, Begun
  <2> QED
    BY <2>1, <2>2
<1>3. Told[a] = None /\ req[a] \in Requests
  BY <1>1 DEF Told, LadderInv, AnswerFollowsRow
<1> QED
  BY <1>1, <1>2, <1>3 DEF Promise!Open, Promise!Slot

(* A call arrives.                                                         *)
LEMMA BeginImplements ==
  ASSUME LadderInv, LadderInv', NEW a \in Attempts, Begin(a)
  PROVE  Promise!Arrive(a)
<1>1. \A b \in Attempts \ {a} : Alone(b)
  BY DEF Begin, Goto, Alone, LadderInv, TypeOK
<1>2. pc[a] = "idle" /\ pc'[a] = "lookup" /\ Untouched(a) /\ Untouched(a)'
  BY DEF Begin, Goto, LadderInv, TypeOK, RowFollowsStep
<1>3. HolderOf' = HolderOf /\ SettledBy' = SettledBy
  BY <1>1, <1>2, SlotsKept DEF Untouched
<1>4. Asked[a] = None /\ Asked' = [Asked EXCEPT ![a] = Asked'[a]] /\ Told' = Told
  BY <1>1, <1>2, OtherParts DEF Asked
<1>5. Asked'[a] \in Promise!Ask
  <2>1. req'[a] \in Requests
    BY <1>2 DEF LadderInv, AnswerFollowsRow
  <2>2. /\ req'[a].tenant \in Tenants /\ req'[a].key \in Keys
        /\ req'[a].preview \in Previews
    BY <2>1, RequestAssumption DEF Request
  <2>3. Asked'[a] = [slot |-> <<req'[a].tenant, req'[a].key>>,
                     subject |-> req'[a].preview]
    BY <1>2 DEF Asked
  <2> QED
    BY <2>2, <2>3 DEF Promise!Ask
<1>6. effects' = effects
  BY DEF Begin
<1> QED
  BY <1>3, <1>4, <1>5, <1>6 DEF Promise!Arrive

(* The insert acquires the slot.                                           *)
LEMMA InsertImplements ==
  ASSUME LadderInv, LadderInv', NEW a \in Attempts, InsertApproval(a)
  PROVE  Promise!Acquire(a)
<1>1. /\ \A b \in Attempts \ {a} : Alone(b)
      /\ pc'[a] = "dispatch" /\ req'[a] = req[a] /\ committed' = committed
  BY DEF InsertApproval, Goto, Alone, LadderInv, TypeOK
<1>2. Active(a) /\ Untouched(a) /\ KeyIsFree(a)
  BY DEF InsertApproval, Active, Steps, LadderInv, RowFollowsStep
<1>3. Promise!Open(a) /\ Promise!Slot(a) = SlotOf(a) /\ pc[a] # "idle" /\ pc[a] # "done"
  BY <1>2, OpenAsked
<1>4. HolderOf[SlotOf(a)] = None /\ SettledBy[SlotOf(a)] = None
  BY <1>2, <1>3, FreeSlot DEF Untouched
<1>5. HasRow(a)' /\ a \notin committed' /\ SlotOf(a)' = SlotOf(a)
  <2>1. Executing(a)' /\ req'[a] \in Requests
    BY <1>1 DEF LadderInv, RowFollowsStep, AnswerFollowsRow
  <2>2. [status |-> "executing", cost |-> None] \in ApprovalRow
    BY DEF ApprovalRow
  <2> QED
    BY <1>1, <2>1, <2>2, NoneAssumption DEF Executing, HasRow, SlotOf
<1>6. HolderOf'[SlotOf(a)] = a /\ SettledBy'[SlotOf(a)] = None
  BY <1>5, OwnSlotNext
<1>7. /\ HolderOf' = [HolderOf EXCEPT ![SlotOf(a)] = a]
      /\ SettledBy' = [SettledBy EXCEPT ![SlotOf(a)] = None]
  BY <1>1, <1>3, <1>6, OtherSlots
<1>8. SettledBy' = SettledBy
  BY <1>4, <1>7 DEF SettledBy
<1>9. Asked' = Asked /\ Told' = Told
  BY <1>1, <1>3, OtherParts
<1>10. effects' = effects
  BY DEF InsertApproval
<1> QED
  BY <1>3, <1>4, <1>7, <1>8, <1>9, <1>10 DEF Promise!Acquire

(* A call with an uncommitted row holds its slot.                          *)
LEMMA RowHolds ==
  ASSUME LadderInv, NEW a \in Attempts, Active(a), HasRow(a), a \notin committed
  PROVE  Promise!Holds(a) /\ SettledBy[SlotOf(a)] = None
BY OpenAsked, OwnSlot DEF Promise!Holds

(* dispatch() returns in the hands of the holder.                          *)
LEMMA DispatchImplements ==
  ASSUME LadderInv, LadderInv', NEW a \in Attempts, DispatchReturns(a)
  PROVE  Promise!Perform(a)
<1>1. /\ \A b \in Attempts \ {a} : Alone(b)
      /\ pc'[a] = "finalize" /\ req'[a] = req[a]
      /\ approval' = approval /\ committed' = committed
      /\ effects' = effects \cup {a}
  BY DEF DispatchReturns, Goto, Alone, LadderInv, TypeOK
<1>2. Active(a) /\ Executing(a) /\ a \notin effects
  BY DEF DispatchReturns, Active, Steps, LadderInv, RowFollowsStep
<1>3. pc[a] # "idle" /\ pc[a] # "done" /\ req[a] \in Requests
  BY <1>2, OpenAsked
<1>4. HasRow(a)
  BY <1>2, <1>3, RowsExist
<1>5. HolderOf' = HolderOf /\ SettledBy' = SettledBy
  BY <1>1, <1>4, SlotsKept DEF HasRow
<1>6. Asked' = Asked /\ Told' = Told
  BY <1>1, <1>3, OtherParts
<1> QED
  BY <1>1, <1>2, <1>4, <1>5, <1>6, RowHolds DEF Promise!Perform, Executing

(* An exception gives the slot up, if the call had it, or refuses the call.*)
LEMMA RaiseImplements ==
  ASSUME LadderInv, LadderInv', NEW a \in Attempts, Active(a),
         NEW code \in Refusals \cup Failures, Raise(a, code),
         UNCHANGED <<req, committed>>,
         \/ effects' = effects
         \/ HasRow(a) /\ effects' = effects \cup {a}
  PROVE  Promise!Abandon(a) \/ Promise!Refuse(a)
<1>1. /\ \A b \in Attempts \ {a} : Alone(b)
      /\ pc'[a] = "done" /\ answer'[a] = [code |-> code] /\ ~HasRow(a)'
  BY DEF Raise, Goto, Alone, HasRow, LadderInv, TypeOK
<1>2. pc[a] # "idle" /\ Promise!Open(a) /\ Promise!Slot(a) = SlotOf(a)
      /\ SlotOf(a) \in Tenants \X Keys
  BY OpenAsked
<1>3. a \notin committed
  BY CommittedRow DEF Active, Steps
<1>4. Asked' = Asked
  BY <1>1, <1>2, OtherParts
<1>5. Told' = [Told EXCEPT ![a] = Error]
  <2>1. answer'[a].code # "OK"
    BY <1>1 DEF Refusals, Failures
  <2> QED
    BY <1>1, <2>1, OtherParts
<1>6. CASE HasRow(a)
  <2>1. Promise!Holds(a) /\ SettledBy[SlotOf(a)] = None
    BY <1>3, <1>6, RowHolds
  <2>2. /\ HolderOf' = [HolderOf EXCEPT ![SlotOf(a)] = HolderOf'[SlotOf(a)]]
        /\ SettledBy' = [SettledBy EXCEPT ![SlotOf(a)] = SettledBy'[SlotOf(a)]]
    BY <1>1, <1>2, OtherSlots
  <2>3. HolderOf'[SlotOf(a)] = None /\ SettledBy'[SlotOf(a)] = None
    <3>1. ASSUME NEW b \in Attempts, b # a, HasRow(b) \/ b \in committed
          PROVE  ~InSlot(b, SlotOf(a))
      <4>1. HasRow(b)
        BY <3>1, RowsBegun
      <4>2. ~SameKey(a, b)
        BY <1>6, <3>1, <4>1 DEF LadderInv, OneApprovalPerKey
      <4> QED
        BY <4>2 DEF SameKey, InSlot, SlotOf
    <3>2. committed \subseteq Attempts
      BY DEF LadderInv, TypeOK
    <3>3. {b \in Attempts \ committed' : HasRow(b)' /\ InSlot(b, SlotOf(a))'} = {}
      BY <1>1, <3>1 DEF InSlot, HasRow, SlotOf, Alone
    <3>4. {b \in committed' : InSlot(b, SlotOf(a))'} = {}
      BY <1>1, <1>3, <3>1, <3>2 DEF InSlot, SlotOf, Alone
    <3>5. SlotOf(a)' = SlotOf(a)
      BY DEF SlotOf
    <3> QED
      BY <1>2, <3>3, <3>4, <3>5, TheOne DEF HolderOf, SettledBy, InSlot
  <2>4. SettledBy' = SettledBy
    BY <2>1, <2>2, <2>3 DEF SettledBy
  <2>5. effects' \in {effects, effects \cup {a}}
    OBVIOUS
  <2> QED
    BY <1>2, <1>4, <1>5, <2>1, <2>2, <2>3, <2>4, <2>5 DEF Promise!Abandon
<1>7. CASE ~HasRow(a)
  <2>1. HolderOf' = HolderOf /\ SettledBy' = SettledBy
    BY <1>1, <1>3, <1>7, SlotsKept
  <2>2. ~Promise!Holds(a)
    BY <1>2, <1>7, HolderHasRow DEF Promise!Holds
  <2>3. effects' = effects
    BY <1>7
  <2> QED
    BY <1>2, <1>4, <1>5, <2>1, <2>2, <2>3 DEF Promise!Refuse
<1> QED
  BY <1>6, <1>7

(* A commit settles the slot of the call's own row, answers with the       *)
(* committed approval of its key, or loses the answer.                     *)
LEMMA CommitImplements ==
  ASSUME LadderInv, LadderInv', NEW a \in Attempts, Commit(a)
  PROVE  Promise!Settle(a) \/ Promise!Replay(a) \/ Promise!Refuse(a)
<1>1. /\ \A b \in Attempts \ {a} : Alone(b)
      /\ pc'[a] = "done" /\ req' = req /\ approval' = approval /\ effects' = effects
      /\ answer'[a] \in {answer[a], [code |-> "LOST"]}
  BY DEF Commit, Goto, Alone, LadderInv, TypeOK
<1>2. Active(a) /\ a \notin committed
  BY DEF Commit, Active, Steps, LadderInv, RowFollowsStep
<1>3. /\ pc[a] # "idle" /\ Promise!Open(a) /\ Promise!Slot(a) = SlotOf(a)
      /\ SlotOf(a) \in Tenants \X Keys /\ req[a] \in Requests
  BY <1>2, OpenAsked
<1>4. Asked' = Asked
  BY <1>1, <1>3, OtherParts
<1>5. ASSUME NEW w, answer[a].code = "OK", answer[a].approval = w
      PROVE  \E r \in {w, Error} : Told' = [Told EXCEPT ![a] = r]
  <2>1. Told'[a] \in {w, Error}
    BY <1>1, <1>5, OtherParts
  <2>2. Told' = [Told EXCEPT ![a] = Told'[a]]
    BY <1>1, OtherParts
  <2> QED
    BY <2>1, <2>2
<1>6. CASE Executed(a) /\ AnswersOwn(a)
  <2>1. HasRow(a)
    BY <1>3, <1>6, RowsExist
  <2>2. committed' = committed \cup {a} /\ HasRow(a)' /\ SlotOf(a)' = SlotOf(a)
    BY <1>1, <2>1 DEF Commit, HasRow, SlotOf
  <2>3. HolderOf'[SlotOf(a)] = None /\ SettledBy'[SlotOf(a)] = a
    BY <2>2, OwnSlotNext
  <2>4. /\ HolderOf' = [HolderOf EXCEPT ![SlotOf(a)] = None]
        /\ SettledBy' = [SettledBy EXCEPT ![SlotOf(a)] = a]
    BY <1>1, <1>3, <2>3, OtherSlots
  <2>5. Promise!Holds(a) /\ a \in effects
    BY <1>2, <1>6, <2>1, RowHolds DEF Executed
  <2>6. \E r \in {a, Error} : Told' = [Told EXCEPT ![a] = r]
    BY <1>5, <1>6 DEF AnswersOwn
  <2> QED
    BY <1>1, <1>3, <1>4, <2>4, <2>5, <2>6 DEF Promise!Settle
<1>7. CASE Untouched(a) /\ AnswersReplay(a)
  <2>1. ~HasRow(a) /\ committed' = committed /\ ~HasRow(a)'
    BY <1>1, <1>7 DEF Untouched, Commit, HasRow
  <2>2. HolderOf' = HolderOf /\ SettledBy' = SettledBy
    BY <1>1, <2>1, SlotsKept
  <2>3. PICK b \in Winners(a) :
          /\ req[b].preview = req[a].preview
          /\ answer[a] = [code |-> "OK", approval |-> b, cost |-> approval[b].cost]
    BY <1>7 DEF AnswersReplay
  <2>4. b \in committed /\ b \in Attempts /\ SlotOf(b) = SlotOf(a) /\ pc[b] # "idle"
    BY CommittedRow DEF Winners, SameKey, SlotOf
  <2>5. SettledBy[SlotOf(a)] = b
    BY <2>4, RowsBegun, OwnSlot
  <2>6. Asked[b] = Asked[a] /\ b # None
    BY <1>3, <2>3, <2>4, Begun, ErrorAssumption
  <2>7. ~Promise!Holds(a)
    BY <1>3, <2>1, HolderHasRow DEF Promise!Holds
  <2>8. PICK r \in {b, Error} : Told' = [Told EXCEPT ![a] = r]
    BY <1>5, <2>3
  <2>9. CASE r = b
    BY <1>1, <1>3, <1>4, <2>2, <2>5, <2>6, <2>8, <2>9 DEF Promise!Replay
  <2>10. CASE r = Error
    BY <1>1, <1>3, <1>4, <2>2, <2>7, <2>8, <2>10 DEF Promise!Refuse
  <2> QED
    BY <2>8, <2>9, <2>10
<1> QED
  BY <1>6, <1>7 DEF Commit, LadderInv, RowFollowsStep

(* Statements before and after the dispatch that end nothing are not seen. *)
LEMMA StatementHidden ==
  ASSUME LadderInv, LadderInv', NEW a \in Attempts,
         \/ LookupMiss(a) \/ LookupReplay(a) \/ LoadPreview(a) \/ PassBudget(a)
         \/ WaitForHolder(a) \/ Finalize(a) \/ WriteCard(a)
  PROVE  UNCHANGED Promise!vars
<1>1. /\ \A b \in Attempts \ {a} : Alone(b)
      /\ req' = req /\ committed' = committed /\ effects' = effects
      /\ Active(a) /\ pc'[a] \in Steps
  BY DEF LookupMiss, LookupReplay, LoadPreview, PassBudget, WaitForHolder, Finalize,
         WriteCard, Goto, Returns, Alone, Active, Steps, LadderInv, TypeOK
<1>2. pc[a] # "idle" /\ pc[a] # "done" /\ req[a] \in Requests
  BY <1>1, OpenAsked
<1>3. HasRow(a)' = HasRow(a)
  <2>1. CASE Finalize(a)
    <3>1. Executing(a) /\ Executed(a)' /\ req'[a] \in Requests
      BY <1>1, <1>2, <2>1 DEF Finalize, Goto, LadderInv, TypeOK, RowFollowsStep
    <3>2. HasRow(a)
      BY <1>2, <3>1, RowsExist
    <3>3. Stored(req'[a].cost) \in Amount
      BY <3>1, StoredBounds, RequestAssumption DEF Request
    <3>4. HasRow(a)'
      BY <3>1, <3>3, NoneAssumption DEF Executed, ApprovalRow, HasRow
    <3> QED
      BY <3>2, <3>4 DEF HasRow
  <2>2. CASE ~Finalize(a)
    BY <2>2 DEF LookupMiss, LookupReplay, LoadPreview, PassBudget, WaitForHolder,
                WriteCard, HasRow
  <2> QED
    BY <2>1, <2>2
<1>4. HolderOf' = HolderOf /\ SettledBy' = SettledBy
  BY <1>1, <1>3, SlotsKept
<1>5. Asked' = Asked /\ Told' = Told
  BY <1>1, <1>2, OtherParts DEF Steps
<1> QED
  BY <1>1, <1>4, <1>5 DEF Promise!vars

(* Nothing of it depends on the clock, on previews or on bills.            *)
LEMMA OutsideHidden ==
  UNCHANGED ladder => UNCHANGED Promise!vars
BY DEF ladder, Promise!vars, Asked, HolderOf, SettledBy, Told, HasRow, InSlot

(* The calls that raise.                                                   *)
LEMMA FailureImplements ==
  ASSUME LadderInv, LadderInv', NEW a \in Attempts,
         \/ LookupConflict(a) \/ RefusePreview(a) \/ FailBudget(a) \/ RefuseInsert(a)
         \/ DispatchRaises(a) \/ RefuseCard(a) \/ Crash(a)
  PROVE  Promise!Abandon(a) \/ Promise!Refuse(a)
<1>1. Active(a) /\ UNCHANGED <<req, committed>>
  BY DEF LookupConflict, RefusePreview, FailBudget, RefuseInsert, DispatchRaises,
         RefuseCard, Crash, Active, Steps
<1>2. PICK code \in Refusals \cup Failures : Raise(a, code)
  BY DEF LookupConflict, RefusePreview, FailBudget, RefuseInsert, DispatchRaises,
         RefuseCard, Crash, Refusals, Failures
<1>3. \/ effects' = effects
      \/ HasRow(a) /\ effects' = effects \cup {a}
  <2>1. CASE DispatchRaises(a)
    <3>1. Executing(a) /\ req[a] \in Requests
      BY <1>1, <2>1, OpenAsked DEF DispatchRaises, LadderInv, RowFollowsStep
    <3>2. HasRow(a)
      BY <3>1, RowsExist
    <3> QED
      BY <2>1, <3>2 DEF DispatchRaises
  <2>2. CASE ~DispatchRaises(a)
    BY <2>2 DEF LookupConflict, RefusePreview, FailBudget, RefuseInsert, RefuseCard, Crash
  <2> QED
    BY <2>1, <2>2
<1> QED
  BY <1>1, <1>2, <1>3, RaiseImplements

(* Every step maps to a step of the promise or to a stutter.               *)
LEMMA NextImplements ==
  ASSUME LadderInv, [Next]_vars
  PROVE  [Promise!Next]_(Promise!vars)
<1>1. LadderInv'
  BY LadderNext
<1>2. CASE UNCHANGED ladder
  BY <1>2, OutsideHidden
<1>3. ASSUME NEW a \in Attempts, Begin(a) \/ Step(a) \/ Crash(a)
      PROVE  [Promise!Next]_(Promise!vars)
  <2>1. \/ UNCHANGED Promise!vars
        \/ Promise!Arrive(a) \/ Promise!Acquire(a) \/ Promise!Perform(a)
        \/ Promise!Settle(a) \/ Promise!Abandon(a) \/ Promise!Replay(a)
        \/ Promise!Refuse(a)
    BY <1>1, <1>3, StatementHidden, BeginImplements, InsertImplements,
       DispatchImplements, CommitImplements, FailureImplements DEF Step
  <2> QED
    BY <2>1 DEF Promise!Next
<1> QED
  BY <1>2, <1>3 DEF Next, vars, PricePreview, StorePreview, LosePreview, BillLater, Tick

(* At the start nothing is asked, held or settled.                         *)
LEMMA InitImplements == Init => Promise!Init
<1> SUFFICES ASSUME Init PROVE Promise!Init
  OBVIOUS
<1>1. Asked = [a \in Attempts |-> None] /\ Told = [a \in Attempts |-> None]
  BY DEF Init, Asked, Told
<1>2. ASSUME NEW s \in Tenants \X Keys
      PROVE  HolderOf[s] = None /\ SettledBy[s] = None
  <2>1. InFlight(s) = {} /\ Lasting(s) = {}
    BY DEF Init, InFlight, Lasting, HasRow
  <2> QED
    BY <2>1, TheOne DEF HolderOf, SettledBy, InFlight, Lasting
<1>3. /\ HolderOf = [s \in Tenants \X Keys |-> None]
      /\ SettledBy = [s \in Tenants \X Keys |-> None]
  BY <1>2 DEF HolderOf, SettledBy
<1> QED
  BY <1>1, <1>3 DEF Init, Promise!Init

(* Every behaviour of the ladder over its tables, transactions, prices and *)
(* faults is one of IdempotentExecution: a tenant's key is executed by one *)
(* call at a time, settled for good by at most one, and every call that is *)
(* answered OK is told of that one, executed for the same preview.         *)
THEOREM LadderKeepsPromise == Spec => ImplementsPromise
<1>1. LadderInv /\ [Next]_vars => [Promise!Next]_(Promise!vars)
  BY NextImplements
<1> QED
  BY InitImplements, LadderInvariant, <1>1, PTL DEF Spec, ImplementsPromise, Promise!Spec

=============================================================================
