------------------------ MODULE IdempotentExecution ------------------------
(***************************************************************************)
(* What the ladder promises a client, with no table, transaction or price  *)
(* in it: each slot (a tenant and an idempotency key) is executed by one   *)
(* call at a time, is settled by at most one of them for good, and every   *)
(* call that is answered OK is told the settled call of its slot, settled  *)
(* for the same subject.                                                   *)
(***************************************************************************)
CONSTANTS Calls, Slots, Subjects, None, Error

VARIABLES
  ask,      \* the slot and the subject (the preview) a call asks for
  running,  \* the call that holds a slot
  effects,  \* calls whose side effect happened
  settled,  \* the call that settled a slot
  reply     \* the settled call a client was told of, or Error

vars == <<ask, running, effects, settled, reply>>

Ask == [slot : Slots, subject : Subjects]

TypeOK ==
  /\ ask \in [Calls -> Ask \cup {None}]
  /\ running \in [Slots -> Calls \cup {None}]
  /\ effects \subseteq Calls
  /\ settled \in [Slots -> Calls \cup {None}]
  /\ reply \in [Calls -> Calls \cup {None, Error}]

Init ==
  /\ ask = [c \in Calls |-> None]
  /\ running = [s \in Slots |-> None]
  /\ effects = {}
  /\ settled = [s \in Slots |-> None]
  /\ reply = [c \in Calls |-> None]

Open(c) == ask[c] # None /\ reply[c] = None
Slot(c) == ask[c].slot
Holds(c) == Open(c) /\ running[Slot(c)] = c

Arrive(c) ==
  /\ ask[c] = None
  /\ \E q \in Ask : ask' = [ask EXCEPT ![c] = q]
  /\ UNCHANGED <<running, effects, settled, reply>>

Acquire(c) ==
  /\ Open(c)
  /\ running[Slot(c)] = None /\ settled[Slot(c)] = None
  /\ running' = [running EXCEPT ![Slot(c)] = c]
  /\ UNCHANGED <<ask, effects, settled, reply>>

Perform(c) ==
  /\ Holds(c) /\ c \notin effects
  /\ effects' = effects \cup {c}
  /\ UNCHANGED <<ask, running, settled, reply>>

(* The call settles its slot; its answer may be lost on the way.           *)
Settle(c) ==
  /\ Holds(c) /\ c \in effects
  /\ settled' = [settled EXCEPT ![Slot(c)] = c]
  /\ running' = [running EXCEPT ![Slot(c)] = None]
  /\ \E r \in {c, Error} : reply' = [reply EXCEPT ![c] = r]
  /\ UNCHANGED <<ask, effects>>

(* The call gives up its slot, at the latest right after its side effect.  *)
Abandon(c) ==
  /\ Holds(c)
  /\ running' = [running EXCEPT ![Slot(c)] = None]
  /\ effects' \in {effects, effects \cup {c}}
  /\ reply' = [reply EXCEPT ![c] = Error]
  /\ UNCHANGED <<ask, settled>>

Replay(c) ==
  /\ Open(c) /\ settled[Slot(c)] # None
  /\ ask[settled[Slot(c)]] = ask[c]
  /\ reply' = [reply EXCEPT ![c] = settled[Slot(c)]]
  /\ UNCHANGED <<ask, running, effects, settled>>

Refuse(c) ==
  /\ Open(c) /\ ~Holds(c)
  /\ reply' = [reply EXCEPT ![c] = Error]
  /\ UNCHANGED <<ask, running, effects, settled>>

Next ==
  \E c \in Calls :
    \/ Arrive(c) \/ Acquire(c) \/ Perform(c) \/ Settle(c)
    \/ Abandon(c) \/ Replay(c) \/ Refuse(c)

Spec == Init /\ [][Next]_vars

=============================================================================
