---------------------------- MODULE TenantStore ----------------------------
(***************************************************************************)
(* What /v1/locations promises its clients, without connections, tenant    *)
(* settings, transactions, locks and waits: a table of rows, each named by *)
(* its tenant and slug, that changes by whole creates and whole patches,   *)
(* each at the moment its call is answered.                                *)
(*                                                                         *)
(* A patch is two moments: it reads its row, and of the columns it         *)
(* supplies it later writes those that differed then.                      *)
(***************************************************************************)
EXTENDS Naturals

CONSTANTS Calls, Names, Columns, Asks, None,
          NameOf(_),    \* the row a call names
          Valid(_)      \* constraint on a stored row

VARIABLES
  table,  \* the rows
  ask,    \* what a call asks
  read,   \* the row it named, as it has read it
  reply   \* "OK", "REFUSED", or "LOST" when the client cannot know

vars == <<table, ask, read, reply>>

Init ==
  /\ \A n \in Names : table[n] = None \/ Valid(table[n])
  /\ ask = [c \in Calls |-> None]
  /\ read = [c \in Calls |-> None]
  /\ reply = [c \in Calls |-> None]

Open(c) == ask[c] # None /\ reply[c] = None
Says(c, words) ==
  /\ \E word \in words : reply' = [reply EXCEPT ![c] = word]
  /\ UNCHANGED <<ask, read>>

Asking(c) ==
  /\ ask[c] = None
  /\ \E q \in Asks : ask' = [ask EXCEPT ![c] = q]
  /\ reply' = reply \/ reply' = [reply EXCEPT ![c] = "REFUSED"]
  /\ UNCHANGED <<table, read>>

Reads(c) ==
  /\ Open(c) /\ ask[c].kind \in {"get", "patch"} /\ table[NameOf(ask[c])] # None
  /\ read' = [read EXCEPT ![c] = table[NameOf(ask[c])]]
  /\ UNCHANGED <<table, ask, reply>>

(* A name is created once, and never overwritten by a create.              *)
Creates(c) ==
  /\ Open(c) /\ ask[c].kind = "create" /\ table[NameOf(ask[c])] = None
  /\ LET supplied == ask[c].values
         row == [k \in Columns |-> IF k \in DOMAIN supplied THEN supplied[k] ELSE None]
     IN  Valid(row) /\ table' = [table EXCEPT ![NameOf(ask[c])] = row]
  /\ Says(c, {"OK", "LOST"})

(* What was supplied and differed replaces the row's value of the moment,  *)
(* the rest stays as others left it.                                       *)
Differs(c) ==
  {k \in DOMAIN ask[c].values : read[c] # None /\ ask[c].values[k] # read[c][k]}
Patches(c) ==
  /\ Open(c) /\ ask[c].kind = "patch" /\ Differs(c) # {}
  /\ LET old == table[NameOf(ask[c])]
         new == [k \in Columns |-> IF k \in Differs(c) THEN ask[c].values[k] ELSE old[k]]
     IN  Valid(new) /\ table' = [table EXCEPT ![NameOf(ask[c])] = new]
  /\ Says(c, {"OK", "LOST"})

(* Only a call with nothing to write is answered OK without a write.       *)
Answers(c) ==
  /\ Open(c)
  /\ \/ ask[c].kind \in {"list", "ready"}
     \/ ask[c].kind = "get" /\ read[c] # None
     \/ ask[c].kind = "patch" /\ read[c] # None /\ Differs(c) = {}
  /\ UNCHANGED table
  /\ Says(c, {"OK", "LOST"})

Fails(c) ==
  /\ Open(c)
  /\ UNCHANGED table
  /\ Says(c, {"REFUSED", "LOST"})

Next ==
  \E c \in Calls :
    \/ Asking(c) \/ Reads(c) \/ Creates(c) \/ Patches(c) \/ Answers(c) \/ Fails(c)

Spec == Init /\ [][Next]_vars

=============================================================================
