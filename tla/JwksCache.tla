------------------------------ MODULE JwksCache ------------------------------
(***************************************************************************)
(* TokenVerifier.verify() in supabase mode over the JwksCache of one       *)
(* process (core/security.py): concurrent requests share one cached key    *)
(* document, one asyncio.Lock guards its refresh, and the identity         *)
(* provider rotates its keys meanwhile.                                    *)
(*                                                                         *)
(* Coroutines switch at awaits only, so an action is what one call does    *)
(* between two awaits: the fast path and, when the lock is free, taking    *)
(* it, checking again and sending the request are one step.                *)
(***************************************************************************)
EXTENDS Integers, SequencesExt, FiniteSets

CONSTANTS Calls,         \* identities of verify() calls
          Kids,          \* key identifiers the provider may publish
          FirstKids,     \* those it publishes when the process starts
          Tokens,        \* the tokens clients present
          TTL,           \* ttl_seconds: ten minutes
          FetchTimeout,  \* how long one fetch may take: httpx's timeout
          MaxClock,      \* bound on the clock
          None

Token == [rs256 : BOOLEAN, kid : Kids, claims : {"valid", "expired", "invalid"}]

ASSUME TokenAssumption == Tokens \subseteq Token
ASSUME TimeAssumption == TTL \in Nat /\ FetchTimeout \in Nat /\ MaxClock \in Nat
ASSUME CallAssumption == IsFiniteSet(Calls) /\ None \notin Calls \cup Tokens

VARIABLES
  clock,      \* time.monotonic()
  published,  \* the provider's keys: since when, and until when
  keys,       \* _keys
  expires,    \* _expires_at
  lock,       \* the call that holds _lock
  queue,      \* the calls that wait for it, first come first served
  pc,         \* where a call is suspended
  token,      \* what it was asked to verify
  since,      \* when it began to wait or to fetch
  document,   \* what the provider answered to its fetch
  verdict     \* what verify() returned or raised

cache == <<keys, expires>>
vars  == <<clock, published, keys, expires, lock, queue, pc, token, since,
           document, verdict>>

Codes == {"OK", "TOKEN_EXPIRED", "UNKNOWN_KEY", "UNAUTHENTICATED", "CANCELLED"}
Forever == MaxClock + 1

TypeOK ==
  /\ clock \in 0..MaxClock
  /\ published \in [Kids -> [from : 0..Forever, until : 0..Forever]]
  /\ keys \subseteq Kids
  /\ expires \in 0..MaxClock + TTL
  /\ lock \in Calls \cup {None}
  /\ queue \in Seq(Calls)
  /\ pc \in [Calls -> {"idle", "waiting", "fetching", "done"}]
  /\ token \in [Calls -> Tokens \cup {None}]
  /\ since \in [Calls -> 0..MaxClock]
  /\ document \in [Calls -> (SUBSET Kids) \cup {None}]
  /\ verdict \in [Calls -> Codes \cup {None}]

Published(k) == published[k].from <= clock /\ clock < published[k].until

Init ==
  /\ clock = 0
  /\ published = [k \in Kids |->
       [from |-> IF k \in FirstKids THEN 0 ELSE Forever, until |-> Forever]]
  /\ keys = {} /\ expires = 0
  /\ lock = None /\ queue = <<>>
  /\ pc = [v \in Calls |-> "idle"]
  /\ token = [v \in Calls |-> None]
  /\ since = [v \in Calls |-> 0]
  /\ document = [v \in Calls |-> None]
  /\ verdict = [v \in Calls |-> None]

-----------------------------------------------------------------------------
(* Mutant of Fresh: a document once fetched is kept.                       *)
Loaded == keys # {}

(* The key document is used while it is younger than the TTL.              *)
Fresh == clock < expires /\ keys # {}

(* Past the key lookup: jwt.decode() checks the signature and the claims.  *)
Judge(t, ks) ==
  CASE t.kid \notin ks        -> "UNKNOWN_KEY"
    [] t.claims = "expired"   -> "TOKEN_EXPIRED"
    [] t.claims = "invalid"   -> "UNAUTHENTICATED"
    [] OTHER                  -> "OK"

Ends(v, code) ==
  /\ pc' = [pc EXCEPT ![v] = "done"]
  /\ verdict' = [verdict EXCEPT ![v] = code]
  /\ since' = [since EXCEPT ![v] = 0]
  /\ document' = [document EXCEPT ![v] = None]

StartsFetch(v) ==
  /\ lock' = v
  /\ pc' = [pc EXCEPT ![v] = "fetching"]
  /\ since' = [since EXCEPT ![v] = clock]

(* verify() up to its first await.                                         *)
Refuse(v) ==
  /\ pc[v] = "idle"
  /\ \E t \in Tokens : ~t.rs256 /\ token' = [token EXCEPT ![v] = t]
  /\ Ends(v, "UNAUTHENTICATED")
  /\ UNCHANGED <<clock, published, cache, lock, queue>>

Hit(v) ==
  /\ pc[v] = "idle" /\ Fresh
  /\ \E t \in Tokens :
       t.rs256 /\ token' = [token EXCEPT ![v] = t] /\ Ends(v, Judge(t, keys))
  /\ UNCHANGED <<clock, published, cache, lock, queue>>

(* Mutant of Miss: a lock that is free is taken past those who wait for it.*)
MissBarges(v) ==
  /\ pc[v] = "idle" /\ ~Fresh
  /\ \E t \in Tokens : t.rs256 /\ token' = [token EXCEPT ![v] = t]
  /\ IF lock = None
     THEN StartsFetch(v) /\ UNCHANGED queue
     ELSE /\ queue' = Append(queue, v)
          /\ pc' = [pc EXCEPT ![v] = "waiting"]
          /\ since' = [since EXCEPT ![v] = clock]
          /\ UNCHANGED lock
  /\ UNCHANGED <<clock, published, cache, document, verdict>>

Miss(v) ==
  /\ pc[v] = "idle" /\ ~Fresh
  /\ \E t \in Tokens : t.rs256 /\ token' = [token EXCEPT ![v] = t]
  /\ IF lock = None /\ queue = <<>>
     THEN StartsFetch(v) /\ UNCHANGED queue
     ELSE /\ queue' = Append(queue, v)
          /\ pc' = [pc EXCEPT ![v] = "waiting"]
          /\ since' = [since EXCEPT ![v] = clock]
          /\ UNCHANGED lock
  /\ UNCHANGED <<clock, published, cache, document, verdict>>

(* The lock is handed to the first waiter, which checks again.             *)
MayWake(v) == lock = None /\ queue # <<>> /\ Head(queue) = v

WakeToHit(v) ==
  /\ MayWake(v) /\ Fresh
  /\ queue' = Tail(queue)
  /\ Ends(v, Judge(token[v], keys))
  /\ UNCHANGED <<clock, published, cache, lock, token>>

(* Mutant of WakeToFetch: no second check under the lock.                  *)
WakeWithoutCheck(v) ==
  /\ MayWake(v)
  /\ queue' = Tail(queue)
  /\ StartsFetch(v)
  /\ UNCHANGED <<clock, published, cache, token, document, verdict>>

WakeToFetch(v) ==
  /\ MayWake(v) /\ ~Fresh
  /\ queue' = Tail(queue)
  /\ StartsFetch(v)
  /\ UNCHANGED <<clock, published, cache, token, document, verdict>>

-----------------------------------------------------------------------------
(* The provider reads its keys at one instant; the answer arrives later.   *)
ProviderAnswers(v) ==
  /\ pc[v] = "fetching" /\ document[v] = None
  /\ document' = [document EXCEPT ![v] = {k \in Kids : Published(k)}]
  /\ UNCHANGED <<clock, published, cache, lock, queue, pc, token, since, verdict>>

(* Mutant of Store: a fresh document is granted the fetch time as well.    *)
StoreWithGrace(v) ==
  /\ pc[v] = "fetching"
  /\ document[v] \notin {None, {}}
  /\ keys' = document[v]
  /\ expires' = clock + TTL + FetchTimeout
  /\ lock' = None
  /\ Ends(v, Judge(token[v], document[v]))
  /\ UNCHANGED <<clock, published, queue, token>>

Store(v) ==
  /\ pc[v] = "fetching"
  /\ document[v] \notin {None, {}}
  /\ keys' = document[v]
  /\ expires' = clock + TTL
  /\ lock' = None
  /\ Ends(v, Judge(token[v], document[v]))
  /\ UNCHANGED <<clock, published, queue, token>>

(* An HTTP error, a timeout, a malformed document or one without keys.     *)
FetchFails(v) ==
  /\ pc[v] = "fetching"
  /\ lock' = None
  /\ Ends(v, "UNAUTHENTICATED")
  /\ UNCHANGED <<clock, published, cache, queue, token>>

LeavesQueue(v) == \E i \in DOMAIN queue : queue[i] = v /\ queue' = RemoveAt(queue, i)

(* Mutant of Cancel: the lock is not released on cancellation.             *)
CancelKeepsLock(v) ==
  /\ \/ pc[v] = "waiting" /\ LeavesQueue(v)
     \/ pc[v] = "fetching" /\ UNCHANGED queue
  /\ Ends(v, "CANCELLED")
  /\ UNCHANGED <<clock, published, cache, lock, token>>

(* The client hangs up: the call is cancelled at its await.                *)
Cancel(v) ==
  /\ \/ pc[v] = "waiting" /\ LeavesQueue(v) /\ UNCHANGED lock
     \/ pc[v] = "fetching" /\ lock' = None /\ UNCHANGED queue
  /\ Ends(v, "CANCELLED")
  /\ UNCHANGED <<clock, published, cache, token>>

-----------------------------------------------------------------------------
(* Keys come and go once each.                                             *)
Publish(k) ==
  /\ published[k].from = Forever
  /\ published' = [published EXCEPT ![k].from = clock]
  /\ UNCHANGED <<clock, cache, lock, queue, pc, token, since, document, verdict>>

Retire(k) ==
  /\ Published(k)
  /\ published' = [published EXCEPT ![k].until = clock]
  /\ UNCHANGED <<clock, cache, lock, queue, pc, token, since, document, verdict>>

(* A fetch ends within its timeout, and a free lock is handed over at once.*)
Tick ==
  /\ clock < MaxClock
  /\ \A v \in Calls : pc[v] = "fetching" => clock < since[v] + FetchTimeout
  /\ lock = None => queue = <<>>
  /\ clock' = clock + 1
  /\ UNCHANGED <<published, cache, lock, queue, pc, token, since, document, verdict>>

Next ==
  \/ \E v \in Calls :
       \/ Refuse(v) \/ Hit(v) \/ Miss(v) \/ WakeToHit(v) \/ WakeToFetch(v)
       \/ ProviderAnswers(v) \/ Store(v) \/ FetchFails(v) \/ Cancel(v)
  \/ \E k \in Kids : Publish(k) \/ Retire(k)
  \/ Tick

Spec == Init /\ [][Next]_vars

-----------------------------------------------------------------------------
(* A token is accepted only by a key that the provider still published     *)
(* less than a TTL and a fetch ago, and refused for its key only if the    *)
(* provider had not published it for as long: whatever fetches overlap     *)
(* the rotation, fail, or are abandoned.                                   *)
Window == TTL + FetchTimeout
VerdictsFollowProvider ==
  [][\A v \in Calls : verdict'[v] # verdict[v] =>
       LET k == published[token'[v].kid]
       IN  /\ verdict'[v] = "OK" => k.from <= clock /\ clock <= k.until + Window
           /\ verdict'[v] = "UNKNOWN_KEY" =>
                clock <= k.from + Window \/ k.until <= clock]_vars

(* A call waits behind at most one timed-out fetch of every other call: a  *)
(* provider outage is a convoy, not a deadlock.                            *)
ConvoyBounded ==
  \A v \in Calls :
    pc[v] = "waiting" => clock - since[v] <= (Cardinality(Calls) - 1) * FetchTimeout

(* When the lock comes free at the latest, and when the call at place i of *)
(* its queue has it: after a timeout more for each call before it.         *)
Handover == IF lock = None THEN clock ELSE since[lock] + FetchTimeout
Due(i) == Handover + (i - 1) * FetchTimeout

(* A place in the queue is a promise: a call behind n others, the fetching *)
(* one included, has the lock n timeouts later at most.  No later call, no *)
(* cancellation and no failure puts that off.                              *)
PlacesAreKept ==
  [][\A i \in DOMAIN queue :
       /\ clock' <= Due(i)
       /\ \A j \in DOMAIN queue' : queue'[j] = queue[i] => Due(j)' <= Due(i)]_vars

(* A fetch that succeeds serves every call until it expires: none begins   *)
(* while the document is fresh, and never two at a time.                   *)
SingleFlight ==
  [][\A v \in Calls :
       pc[v] # "fetching" /\ pc'[v] = "fetching" =>
         /\ ~Fresh
         /\ \A w \in Calls : pc[w] # "fetching"]_vars

-----------------------------------------------------------------------------
(* The inductive invariant behind these properties.                        *)

(* ks is what the provider published at instant t, a key that came or went *)
(* in that instant counting as either.                                     *)
AsPublished(ks, t) ==
  \A k \in Kids :
    IF k \in ks THEN published[k].from <= t /\ t <= published[k].until
                ELSE t <= published[k].from \/ published[k].until <= t

(* The queue holds the waiting calls, once each; the fetching call is the  *)
(* one that holds the lock.                                                *)
LockInOrder ==
  /\ \A v \in Calls : pc[v] = "waiting" <=> \E i \in DOMAIN queue : queue[i] = v
  /\ \A i, j \in DOMAIN queue : queue[i] = queue[j] => i = j
  /\ \A v \in Calls : pc[v] = "fetching" <=> lock = v

(* A call that awaits has a token and, if it fetches, a timeout ahead.     *)
Awaiting(v) ==
  /\ pc[v] \in {"waiting", "fetching"} => token[v] \in Tokens /\ since[v] <= clock
  /\ pc[v] = "fetching" => clock <= since[v] + FetchTimeout

(* A document is the provider's at an instant of its fetch; the cached one *)
(* was so a fetch before it was stored, or later.                          *)
Answered(v) ==
  document[v] # None =>
    pc[v] = "fetching" /\ \E t \in since[v]..clock : AsPublished(document[v], t)
CachedOnce ==
  keys # {} =>
    \E t \in 0..clock : expires - Window <= t /\ AsPublished(keys, t)

(* The fetches a call has waited for belong to calls that are done.        *)
Done == {v \in Calls : pc[v] = "done"}
Served == Cardinality(Done) * FetchTimeout
Overdue(v) ==
  pc[v] = "waiting" => (IF lock = None THEN clock ELSE since[lock]) - since[v] <= Served

CacheInv ==
  /\ TypeOK /\ LockInOrder /\ CachedOnce
  /\ \A v \in Calls : Awaiting(v) /\ Answered(v) /\ Overdue(v)

=============================================================================
