--------------------------- MODULE JwksCacheProofs ---------------------------
(* Safety of the JWKS cache for any number of calls and keys, any TTL,     *)
(* timeout and length of the run.                                          *)
EXTENDS JwksCache, SequenceTheorems, FiniteSetTheorems, TLAPS

(***************************************************************************)
(* The queue of the lock.                                                  *)
(***************************************************************************)

(* What RemoveAt leaves: the other elements, in their order.               *)
LEMMA RemoveAtShape ==
  ASSUME NEW S, NEW q \in Seq(S), NEW i \in DOMAIN q
  PROVE  /\ RemoveAt(q, i) \in Seq(S)
         /\ Len(RemoveAt(q, i)) = Len(q) - 1
         /\ \A j \in 1 .. Len(q) - 1 :
              RemoveAt(q, i)[j] = IF j < i THEN q[j] ELSE q[j + 1]
<1> DEFINE a == SubSeq(q, 1, i - 1)
           b == SubSeq(q, i + 1, Len(q))
<1>1. i \in 1 .. Len(q) /\ Len(q) \in Nat
  OBVIOUS
<1>2. a \in Seq(S) /\ Len(a) = i - 1 /\ \A j \in 1 .. i - 1 : a[j] = q[j]
  BY <1>1
<1>3. b \in Seq(S) /\ Len(b) = Len(q) - i /\ \A j \in 1 .. Len(q) - i : b[j] = q[i + j]
  BY <1>1
<1> HIDE DEF a, b
<1>4. /\ a \o b \in Seq(S) /\ Len(a \o b) = Len(q) - 1
      /\ \A j \in 1 .. Len(q) - 1 : (a \o b)[j] = IF j < i THEN a[j] ELSE b[j - (i - 1)]
  <2>1. /\ a \o b \in Seq(S) /\ Len(a \o b) = Len(a) + Len(b)
        /\ \A j \in 1 .. Len(a) + Len(b) :
             (a \o b)[j] = IF j <= Len(a) THEN a[j] ELSE b[j - Len(a)]
    <3>1. a \in Seq(S) /\ b \in Seq(S)
      BY <1>2, <1>3
    <3> QED
      BY ONLY <3>1, ConcatProperties, Zenon
  <2>2. Len(a) = i - 1 /\ Len(b) = Len(q) - i /\ Len(a) + Len(b) = Len(q) - 1
    BY <1>1, <1>2, <1>3
  <2>3. ASSUME NEW j \in 1 .. Len(q) - 1
        PROVE  (a \o b)[j] = IF j < i THEN a[j] ELSE b[j - (i - 1)]
    <3>1. (a \o b)[j] = IF j <= i - 1 THEN a[j] ELSE b[j - (i - 1)]
      BY <2>1, <2>2, Zenon
    <3>2. j <= i - 1 <=> j < i
      BY <1>1
    <3> QED
      BY <3>1, <3>2, Zenon
  <2> QED
    BY <2>1, <2>2, <2>3, Zenon
<1>5. ASSUME NEW j \in 1 .. Len(q) - 1
      PROVE  (a \o b)[j] = IF j < i THEN q[j] ELSE q[j + 1]
  BY <1>1, <1>2, <1>3, <1>4
<1>6. RemoveAt(q, i) = a \o b
  BY DEF RemoveAt, a, b
<1> QED
  BY <1>4, <1>5, <1>6

(* An element removed from a queue without repetitions is gone, the others *)
(* are not.                                                                *)
LEMMA RemoveAtElements ==
  ASSUME NEW S, NEW q \in Seq(S), NEW i \in DOMAIN q,
         \A j, k \in DOMAIN q : q[j] = q[k] => j = k
  PROVE  LET r == RemoveAt(q, i)
         IN  /\ \A j, k \in DOMAIN r : r[j] = r[k] => j = k
             /\ \A x : (\E j \in DOMAIN r : r[j] = x)
                       <=> x # q[i] /\ \E j \in DOMAIN q : q[j] = x
<1> DEFINE r == RemoveAt(q, i)
<1>1. /\ r \in Seq(S) /\ DOMAIN r = 1 .. Len(q) - 1
      /\ \A j \in 1 .. Len(q) - 1 : r[j] = IF j < i THEN q[j] ELSE q[j + 1]
  <2>1. /\ r \in Seq(S) /\ Len(r) = Len(q) - 1
        /\ \A j \in 1 .. Len(q) - 1 : r[j] = IF j < i THEN q[j] ELSE q[j + 1]
    BY RemoveAtShape
  <2> HIDE DEF r
  <2>2. DOMAIN r = 1 .. Len(r)
    BY <2>1
  <2> QED
    BY <2>1, <2>2
<1>2. i \in 1 .. Len(q) /\ Len(q) \in Nat /\ DOMAIN q = 1 .. Len(q)
  OBVIOUS
<1> HIDE DEF r
<1>3. ASSUME NEW j \in DOMAIN r, NEW k \in DOMAIN r, r[j] = r[k] PROVE j = k
  <2> DEFINE at(n) == IF n < i THEN n ELSE n + 1
  <2>1. ASSUME NEW n \in DOMAIN r PROVE r[n] = q[at(n)] /\ at(n) \in DOMAIN q
    BY <1>1, <1>2
  <2>2. at(j) = at(k)
    <3> HIDE DEF at
    <3> QED
      BY <2>1, <1>3
  <2>3. j \in Int /\ k \in Int /\ i \in Int
    BY <1>1, <1>2
  <2> QED
    BY <2>2, <2>3
<1>4. ASSUME NEW j \in DOMAIN r
      PROVE  r[j] # q[i] /\ \E k \in DOMAIN q : q[k] = r[j]
  <2>1. CASE j < i
    <3>1. j \in DOMAIN q /\ r[j] = q[j] /\ j # i
      BY <1>1, <1>2, <2>1
    <3> QED
      BY <3>1
  <2>2. CASE ~(j < i)
    <3>1. j + 1 \in DOMAIN q /\ r[j] = q[j + 1] /\ j + 1 # i
      BY <1>1, <1>2, <2>2
    <3> QED
      BY <3>1
  <2> QED
    BY <2>1, <2>2
<1>5. ASSUME NEW j \in DOMAIN q, q[j] # q[i]
      PROVE  \E k \in DOMAIN r : r[k] = q[j]
  <2>1. CASE j < i
    <3>1. j \in DOMAIN r /\ r[j] = q[j]
      BY <1>1, <1>2, <2>1
    <3> QED
      BY <3>1
  <2>2. CASE ~(j < i)
    <3>1. j > i
      BY <1>2, <1>5, <2>2
    <3>2. j - 1 \in DOMAIN r /\ r[j - 1] = q[j]
      BY <1>1, <1>2, <3>1
    <3> QED
      BY <3>2
  <2> QED
    BY <2>1, <2>2
<1>6. ASSUME NEW x
      PROVE  (\E j \in DOMAIN r : r[j] = x)
             <=> x # q[i] /\ \E j \in DOMAIN q : q[j] = x
  BY <1>4, <1>5
<1> QED
  BY <1>3, <1>6 DEF r

(* The same of a queue whose head is taken.                                *)
LEMMA TailElements ==
  ASSUME NEW S, NEW q \in Seq(S), q # <<>>,
         \A j, k \in DOMAIN q : q[j] = q[k] => j = k
  PROVE  /\ Tail(q) \in Seq(S)
         /\ \A j, k \in DOMAIN Tail(q) : Tail(q)[j] = Tail(q)[k] => j = k
         /\ \A x : (\E j \in DOMAIN Tail(q) : Tail(q)[j] = x)
                   <=> x # Head(q) /\ \E j \in DOMAIN q : q[j] = x
<1>1. /\ Tail(q) \in Seq(S) /\ DOMAIN Tail(q) = 1 .. Len(q) - 1
      /\ \A j \in 1 .. Len(q) - 1 : Tail(q)[j] = q[j + 1]
      /\ Len(q) \in Nat /\ Len(q) # 0 /\ DOMAIN q = 1 .. Len(q) /\ Head(q) = q[1]
  OBVIOUS
<1>2. \A j, k \in DOMAIN Tail(q) : Tail(q)[j] = Tail(q)[k] => j = k
  BY <1>1
<1>3. ASSUME NEW j \in DOMAIN Tail(q)
      PROVE  Tail(q)[j] # Head(q) /\ \E k \in DOMAIN q : q[k] = Tail(q)[j]
  <2>1. /\ j + 1 \in DOMAIN q /\ 1 \in DOMAIN q
        /\ Tail(q)[j] = q[j + 1] /\ Head(q) = q[1] /\ j + 1 # 1
    BY <1>1
  <2> QED
    BY <2>1
<1>4. ASSUME NEW j \in DOMAIN q, q[j] # Head(q)
      PROVE  \E k \in DOMAIN Tail(q) : Tail(q)[k] = q[j]
  <2>1. j - 1 \in DOMAIN Tail(q) /\ Tail(q)[j - 1] = q[j]
    BY <1>1, <1>4
  <2> QED
    BY <2>1
<1>5. ASSUME NEW x
      PROVE  (\E j \in DOMAIN Tail(q) : Tail(q)[j] = x)
             <=> x # Head(q) /\ \E j \in DOMAIN q : q[j] = x
  BY <1>3, <1>4, Zenon
<1> QED
  BY <1>1, <1>2, <1>5

(***************************************************************************)
(* Arithmetic and sets the invariant needs.                                *)
(***************************************************************************)

(* Multiplication by a natural number is monotonic.                        *)
LEMMA TimesMonotonic ==
  ASSUME NEW a \in Nat, NEW b \in Nat, NEW f \in Nat, a <= b
  PROVE  a * f <= b * f /\ a * f \in Nat
<1>1. PICK d \in Nat : b = a + d
  <2>1. b - a \in Nat /\ b = a + (b - a)
    OBVIOUS
  <2> QED
    BY <2>1
<1>2. b * f = a * f + d * f
  BY <1>1
<1>3. a * f \in Nat /\ d * f \in Nat
  OBVIOUS
<1> QED
  BY <1>2, <1>3

(* So is addition.                                                         *)
LEMMA SumsMonotonic ==
  ASSUME NEW a \in Int, NEW b \in Int, NEW c \in Int, NEW d \in Int, a <= b, c <= d
  PROVE  a + c <= b + d
OBVIOUS

(* One timeout more.                                                       *)
LEMMA TimesSuccessor ==
  ASSUME NEW a \in Nat, NEW f \in Nat
  PROVE  a * f \in Nat /\ (a + 1) * f = a * f + f
OBVIOUS

(* A call that ends is one more that is done: what has been served grows   *)
(* by one timeout.                                                         *)
LEMMA DoneGrows ==
  ASSUME TypeOK, NEW v \in Calls, pc[v] # "done", pc' = [pc EXCEPT ![v] = "done"]
  PROVE  Served \in Nat /\ Served' = Served + FetchTimeout
<1>1. Done' = Done \cup {v} /\ v \notin Done /\ Done \subseteq Calls
  BY DEF TypeOK, Done
<1>2. IsFiniteSet(Done)
  BY <1>1, CallAssumption, FS_Subset
<1>3. /\ Cardinality(Done) \in Nat
      /\ Cardinality(Done \cup {v}) = Cardinality(Done) + 1
  BY <1>1, <1>2, FS_AddElement, FS_CardinalityType
<1>4. /\ Cardinality(Done) * FetchTimeout \in Nat
      /\ (Cardinality(Done) + 1) * FetchTimeout
           = Cardinality(Done) * FetchTimeout + FetchTimeout
  BY <1>3, TimeAssumption, TimesSuccessor, Zenon
<1>5. Served' = Cardinality(Done') * FetchTimeout
  BY DEF Served
<1> QED
  BY <1>1, <1>3, <1>4, <1>5 DEF Served

(* A verdict is one of the codes (_verify_supabase()).                     *)
LEMMA JudgeType ==
  ASSUME NEW t, NEW ks
  PROVE  Judge(t, ks) \in Codes
BY DEF Judge, Codes

(* Publishing or retiring a key changes nothing about an instant that has  *)
(* passed.                                                                 *)
LEMMA AsPublishedKept ==
  ASSUME TypeOK, NEW ks, NEW t \in 0 .. clock, AsPublished(ks, t),
         NEW k \in Kids, Publish(k) \/ Retire(k)
  PROVE  \A j \in Kids :
           IF j \in ks THEN published'[j].from <= t /\ t <= published'[j].until
                       ELSE t <= published'[j].from \/ published'[j].until <= t
<1> SUFFICES ASSUME NEW j \in Kids
             PROVE  IF j \in ks THEN published'[j].from <= t /\ t <= published'[j].until
                       ELSE t <= published'[j].from \/ published'[j].until <= t
  OBVIOUS
<1>1. /\ clock \in Nat /\ MaxClock \in Nat /\ clock <= MaxClock /\ t \in Nat /\ t <= clock
      /\ published \in [Kids -> [from : 0 .. Forever, until : 0 .. Forever]]
  BY TimeAssumption DEF TypeOK
<1>2. published[j].from \in Nat /\ published[j].until \in Nat
  BY <1>1, TimeAssumption DEF Forever
<1>3. IF j \in ks THEN published[j].from <= t /\ t <= published[j].until
                  ELSE t <= published[j].from \/ published[j].until <= t
  BY DEF AsPublished
<1>4. CASE j # k
  <2>1. published'[j] = published[j]
    BY <1>1, <1>4 DEF Publish, Retire
  <2> QED
    BY <1>3, <2>1
<1>5. CASE j = k /\ Publish(k)
  <2>1. /\ published[j].from = MaxClock + 1
        /\ published'[j].from = clock /\ published'[j].until = published[j].until
    BY <1>1, <1>5 DEF Publish, Forever
  <2> QED
    BY <1>1, <1>2, <1>3, <2>1
<1>6. CASE j = k /\ Retire(k)
  <2>1. /\ clock < published[j].until
        /\ published'[j].until = clock /\ published'[j].from = published[j].from
    BY <1>1, <1>6 DEF Retire, Published
  <2> QED
    BY <1>1, <1>2, <1>3, <2>1
<1> QED
  BY <1>4, <1>5, <1>6

(***************************************************************************)
(* Types.                                                                  *)
(***************************************************************************)
LEMMA InitInv == Init => CacheInv
<1> SUFFICES ASSUME Init PROVE CacheInv
  OBVIOUS
<1>1. TypeOK
  <2>1. 0 \in 0 .. Forever /\ Forever \in 0 .. Forever /\ 0 \in 0 .. MaxClock
        /\ 0 \in 0 .. MaxClock + TTL
    BY TimeAssumption DEF Forever
  <2>2. published \in [Kids -> [from : 0 .. Forever, until : 0 .. Forever]]
    BY <2>1 DEF Init
  <2>3. /\ pc \in [Calls -> {"idle", "waiting", "fetching", "done"}]
        /\ token \in [Calls -> Tokens \cup {None}]
        /\ since \in [Calls -> 0 .. MaxClock]
        /\ document \in [Calls -> (SUBSET Kids) \cup {None}]
        /\ verdict \in [Calls -> Codes \cup {None}]
    BY <2>1, Zenon DEF Init
  <2>4. queue \in Seq(Calls)
    BY DEF Init
  <2> QED
    BY <2>1, <2>2, <2>3, <2>4 DEF Init, TypeOK
<1>2. LockInOrder
  <2>1. DOMAIN queue = {}
    BY DEF Init
  <2>2. \A v \in Calls : pc[v] = "idle" /\ lock # v
    BY CallAssumption DEF Init
  <2> QED
    BY <2>1, <2>2 DEF LockInOrder
<1>3. CachedOnce
  BY DEF Init, CachedOnce
<1>4. ASSUME NEW v \in Calls
      PROVE  Awaiting(v) /\ Answered(v) /\ Overdue(v)
  <2>1. pc[v] = "idle" /\ document[v] = None
    BY DEF Init
  <2> QED
    BY <2>1 DEF Awaiting, Answered, Overdue
<1> QED
  BY <1>1, <1>2, <1>3, <1>4 DEF CacheInv

(* A call that ends has a verdict and leaves the others alone.             *)
LEMMA EndsType ==
  ASSUME TypeOK, NEW v \in Calls, NEW code \in Codes, Ends(v, code)
  PROVE  /\ pc' \in [Calls -> {"idle", "waiting", "fetching", "done"}]
         /\ since' \in [Calls -> 0 .. MaxClock]
         /\ document' \in [Calls -> (SUBSET Kids) \cup {None}]
         /\ verdict' \in [Calls -> Codes \cup {None}]
<1>1. 0 \in 0 .. MaxClock
  BY TimeAssumption
<1>2. /\ pc' = [pc EXCEPT ![v] = "done"] /\ since' = [since EXCEPT ![v] = 0]
      /\ document' = [document EXCEPT ![v] = None]
      /\ verdict' = [verdict EXCEPT ![v] = code]
  BY DEF Ends
<1>3. /\ pc \in [Calls -> {"idle", "waiting", "fetching", "done"}]
      /\ since \in [Calls -> 0 .. MaxClock]
      /\ document \in [Calls -> (SUBSET Kids) \cup {None}]
      /\ verdict \in [Calls -> Codes \cup {None}]
  BY DEF TypeOK
<1>4. None \in (SUBSET Kids) \cup {None} /\ code \in Codes \cup {None}
  OBVIOUS
<1>5. pc' \in [Calls -> {"idle", "waiting", "fetching", "done"}]
  BY <1>2, <1>3
<1>6. since' \in [Calls -> 0 .. MaxClock]
  BY <1>1, <1>2, <1>3
<1>7. document' \in [Calls -> (SUBSET Kids) \cup {None}]
  BY <1>2, <1>3, <1>4
<1>8. verdict' \in [Calls -> Codes \cup {None}]
  BY <1>2, <1>3, <1>4
<1> QED
  BY <1>5, <1>6, <1>7, <1>8

(* Every step keeps the types.                                             *)
LEMMA TypeNext ==
  ASSUME TypeOK, [Next]_vars
  PROVE  TypeOK'
<1>0. /\ clock \in Nat /\ TTL \in Nat /\ FetchTimeout \in Nat /\ MaxClock \in Nat
      /\ clock <= MaxClock /\ clock \in 0 .. MaxClock /\ clock \in 0 .. Forever
  BY TimeAssumption DEF TypeOK, Forever
<1>1. ASSUME NEW v \in Calls, Refuse(v) PROVE TypeOK'
  <2>1. "UNAUTHENTICATED" \in Codes
    BY DEF Codes
  <2> QED
    BY <1>1, <2>1, EndsType DEF TypeOK, Refuse, cache
<1>2. ASSUME NEW v \in Calls, Hit(v) PROVE TypeOK'
  <2>1. PICK t \in Tokens : token' = [token EXCEPT ![v] = t] /\ Ends(v, Judge(t, keys))
    BY <1>2 DEF Hit
  <2> QED
    BY <1>2, <2>1, JudgeType, EndsType DEF TypeOK, Hit, cache
<1>3. ASSUME NEW v \in Calls, Miss(v) PROVE TypeOK'
  <2>1. token' \in [Calls -> Tokens \cup {None}]
    BY <1>3 DEF Miss, TypeOK
  <2>2. /\ queue' \in Seq(Calls) /\ lock' \in Calls \cup {None}
        /\ pc' \in [Calls -> {"idle", "waiting", "fetching", "done"}]
        /\ since' \in [Calls -> 0 .. MaxClock]
    <3>1. /\ pc \in [Calls -> {"idle", "waiting", "fetching", "done"}]
          /\ since \in [Calls -> 0 .. MaxClock] /\ queue \in Seq(Calls)
          /\ lock \in Calls \cup {None}
      BY DEF TypeOK
    <3>2. Append(queue, v) \in Seq(Calls)
      BY <3>1
    <3>3. /\ queue' \in {queue, Append(queue, v)} /\ lock' \in {lock, v}
          /\ pc' = [pc EXCEPT ![v] = "waiting"] \/ pc' = [pc EXCEPT ![v] = "fetching"]
          /\ since' = [since EXCEPT ![v] = clock]
      BY <1>3, Zenon DEF Miss, StartsFetch
    <3> QED
      BY <1>0, <3>1, <3>2, <3>3
  <2> QED
    BY <1>3, <2>1, <2>2 DEF Miss, TypeOK, cache
<1>4. ASSUME NEW v \in Calls, WakeToHit(v) PROVE TypeOK'
  <2>1. Tail(queue) \in Seq(Calls)
    BY <1>4 DEF WakeToHit, MayWake, TypeOK
  <2> QED
    BY <1>4, <2>1, JudgeType, EndsType DEF TypeOK, WakeToHit, cache
<1>5. ASSUME NEW v \in Calls, WakeToFetch(v) PROVE TypeOK'
  <2>1. Tail(queue) \in Seq(Calls)
    BY <1>5 DEF WakeToFetch, MayWake, TypeOK
  <2> QED
    BY <1>0, <1>5, <2>1 DEF TypeOK, WakeToFetch, StartsFetch, cache
<1>6. ASSUME NEW v \in Calls, ProviderAnswers(v) PROVE TypeOK'
  <2>1. {k \in Kids : Published(k)} \in (SUBSET Kids) \cup {None}
    OBVIOUS
  <2>2. document' \in [Calls -> (SUBSET Kids) \cup {None}]
    BY <1>6, <2>1 DEF TypeOK, ProviderAnswers
  <2> QED
    BY <1>6, <2>2 DEF TypeOK, ProviderAnswers, cache
<1>7. ASSUME NEW v \in Calls, Store(v) PROVE TypeOK'
  <2>1. keys' \subseteq Kids
    <3>1. document[v] \in (SUBSET Kids) \cup {None}
      BY DEF TypeOK
    <3> QED
      BY <1>7, <3>1 DEF Store
  <2>2. expires' \in 0 .. MaxClock + TTL
    BY <1>0, <1>7 DEF Store
  <2> QED
    BY <1>7, <2>1, <2>2, JudgeType, EndsType DEF TypeOK, Store
<1>8. ASSUME NEW v \in Calls, FetchFails(v) PROVE TypeOK'
  <2>1. "UNAUTHENTICATED" \in Codes
    BY DEF Codes
  <2> QED
    BY <1>8, <2>1, EndsType DEF TypeOK, FetchFails, cache
<1>9. ASSUME NEW v \in Calls, Cancel(v) PROVE TypeOK'
  <2>1. "CANCELLED" \in Codes
    BY DEF Codes
  <2>2. queue \in Seq(Calls)
    BY DEF TypeOK
  <2>3. queue' \in Seq(Calls) /\ lock' \in Calls \cup {None}
    BY <1>9, <2>2, RemoveAtShape DEF TypeOK, Cancel, LeavesQueue
  <2> QED
    BY <1>9, <2>1, <2>3, EndsType DEF TypeOK, Cancel, cache
<1>10. ASSUME NEW k \in Kids, Publish(k) \/ Retire(k) PROVE TypeOK'
  <2>1. published' \in [Kids -> [from : 0 .. Forever, until : 0 .. Forever]]
    <3>1. published \in [Kids -> [from : 0 .. Forever, until : 0 .. Forever]]
      BY DEF TypeOK
    <3>2. \/ published' = [published EXCEPT ![k].from = clock]
          \/ published' = [published EXCEPT ![k].until = clock]
      BY <1>10 DEF Publish, Retire
    <3> QED
      BY <1>0, <3>1, <3>2
  <2> QED
    BY <1>10, <2>1 DEF TypeOK, Publish, Retire, cache
<1>11. ASSUME Tick PROVE TypeOK'
  <2>1. clock' \in 0 .. MaxClock
    BY <1>0, <1>11 DEF Tick
  <2> QED
    BY <1>11, <2>1 DEF TypeOK, Tick, cache
<1>12. ASSUME UNCHANGED vars PROVE TypeOK'
  BY <1>12 DEF TypeOK, vars
<1> QED
  BY <1>1, <1>2, <1>3, <1>4, <1>5, <1>6, <1>7, <1>8, <1>9, <1>10, <1>11, <1>12
     DEF Next

(***************************************************************************)
(* The lock and its queue.                                                 *)
(***************************************************************************)

(* What a call's ending changes, and that it changes nothing of another.   *)
LEMMA EndsShape ==
  ASSUME TypeOK, NEW v \in Calls, NEW code, Ends(v, code)
  PROVE  /\ pc'[v] = "done" /\ document'[v] = None
         /\ \A w \in Calls \ {v} :
              pc'[w] = pc[w] /\ since'[w] = since[w] /\ document'[w] = document[w]
BY DEF TypeOK, Ends

(* A call alone changes its place: it neither waited nor fetched, and does *)
(* not.                                                                    *)
LEMMA LockStays ==
  ASSUME TypeOK, LockInOrder, NEW v \in Calls, UNCHANGED <<queue, lock>>,
         pc[v] \notin {"waiting", "fetching"}, pc'[v] \notin {"waiting", "fetching"},
         \A w \in Calls \ {v} : pc'[w] = pc[w]
  PROVE  LockInOrder'
BY DEF LockInOrder

(* Every step keeps lock, queue and fetch together: the lock passes to the *)
(* first in the queue, and a cancelled call releases it or leaves the      *)
(* queue.                                                                  *)
LEMMA LockNext ==
  ASSUME TypeOK, LockInOrder, [Next]_vars
  PROVE  LockInOrder'
<1>0. /\ pc \in [Calls -> {"idle", "waiting", "fetching", "done"}] /\ queue \in Seq(Calls)
      /\ None \notin Calls
  BY CallAssumption DEF TypeOK
<1>1. ASSUME NEW v \in Calls, Refuse(v) \/ Hit(v)
      PROVE  LockInOrder'
  <2>1. /\ pc[v] = "idle" /\ UNCHANGED <<queue, lock>>
        /\ \E code : Ends(v, code)
    BY <1>1 DEF Refuse, Hit
  <2> QED
    BY <2>1, EndsShape, LockStays
<1>2. ASSUME NEW v \in Calls, Miss(v)
      PROVE  LockInOrder'
  <2>1. CASE lock = None /\ queue = <<>>
    <3>1. /\ lock' = v /\ queue' = queue /\ pc[v] = "idle" /\ pc'[v] = "fetching"
          /\ \A w \in Calls \ {v} : pc'[w] = pc[w]
      BY <1>0, <1>2, <2>1 DEF Miss, StartsFetch
    <3> QED
      BY <1>0, <2>1, <3>1 DEF LockInOrder
  <2>2. CASE ~(lock = None /\ queue = <<>>)
    <3>1. /\ lock' = lock /\ queue' = Append(queue, v)
          /\ pc[v] = "idle" /\ pc'[v] = "waiting"
          /\ \A w \in Calls \ {v} : pc'[w] = pc[w]
      BY <1>0, <1>2, <2>2 DEF Miss
    <3>2. /\ DOMAIN queue = 1 .. Len(queue) /\ Len(queue) \in Nat
          /\ DOMAIN queue' = 1 .. Len(queue) + 1
          /\ \A i \in DOMAIN queue : queue'[i] = queue[i]
          /\ queue'[Len(queue) + 1] = v
      BY <1>0, <3>1
    <3>3. \A i \in DOMAIN queue : queue[i] # v
      BY <3>1 DEF LockInOrder
    <3>4. \A i \in DOMAIN queue' : i \in DOMAIN queue \/ i = Len(queue) + 1
      BY <3>2
    <3>5. ASSUME NEW w \in Calls
          PROVE  pc'[w] = "waiting" <=> \E i \in DOMAIN queue' : queue'[i] = w
      <4>1. CASE w = v
        <5>1. Len(queue) + 1 \in DOMAIN queue'
          BY <3>2
        <5> QED
          BY <3>1, <3>2, <4>1, <5>1
      <4>2. CASE w # v
        <5>1. pc'[w] = "waiting" <=> \E i \in DOMAIN queue : queue[i] = w
          BY <3>1, <4>2 DEF LockInOrder
        <5>2. DOMAIN queue \subseteq DOMAIN queue'
          BY <3>2
        <5> QED
          BY <3>2, <3>4, <4>2, <5>1, <5>2
      <4> QED
        BY <4>1, <4>2
    <3>6. \A i, j \in DOMAIN queue' : queue'[i] = queue'[j] => i = j
      BY <3>2, <3>3, <3>4 DEF LockInOrder
    <3>7. \A w \in Calls : pc'[w] = "fetching" <=> lock' = w
      BY <3>1 DEF LockInOrder
    <3> QED
      BY <3>5, <3>6, <3>7 DEF LockInOrder
  <2> QED
    BY <2>1, <2>2
<1>3. ASSUME NEW v \in Calls, WakeToHit(v) \/ WakeToFetch(v)
      PROVE  LockInOrder'
  <2>1. /\ lock = None /\ queue # <<>> /\ Head(queue) = v /\ queue' = Tail(queue)
        /\ \A w \in Calls \ {v} : pc'[w] = pc[w]
        /\ \/ lock' = None /\ pc'[v] = "done"
           \/ lock' = v /\ pc'[v] = "fetching"
    BY <1>0, <1>3 DEF WakeToHit, WakeToFetch, MayWake, StartsFetch, Ends
  <2>2. \A j, k \in DOMAIN queue : queue[j] = queue[k] => j = k
    BY DEF LockInOrder
  <2>3. /\ \A j, k \in DOMAIN queue' : queue'[j] = queue'[k] => j = k
        /\ \A x : (\E j \in DOMAIN queue' : queue'[j] = x)
                  <=> x # v /\ \E j \in DOMAIN queue : queue[j] = x
    BY <1>0, <2>1, <2>2, TailElements
  <2>4. ASSUME NEW w \in Calls
        PROVE  pc'[w] = "waiting" <=> \E i \in DOMAIN queue' : queue'[i] = w
    BY <2>1, <2>3 DEF LockInOrder
  <2>5. \A w \in Calls : pc'[w] = "fetching" <=> lock' = w
    BY <1>0, <2>1 DEF LockInOrder
  <2> QED
    BY <2>3, <2>4, <2>5 DEF LockInOrder
<1>4. ASSUME NEW v \in Calls, ProviderAnswers(v)
      PROVE  LockInOrder'
  BY <1>4 DEF ProviderAnswers, LockInOrder
<1>5. ASSUME NEW v \in Calls, pc[v] = "fetching", lock' = None, queue' = queue,
             \E code : Ends(v, code)
      PROVE  LockInOrder'
  <2>1. lock = v /\ pc'[v] = "done" /\ \A w \in Calls \ {v} : pc'[w] = pc[w]
    BY <1>5, EndsShape DEF LockInOrder
  <2> QED
    BY <1>0, <1>5, <2>1 DEF LockInOrder
<1>6. ASSUME NEW v \in Calls, Store(v) \/ FetchFails(v)
      PROVE  LockInOrder'
  <2>1. /\ pc[v] = "fetching" /\ lock' = None /\ queue' = queue
        /\ \E code : Ends(v, code)
    BY <1>6 DEF Store, FetchFails
  <2> QED
    BY <1>5, <2>1
<1>7. ASSUME NEW v \in Calls, Cancel(v)
      PROVE  LockInOrder'
  <2>1. Ends(v, "CANCELLED")
    BY <1>7 DEF Cancel
  <2>2. CASE pc[v] = "fetching" /\ lock' = None /\ UNCHANGED queue
    BY <1>5, <2>1, <2>2
  <2>3. CASE pc[v] = "waiting" /\ LeavesQueue(v) /\ UNCHANGED lock
    <3>1. PICK i \in DOMAIN queue : queue[i] = v /\ queue' = RemoveAt(queue, i)
      BY <2>3 DEF LeavesQueue
    <3>2. \A j, k \in DOMAIN queue : queue[j] = queue[k] => j = k
      BY DEF LockInOrder
    <3>3. /\ \A j, k \in DOMAIN queue' : queue'[j] = queue'[k] => j = k
          /\ \A x : (\E j \in DOMAIN queue' : queue'[j] = x)
                    <=> x # v /\ \E j \in DOMAIN queue : queue[j] = x
      BY <1>0, <3>1, <3>2, RemoveAtElements
    <3>4. pc'[v] = "done" /\ \A w \in Calls \ {v} : pc'[w] = pc[w]
      BY <2>1, EndsShape
    <3>5. ASSUME NEW w \in Calls
          PROVE  pc'[w] = "waiting" <=> \E j \in DOMAIN queue' : queue'[j] = w
      BY <3>3, <3>4 DEF LockInOrder
    <3>6. \A w \in Calls : pc'[w] = "fetching" <=> lock' = w
      BY <2>3, <3>4 DEF LockInOrder
    <3> QED
      BY <3>3, <3>5, <3>6 DEF LockInOrder
  <2> QED
    BY <1>7, <2>2, <2>3 DEF Cancel
<1>8. ASSUME NEW k \in Kids, Publish(k) \/ Retire(k)
      PROVE  LockInOrder'
  BY <1>8 DEF Publish, Retire, LockInOrder
<1>9. ASSUME Tick \/ UNCHANGED vars
      PROVE  LockInOrder'
  BY <1>9 DEF Tick, vars, LockInOrder
<1> QED
  BY <1>1, <1>2, <1>3, <1>4, <1>6, <1>7, <1>8, <1>9 DEF Next

(***************************************************************************)
(* What a document says of the provider.                                   *)
(***************************************************************************)

(* The cached document is replaced by one that was fetched, and else ages. *)
LEMMA CachedNext ==
  ASSUME CacheInv, [Next]_vars
  PROVE  CachedOnce'
<1>0. /\ TypeOK /\ CachedOnce
      /\ clock \in Nat /\ expires \in Nat /\ TTL \in Nat /\ FetchTimeout \in Nat
  BY TimeAssumption DEF CacheInv, TypeOK
<1>1. CASE UNCHANGED <<clock, published, keys, expires>>
  BY <1>0, <1>1 DEF CachedOnce, AsPublished
<1>2. ASSUME NEW v \in Calls, Store(v)
      PROVE  CachedOnce'
  <2>1. /\ document[v] # None /\ keys' = document[v] /\ expires' = clock + TTL
        /\ pc[v] = "fetching" /\ clock' = clock /\ published' = published
    BY <1>2 DEF Store
  <2>2. PICK t \in since[v] .. clock : AsPublished(document[v], t)
    BY <2>1 DEF CacheInv, Answered
  <2>3. since[v] \in Nat /\ clock <= since[v] + FetchTimeout
    BY <2>1 DEF CacheInv, Awaiting, TypeOK
  <2>4. t \in 0 .. clock' /\ expires' - Window <= t
    BY <1>0, <2>1, <2>2, <2>3 DEF Window
  <2>5. \A k \in Kids :
          IF k \in keys' THEN published'[k].from <= t /\ t <= published'[k].until
                         ELSE t <= published'[k].from \/ published'[k].until <= t
    BY <2>1, <2>2 DEF AsPublished
  <2> QED
    BY <2>4, <2>5 DEF CachedOnce, AsPublished, Window
<1>3. ASSUME NEW k \in Kids, Publish(k) \/ Retire(k)
      PROVE  CachedOnce'
  <2>1. UNCHANGED <<clock, keys, expires>>
    BY <1>3 DEF Publish, Retire, cache
  <2>2. ASSUME keys # {}
        PROVE  \E t \in 0 .. clock' : expires' - Window <= t /\ AsPublished(keys, t)'
    <3>1. PICK t \in 0 .. clock : expires - Window <= t /\ AsPublished(keys, t)
      BY <1>0, <2>2 DEF CachedOnce
    <3>2. \A j \in Kids :
            IF j \in keys THEN published'[j].from <= t /\ t <= published'[j].until
                          ELSE t <= published'[j].from \/ published'[j].until <= t
      BY <1>0, <1>3, <3>1, AsPublishedKept
    <3> QED
      BY <2>1, <3>1, <3>2 DEF AsPublished
  <2> QED
    BY <2>1, <2>2 DEF CachedOnce, Window
<1>4. ASSUME Tick
      PROVE  CachedOnce'
  <2>1. clock' = clock + 1 /\ UNCHANGED <<published, keys, expires>>
    BY <1>4 DEF Tick, cache
  <2>2. 0 .. clock \subseteq 0 .. clock'
    BY <1>0, <2>1
  <2> QED
    BY <1>0, <2>1, <2>2 DEF CachedOnce, AsPublished, Window
<1> QED
  BY <1>1, <1>2, <1>3, <1>4
     DEF Next, vars, cache, Refuse, Hit, Miss, WakeToHit, WakeToFetch,
         ProviderAnswers, FetchFails, Cancel

(* A document that arrived is the provider's at an instant since the fetch *)
(* began; one that has passed stays so.                                    *)
LEMMA AnsweredStays ==
  ASSUME TypeOK, NEW w \in Calls, Answered(w),
         UNCHANGED published, clock' \in Nat, clock <= clock',
         pc'[w] = pc[w], document'[w] = document[w], since'[w] = since[w]
  PROVE  Answered(w)'
<1>1. /\ clock \in Nat /\ since[w] \in Nat
  BY DEF TypeOK
<1>2. since[w] .. clock \subseteq since'[w] .. clock'
  BY <1>1
<1> QED
  BY <1>2 DEF Answered, AsPublished

(***************************************************************************)
(* The calls.                                                              *)
(***************************************************************************)

(* A call that ended owes nothing.                                         *)
LEMMA EndedCall ==
  ASSUME NEW v \in Calls, pc'[v] = "done", document'[v] = None
  PROVE  Awaiting(v)' /\ Answered(v)' /\ Overdue(v)'
BY DEF Awaiting, Answered, Overdue

(* What a call awaits is untouched by the steps of another.                *)
LEMMA AwaitingStays ==
  ASSUME NEW w \in Calls, Awaiting(w), UNCHANGED clock,
         pc'[w] = pc[w], since'[w] = since[w], token'[w] = token[w]
  PROVE  Awaiting(w)'
BY DEF Awaiting

(* Nobody becomes overdue while the lock stays where it is, the time that  *)
(* counts stands still and no call that is done is forgotten.              *)
LEMMA OverdueStays ==
  ASSUME NEW w \in Calls, Overdue(w), Served \in Nat, Served' \in Nat, Served <= Served',
         pc'[w] = pc[w], since'[w] = since[w], since[w] \in Int, clock \in Int,
         \A u \in Calls : since[u] \in Int,
         lock \in Calls \cup {None}, UNCHANGED lock,
         lock = None => clock' = clock, lock # None => since'[lock] = since[lock]
  PROVE  Overdue(w)'
<1> DEFINE from == IF lock = None THEN clock ELSE since[lock]
<1>1. from' = from /\ from \in Int
  OBVIOUS
<1>2. pc'[w] = "waiting" => from - since[w] <= Served
  BY DEF Overdue
<1> HIDE DEF from
<1>3. pc'[w] = "waiting" => from' - since'[w] <= Served'
  BY <1>1, <1>2
<1> QED
  BY <1>3 DEF Overdue, from

(* The time allowed for the calls that are done is a number.               *)
LEMMA ServedType ==
  ASSUME TypeOK
  PROVE  Served \in Nat
<1>1. Done \subseteq Calls
  BY DEF Done
<1>2. Cardinality(Done) \in Nat
  BY <1>1, CallAssumption, FS_Subset, FS_CardinalityType
<1> QED
  BY <1>2, TimeAssumption, TimesSuccessor DEF Served

(* The calls of the process other than the one that ends.                  *)
LEMMA OthersWhenOneEnds ==
  ASSUME CacheInv, NEW v \in Calls, NEW code, Ends(v, code), pc[v] # "done",
         UNCHANGED <<clock, published>>, \A w \in Calls \ {v} : token'[w] = token[w],
         \/ lock # v /\ lock' = lock
         \/ lock = v /\ lock' = None,
         NEW w \in Calls, w # v
  PROVE  Awaiting(w)' /\ Answered(w)' /\ Overdue(w)'
<1>0. /\ TypeOK /\ LockInOrder /\ Awaiting(w) /\ Answered(w) /\ Overdue(w) /\ Awaiting(v)
      /\ clock \in Nat /\ FetchTimeout \in Nat /\ \A u \in Calls : since[u] \in Nat
      /\ lock \in Calls \cup {None}
  BY TimeAssumption DEF CacheInv, TypeOK
<1>1. pc'[w] = pc[w] /\ since'[w] = since[w] /\ document'[w] = document[w]
  BY <1>0, EndsShape
<1>2. Awaiting(w)' /\ Answered(w)'
  BY <1>0, <1>1, AwaitingStays, AnsweredStays
<1>3. Served \in Nat /\ Served' = Served + FetchTimeout
  <2>1. pc' = [pc EXCEPT ![v] = "done"]
    BY DEF Ends
  <2> QED
    BY <1>0, <2>1, DoneGrows
<1>4. CASE lock # v /\ lock' = lock
  <2>1. lock # None => since'[lock] = since[lock]
    BY <1>0, <1>4, EndsShape
  <2>2. Served' \in Nat /\ Served <= Served'
    BY <1>0, <1>3
  <2> QED
    BY <1>0, <1>1, <1>2, <1>3, <1>4, <2>1, <2>2, OverdueStays
<1>5. CASE lock = v /\ lock' = None
  <2>1. pc[v] = "fetching" /\ lock # None
    BY <1>0, <1>5, CallAssumption DEF LockInOrder
  <2>2. clock <= since[v] + FetchTimeout
    BY <1>0, <2>1 DEF Awaiting
  <2>3. pc[w] = "waiting" => since[v] - since[w] <= Served
    BY <1>0, <1>5, <2>1 DEF Overdue
  <2>4. pc'[w] = "waiting" => clock' - since'[w] <= Served'
    BY <1>0, <1>1, <1>3, <2>2, <2>3
  <2> QED
    BY <1>2, <1>5, <2>4 DEF Overdue
<1> QED
  BY <1>4, <1>5

(* Every step keeps what is known of each call: of its wait, its answer    *)
(* and its deadline.                                                       *)
LEMMA CallsNext ==
  ASSUME CacheInv, [Next]_vars, NEW w \in Calls
  PROVE  Awaiting(w)' /\ Answered(w)' /\ Overdue(w)'
<1>0. /\ TypeOK /\ LockInOrder /\ Awaiting(w) /\ Answered(w) /\ Overdue(w)
      /\ clock \in Nat /\ FetchTimeout \in Nat /\ \A u \in Calls : since[u] \in Nat
      /\ lock \in Calls \cup {None} /\ None \notin Calls /\ queue \in Seq(Calls)
      /\ pc \in [Calls -> {"idle", "waiting", "fetching", "done"}]
  BY TimeAssumption, CallAssumption DEF CacheInv, TypeOK
<1>1. Served \in Nat
  BY <1>0, ServedType
<1>2. ASSUME NEW v \in Calls, NEW code, Ends(v, code), pc[v] # "done",
             UNCHANGED <<clock, published>>, \A u \in Calls \ {v} : token'[u] = token[u],
             \/ lock # v /\ lock' = lock
             \/ lock = v /\ lock' = None
      PROVE  Awaiting(w)' /\ Answered(w)' /\ Overdue(w)'
  <2>1. CASE w = v
    BY <1>0, <1>2, <2>1, EndsShape, EndedCall
  <2>2. CASE w # v
    BY <1>2, <2>2, OthersWhenOneEnds
  <2> QED
    BY <2>1, <2>2
<1>3. ASSUME NEW v \in Calls, MayWake(v)
      PROVE  pc[v] = "waiting" /\ lock = None
  <2>1. 1 \in DOMAIN queue /\ queue[1] = v /\ lock = None
    BY <1>0, <1>3 DEF MayWake
  <2> QED
    BY <1>0, <2>1 DEF LockInOrder
<1>4. ASSUME NEW v \in Calls, Refuse(v) \/ Hit(v) \/ WakeToHit(v) \/ Store(v)
                              \/ FetchFails(v) \/ Cancel(v)
      PROVE  Awaiting(w)' /\ Answered(w)' /\ Overdue(w)'
  <2>1. PICK code : Ends(v, code)
    BY <1>4 DEF Refuse, Hit, WakeToHit, Store, FetchFails, Cancel
  <2>2. UNCHANGED <<clock, published>> /\ \A u \in Calls \ {v} : token'[u] = token[u]
    BY <1>0, <1>4 DEF Refuse, Hit, WakeToHit, Store, FetchFails, Cancel, TypeOK
  <2>3. CASE pc[v] = "fetching"
    <3>1. lock = v
      BY <1>0, <2>3 DEF LockInOrder
    <3>2. lock' = None
      BY <1>0, <1>4, <2>3, <3>1
         DEF Refuse, Hit, WakeToHit, MayWake, Store, FetchFails, Cancel
    <3> QED
      BY <1>2, <2>1, <2>2, <2>3, <3>1, <3>2
  <2>4. CASE pc[v] # "fetching"
    <3>1. lock # v
      BY <1>0, <2>4 DEF LockInOrder
    <3>2. lock' = lock
      BY <1>4, <2>4 DEF Refuse, Hit, WakeToHit, Store, FetchFails, Cancel
    <3>3. pc[v] # "done"
      BY <1>3, <1>4 DEF Refuse, Hit, WakeToHit, Store, FetchFails, Cancel
    <3> QED
      BY <1>2, <2>1, <2>2, <3>1, <3>2, <3>3
  <2> QED
    BY <2>3, <2>4
<1>5. ASSUME NEW v \in Calls, Miss(v)
      PROVE  Awaiting(w)' /\ Answered(w)' /\ Overdue(w)'
  <2>1. PICK t \in Tokens : token' = [token EXCEPT ![v] = t]
    BY <1>5 DEF Miss
  <2>2. /\ pc[v] = "idle" /\ since' = [since EXCEPT ![v] = clock]
        /\ UNCHANGED <<clock, published, document>>
        /\ \/ pc' = [pc EXCEPT ![v] = "fetching"] /\ lock' = v
              /\ lock = None /\ queue = <<>>
           \/ pc' = [pc EXCEPT ![v] = "waiting"] /\ lock' = lock
    BY <1>5 DEF Miss, StartsFetch
  <2>3. /\ token \in [Calls -> Tokens \cup {None}] /\ since \in [Calls -> 0 .. MaxClock]
    BY <1>0 DEF TypeOK
  <2>5. lock # v
    BY <1>0, <2>2 DEF LockInOrder
  <2>6. Served' = Served
    <3>1. Done' = Done
      BY <1>0, <2>2 DEF Done
    <3> QED
      BY <3>1 DEF Served
  <2>7. CASE w # v
    <3>1. pc'[w] = pc[w] /\ since'[w] = since[w] /\ token'[w] = token[w]
      BY <1>0, <2>1, <2>2, <2>3, <2>7
    <3>2. Awaiting(w)' /\ Answered(w)'
      BY <1>0, <2>2, <3>1, AwaitingStays, AnsweredStays
    <3>3. CASE lock = None /\ queue = <<>>
      <4>1. pc[w] # "waiting"
        BY <1>0, <3>3 DEF LockInOrder
      <4> QED
        BY <3>1, <3>2, <4>1 DEF Overdue
    <3>4. CASE ~(lock = None /\ queue = <<>>)
      <4>1. lock' = lock
        BY <2>2, <3>4
      <4>2. lock # None => since'[lock] = since[lock]
        BY <1>0, <2>2, <2>3, <2>5
      <4> QED
        BY <1>0, <1>1, <2>2, <2>6, <3>1, <3>2, <4>1, <4>2, OverdueStays
    <3> QED
      BY <3>3, <3>4
  <2>8. CASE w = v
    <3>1. token'[w] \in Tokens /\ since'[w] = clock
      BY <2>1, <2>2, <2>3, <2>8
    <3>2. Awaiting(w)'
      BY <1>0, <2>2, <3>1 DEF Awaiting
    <3>3. Answered(w)'
      BY <1>0, <2>2, <2>8 DEF Answered
    <3>4. CASE pc'[w] # "waiting"
      BY <3>2, <3>3, <3>4 DEF Overdue
    <3>5. CASE pc'[w] = "waiting"
      <4>1. lock' = lock
        BY <1>0, <2>2, <2>8, <3>5
      <4>2. IF lock' = None THEN clock' - since'[w] = 0
                            ELSE since'[lock'] - since'[w] <= 0
        <5>1. CASE lock = None
          BY <1>0, <2>2, <3>1, <4>1, <5>1
        <5>2. CASE lock # None
          <6>1. since'[lock] = since[lock] /\ lock \in Calls
            BY <1>0, <2>2, <2>3, <2>5, <5>2
          <6>2. pc[lock] = "fetching"
            BY <1>0, <6>1 DEF LockInOrder
          <6>3. since[lock] <= clock
            BY <6>1, <6>2 DEF CacheInv, Awaiting
          <6> QED
            BY <1>0, <3>1, <4>1, <5>2, <6>1, <6>3
        <5> QED
          BY <5>1, <5>2
      <4> DEFINE from == IF lock' = None THEN clock' ELSE since'[lock']
      <4>3. from \in Int /\ from - since'[w] <= 0
        BY <1>0, <2>2, <2>3, <3>1, <4>1, <4>2
      <4> HIDE DEF from
      <4>4. from - since'[w] <= Served'
        BY <1>0, <1>1, <2>6, <3>1, <4>3
      <4> QED
        BY <3>2, <3>3, <4>4 DEF Overdue, from
    <3> QED
      BY <3>4, <3>5
  <2> QED
    BY <2>7, <2>8
<1>6. ASSUME NEW v \in Calls, WakeToFetch(v)
      PROVE  Awaiting(w)' /\ Answered(w)' /\ Overdue(w)'
  <2>1. /\ pc[v] = "waiting" /\ lock = None
        /\ lock' = v /\ pc' = [pc EXCEPT ![v] = "fetching"]
        /\ since' = [since EXCEPT ![v] = clock]
        /\ UNCHANGED <<clock, published, token, document>>
    BY <1>3, <1>6 DEF WakeToFetch, StartsFetch
  <2>2. since \in [Calls -> 0 .. MaxClock]
    BY <1>0 DEF TypeOK
  <2>3. Served' = Served
    <3>1. Done' = Done
      BY <1>0, <2>1 DEF Done
    <3> QED
      BY <3>1 DEF Served
  <2>4. since'[v] = clock /\ pc'[v] = "fetching"
    BY <1>0, <2>1, <2>2
  <2>5. CASE w # v
    <3>1. pc'[w] = pc[w] /\ since'[w] = since[w] /\ token'[w] = token[w]
      BY <1>0, <2>1, <2>2, <2>5
    <3>2. Awaiting(w)' /\ Answered(w)'
      BY <1>0, <2>1, <3>1, AwaitingStays, AnsweredStays
    <3>3. pc[w] = "waiting" => clock - since[w] <= Served
      BY <1>0, <2>1 DEF Overdue
    <3>4. lock' # None /\ since'[lock'] = clock
      BY <1>0, <2>1, <2>4
    <3> QED
      BY <2>3, <3>1, <3>2, <3>3, <3>4 DEF Overdue
  <2>6. CASE w = v
    <3>1. Awaiting(w)'
      BY <1>0, <2>1, <2>4, <2>6 DEF Awaiting
    <3>2. Answered(w)' /\ Overdue(w)'
      BY <1>0, <2>1, <2>4, <2>6 DEF Answered, Overdue
    <3> QED
      BY <3>1, <3>2
  <2> QED
    BY <2>5, <2>6
<1>7. ASSUME NEW v \in Calls, ProviderAnswers(v)
      PROVE  Awaiting(w)' /\ Answered(w)' /\ Overdue(w)'
  <2>1. /\ UNCHANGED <<clock, published, lock, pc, token, since>>
        /\ pc[v] = "fetching" /\ document \in [Calls -> (SUBSET Kids) \cup {None}]
        /\ document' = [document EXCEPT ![v] = {k \in Kids : Published(k)}]
    BY <1>0, <1>7 DEF ProviderAnswers, TypeOK
  <2>2. Awaiting(w)' /\ Overdue(w)'
    <3>1. Served' = Served
      BY <2>1 DEF Served, Done
    <3> QED
      BY <1>0, <2>1, <3>1, AwaitingStays DEF Overdue
  <2>3. CASE w # v
    <3>1. document'[w] = document[w]
      BY <2>1, <2>3
    <3> QED
      BY <1>0, <2>1, <2>2, <3>1, AnsweredStays
  <2>4. CASE w = v
    <3>1. document'[w] = {k \in Kids : Published(k)}
      BY <2>1, <2>4
    <3>2. clock \in since'[w] .. clock'
      <4>1. since[w] <= clock
        BY <1>0, <2>1, <2>4 DEF Awaiting
      <4> QED
        BY <1>0, <2>1, <4>1
    <3>3. ASSUME NEW k \in Kids
          PROVE  IF k \in document'[w]
                 THEN published'[k].from <= clock /\ clock <= published'[k].until
                 ELSE clock <= published'[k].from \/ published'[k].until <= clock
      <4>1. published[k].from \in Nat /\ published[k].until \in Nat
        BY <1>0, TimeAssumption DEF TypeOK, Forever
      <4>2. k \in document'[w] <=> published[k].from <= clock /\ clock < published[k].until
        BY <3>1 DEF Published
      <4> QED
        BY <1>0, <2>1, <4>1, <4>2
    <3> QED
      BY <2>1, <2>2, <2>4, <3>2, <3>3 DEF Answered, AsPublished
  <2> QED
    BY <2>3, <2>4
<1>8. ASSUME NEW k \in Kids, Publish(k) \/ Retire(k)
      PROVE  Awaiting(w)' /\ Answered(w)' /\ Overdue(w)'
  <2>1. UNCHANGED <<clock, lock, pc, token, since, document>>
    BY <1>8 DEF Publish, Retire
  <2>2. Awaiting(w)' /\ Overdue(w)'
    BY <1>0, <2>1, AwaitingStays DEF Overdue, Served, Done
  <2>3. ASSUME document[w] # None
        PROVE  \E t \in since[w] .. clock : AsPublished(document[w], t)'
    <3>1. PICK t \in since[w] .. clock : AsPublished(document[w], t)
      BY <1>0, <2>3 DEF Answered
    <3>2. t \in 0 .. clock
      BY <1>0, <3>1
    <3>3. \A j \in Kids :
            IF j \in document[w] THEN published'[j].from <= t /\ t <= published'[j].until
                                 ELSE t <= published'[j].from \/ published'[j].until <= t
      BY <1>0, <1>8, <3>1, <3>2, AsPublishedKept
    <3> QED
      BY <2>1, <3>3 DEF AsPublished
  <2> QED
    BY <1>0, <2>1, <2>2, <2>3 DEF Answered
<1>9. ASSUME Tick
      PROVE  Awaiting(w)' /\ Answered(w)' /\ Overdue(w)'
  <2>1. /\ clock' = clock + 1 /\ UNCHANGED <<published, lock, pc, token, since, document>>
        /\ \A v \in Calls : pc[v] = "fetching" => clock < since[v] + FetchTimeout
        /\ lock = None => queue = <<>>
    BY <1>9 DEF Tick
  <2>2. Awaiting(w)'
    BY <1>0, <2>1 DEF Awaiting
  <2>3. Answered(w)'
    <3>1. clock' \in Nat /\ clock <= clock'
      BY <1>0, <2>1
    <3> QED
      BY <1>0, <2>1, <3>1, AnsweredStays
  <2>4. Served' = Served
    BY <2>1 DEF Served, Done
  <2>5. pc[w] = "waiting" => lock # None
    BY <1>0, <2>1 DEF LockInOrder
  <2> QED
    BY <1>0, <2>1, <2>2, <2>3, <2>4, <2>5 DEF Overdue
<1>10. CASE UNCHANGED vars
  BY <1>0, <1>10 DEF vars, Awaiting, Answered, AsPublished, Overdue, Served, Done
<1> QED
  BY <1>4, <1>5, <1>6, <1>7, <1>8, <1>9, <1>10 DEF Next

(***************************************************************************)
(* The theorems.                                                           *)
(***************************************************************************)

(* JwksCache.get(): the invariant is inductive.                            *)
LEMMA CacheInvNext == CacheInv /\ [Next]_vars => CacheInv'
<1> SUFFICES ASSUME CacheInv, [Next]_vars PROVE CacheInv'
  OBVIOUS
<1>1. TypeOK' /\ LockInOrder' /\ CachedOnce'
  BY TypeNext, LockNext, CachedNext DEF CacheInv
<1>2. \A w \in Calls : Awaiting(w)' /\ Answered(w)' /\ Overdue(w)'
  BY CallsNext
<1> QED
  BY <1>1, <1>2 DEF CacheInv

(* In every state the lock belongs to the fetching call and its queue to   *)
(* the waiting ones, the cached keys are those the provider published less *)
(* than a fetch before they were stored, and a call has waited no longer   *)
(* than for the calls that are done.                                       *)
THEOREM CacheInvariant == Spec => []CacheInv
<1>1. Init => CacheInv
  BY InitInv
<1>2. CacheInv /\ [Next]_vars => CacheInv'
  BY CacheInvNext
<1> QED
  BY <1>1, <1>2, PTL DEF Spec

(* The state of the cache and its calls keeps its types.                   *)
THEOREM CacheTypes == Spec => []TypeOK
<1>1. CacheInv => TypeOK
  BY DEF CacheInv
<1> QED
  BY <1>1, CacheInvariant, PTL

(* The convoy behind a failing provider is bounded, for any number of      *)
(* calls: the calls done and the one that fetches are not the one that     *)
(* waits.                                                                  *)
LEMMA ConvoyBound == CacheInv => ConvoyBounded
<1> SUFFICES ASSUME CacheInv, NEW v \in Calls, pc[v] = "waiting"
             PROVE  clock - since[v] <= (Cardinality(Calls) - 1) * FetchTimeout
  BY DEF ConvoyBounded
<1>0. /\ TypeOK /\ LockInOrder /\ Overdue(v)
      /\ clock \in Nat /\ FetchTimeout \in Nat /\ \A u \in Calls : since[u] \in Nat
      /\ lock \in Calls \cup {None}
  BY TimeAssumption DEF CacheInv, TypeOK
<1> DEFINE n == Cardinality(Done)
           m == Cardinality(Calls)
<1>1. /\ IsFiniteSet(Calls) /\ Done \subseteq Calls \ {v}
      /\ IsFiniteSet(Calls \ {v}) /\ Cardinality(Calls \ {v}) = m - 1 /\ m \in Nat
  BY CallAssumption, FS_RemoveElement, FS_CardinalityType DEF Done
<1>2. IsFiniteSet(Done) /\ n \in Nat /\ n <= m - 1
  BY <1>1, FS_Subset, FS_CardinalityType
<1>3. CASE lock = None
  <2>1. clock - since[v] <= n * FetchTimeout
    BY <1>0, <1>3 DEF Overdue, Served
  <2>2. m - 1 \in Nat
    BY <1>1, <1>2
  <2> HIDE DEF n, m
  <2>3. n * FetchTimeout <= (m - 1) * FetchTimeout /\ n * FetchTimeout \in Nat
    BY <1>0, <1>2, <2>2, TimesMonotonic
  <2>4. (m - 1) * FetchTimeout \in Int
    BY <1>0, <2>2
  <2>5. clock - since[v] <= (m - 1) * FetchTimeout
    BY <1>0, <2>1, <2>3, <2>4
  <2> QED
    BY <2>5 DEF m
<1>4. CASE lock # None
  <2>1. lock \in Calls /\ pc[lock] = "fetching"
    BY <1>0, <1>4 DEF LockInOrder
  <2>2. clock <= since[lock] + FetchTimeout
    BY <2>1 DEF CacheInv, Awaiting
  <2>3. since[lock] - since[v] <= n * FetchTimeout
    BY <1>0, <1>4 DEF Overdue, Served
  <2>4. Done \subseteq (Calls \ {v}) \ {lock} /\ lock \in Calls \ {v}
    BY <1>1, <2>1 DEF Done
  <2>5. /\ IsFiniteSet((Calls \ {v}) \ {lock})
        /\ Cardinality((Calls \ {v}) \ {lock}) = m - 2
    <3>1. Cardinality((Calls \ {v}) \ {lock}) = Cardinality(Calls \ {v}) - 1
      BY <1>1, <2>4, FS_RemoveElement
    <3>2. IsFiniteSet((Calls \ {v}) \ {lock})
      BY <1>1, FS_RemoveElement
    <3> QED
      BY <1>1, <3>1, <3>2
  <2>6. n <= m - 2
    BY <2>4, <2>5, FS_Subset
  <2>7. n + 1 \in Nat /\ m - 1 \in Nat /\ n + 1 <= m - 1
    BY <1>1, <1>2, <2>6
  <2> HIDE DEF n, m
  <2>8. n * FetchTimeout \in Nat /\ (n + 1) * FetchTimeout = n * FetchTimeout + FetchTimeout
    BY <1>0, <1>2, TimesSuccessor
  <2>9. (n + 1) * FetchTimeout <= (m - 1) * FetchTimeout
    BY <1>0, <2>7, TimesMonotonic
  <2>10. (m - 1) * FetchTimeout \in Int
    BY <1>0, <2>7
  <2>11. clock - since[v] <= (m - 1) * FetchTimeout
    BY <1>0, <2>1, <2>2, <2>3, <2>8, <2>9, <2>10
  <2> QED
    BY <2>11 DEF m
<1> QED
  BY <1>3, <1>4

(* A call waits for the lock of JwksCache.get() no longer than one timeout *)
(* for every other call the process ever makes, whichever of them fail or  *)
(* are cancelled.                                                          *)
THEOREM ConvoyIsBounded == Spec => []ConvoyBounded
BY CacheInvariant, ConvoyBound, PTL

(***************************************************************************)
(* Places in the queue.                                                    *)
(***************************************************************************)

(* A queue with a place in it is not empty, and places are counted from 1. *)
LEMMA PlaceType ==
  ASSUME NEW q \in Seq(Calls), NEW i \in DOMAIN q
  PROVE  q # <<>> /\ i \in Nat /\ i >= 1
<1>1. i \in 1 .. Len(q) /\ Len(q) \in Nat
  OBVIOUS
<1>2. Len(q) # 0
  BY <1>1
<1> QED
  BY <1>1, <1>2

(* When the first has left the queue, everybody is one place further.      *)
LEMMA PlacesAdvance ==
  ASSUME NEW q \in Seq(Calls), \A k, l \in DOMAIN q : q[k] = q[l] => k = l, q # <<>>,
         NEW i \in DOMAIN q, NEW j \in DOMAIN Tail(q), Tail(q)[j] = q[i]
  PROVE  j = i - 1
<1>1. DOMAIN q = 1 .. Len(q) /\ Len(q) \in Nat
  OBVIOUS
<1>2. j \in 1 .. Len(q) - 1 /\ Tail(q)[j] = q[j + 1]
  OBVIOUS
<1>3. j + 1 \in DOMAIN q
  BY <1>1, <1>2
<1>4. j + 1 = i
  BY <1>2, <1>3
<1> QED
  BY <1>2, <1>4

(* Nobody falls back in it.                                                *)
LEMMA PlacesMove ==
  ASSUME CacheInv, [Next]_vars, NEW i \in DOMAIN queue, NEW j \in DOMAIN queue',
         queue'[j] = queue[i]
  PROVE  j <= i
<1>0. /\ queue \in Seq(Calls) /\ \A k, l \in DOMAIN queue : queue[k] = queue[l] => k = l
      /\ \A v \in Calls : pc[v] = "waiting" <=> \E k \in DOMAIN queue : queue[k] = v
  BY DEF CacheInv, TypeOK, LockInOrder
<1>1. /\ DOMAIN queue = 1 .. Len(queue) /\ Len(queue) \in Nat /\ queue # <<>>
      /\ i \in Nat
  BY <1>0, PlaceType
<1>2. CASE queue' = Tail(queue)
  <2>1. j \in DOMAIN Tail(queue) /\ Tail(queue)[j] = queue[i]
    BY <1>2
  <2>2. j = i - 1
    BY <1>0, <1>1, <2>1, PlacesAdvance
  <2> QED
    BY <1>1, <2>2
<1>3. CASE queue' = queue
  <2>1. j = i
    BY <1>0, <1>3
  <2> QED
    BY <1>1, <2>1
<1>4. ASSUME NEW v \in Calls, pc[v] = "idle", queue' = Append(queue, v)
      PROVE  j <= i
  <2>1. /\ DOMAIN queue' = 1 .. Len(queue) + 1 /\ queue'[Len(queue) + 1] = v
        /\ \A k \in DOMAIN queue : queue'[k] = queue[k]
    BY <1>0, <1>1, <1>4
  <2>2. queue[i] # v
    BY <1>0, <1>4
  <2>3. j \in DOMAIN queue
    BY <1>1, <2>1, <2>2
  <2>4. j = i
    BY <1>0, <2>1, <2>3
  <2> QED
    BY <1>1, <2>4
<1>5. ASSUME NEW v \in Calls, LeavesQueue(v)
      PROVE  j <= i
  <2>1. PICK k \in DOMAIN queue : queue' = RemoveAt(queue, k)
    BY <1>5 DEF LeavesQueue
  <2>2. /\ Len(queue') = Len(queue) - 1 /\ queue' \in Seq(Calls)
        /\ \A l \in 1 .. Len(queue) - 1 :
             queue'[l] = IF l < k THEN queue[l] ELSE queue[l + 1]
    <3> DEFINE r == RemoveAt(queue, k)
    <3>1. /\ r \in Seq(Calls) /\ Len(r) = Len(queue) - 1
          /\ \A l \in 1 .. Len(queue) - 1 : r[l] = IF l < k THEN queue[l] ELSE queue[l + 1]
      BY <1>0, RemoveAtShape
    <3>2. queue' = r
      BY <2>1
    <3> HIDE DEF r
    <3> QED
      BY <3>1, <3>2
  <2>3. j \in 1 .. Len(queue) - 1
    BY <1>1, <2>2
  <2>4. j \in DOMAIN queue /\ j + 1 \in DOMAIN queue
    BY <1>1, <2>3
  <2>5. i = j \/ i = j + 1
    BY <1>0, <2>2, <2>3, <2>4
  <2> QED
    BY <1>1, <2>3, <2>5
<1>6. \/ queue' = queue \/ queue' = Tail(queue)
      \/ \E v \in Calls : pc[v] = "idle" /\ queue' = Append(queue, v)
      \/ \E v \in Calls : LeavesQueue(v)
  BY DEF Next, vars, Refuse, Hit, Miss, WakeToHit, WakeToFetch, ProviderAnswers, Store,
         FetchFails, Cancel, Publish, Retire, Tick
<1> QED
  BY <1>2, <1>3, <1>4, <1>5, <1>6

(* While calls wait, the time at which the lock comes free is put off by   *)
(* the first of them alone, when it leaves the queue to fetch; and until   *)
(* then the clock does not pass it.                                        *)
LEMMA HandoverMoves ==
  ASSUME CacheInv, [Next]_vars, queue # <<>>
  PROVE  /\ Handover \in Int /\ Handover' \in Int /\ clock' <= Handover
         /\ \/ Handover' <= Handover
            \/ queue' = Tail(queue) /\ Handover' = Handover + FetchTimeout
<1> DEFINE Moves ==
             /\ Handover' \in Int
             /\ \/ Handover' <= Handover
                \/ queue' = Tail(queue) /\ Handover' = Handover + FetchTimeout
<1>0. /\ TypeOK /\ LockInOrder /\ None \notin Calls
      /\ clock \in Int /\ FetchTimeout \in Nat /\ \A u \in Calls : since[u] \in Int
      /\ lock \in Calls \cup {None} /\ since = [u \in Calls |-> since[u]]
      /\ \A v \in Calls : pc[v] = "fetching" <=> lock = v
  BY CallAssumption, TimeAssumption DEF CacheInv, TypeOK, LockInOrder
<1>1. Handover \in Int /\ clock <= Handover
  <2>1. CASE lock = None
    BY <1>0, <2>1 DEF Handover
  <2>2. CASE lock # None
    <3>1. lock \in Calls /\ clock <= since[lock] + FetchTimeout
      BY <1>0, <2>2 DEF CacheInv, Awaiting
    <3> QED
      BY <1>0, <2>2, <3>1 DEF Handover
  <2> QED
    BY <2>1, <2>2
<1>2. ASSUME UNCHANGED <<clock, lock>>, lock # None => since'[lock] = since[lock]
      PROVE  Moves
  <2>1. Handover' = Handover
    BY <1>2 DEF Handover
  <2> QED
    BY <1>1, <2>1
<1>3. ASSUME NEW v \in Calls, lock # v, since' = [since EXCEPT ![v] = since'[v]],
             UNCHANGED <<clock, lock>>
      PROVE  Moves
  <2>1. lock # None => since'[lock] = since[lock]
    BY <1>0, <1>3
  <2> QED
    BY <1>2, <1>3, <2>1
<1>4. ASSUME NEW v \in Calls, Refuse(v) \/ Hit(v) \/ WakeToHit(v)
      PROVE  Moves
  <2>1. UNCHANGED <<clock, lock>> /\ lock # v /\ \E code : Ends(v, code)
    <3>1. pc[v] = "idle" \/ lock = None
      BY <1>4 DEF Refuse, Hit, WakeToHit, MayWake
    <3> QED
      BY <1>0, <1>4, <3>1 DEF Refuse, Hit, WakeToHit
  <2>2. since' = [since EXCEPT ![v] = since'[v]]
    BY <1>0, <2>1 DEF Ends
  <2> QED
    BY <1>3, <2>1, <2>2
<1>5. ASSUME NEW v \in Calls, Miss(v)
      PROVE  Moves
  <2>1. pc[v] = "idle" /\ UNCHANGED <<clock, lock>> /\ since' = [since EXCEPT ![v] = clock]
    BY <1>5 DEF Miss
  <2>2. lock # v /\ since' = [since EXCEPT ![v] = since'[v]]
    BY <1>0, <2>1
  <2> QED
    BY <1>3, <2>1, <2>2
<1>6. ASSUME NEW v \in Calls, WakeToFetch(v)
      PROVE  Moves
  <2>1. /\ lock = None /\ lock' = v /\ clock' = clock /\ queue' = Tail(queue)
        /\ since'[v] = clock
    BY <1>0, <1>6 DEF WakeToFetch, MayWake, StartsFetch
  <2>2. Handover' = clock + FetchTimeout /\ Handover = clock
    BY <1>0, <2>1 DEF Handover
  <2> QED
    BY <1>0, <2>1, <2>2
<1>7. ASSUME NEW v \in Calls, pc[v] = "fetching", lock' = None, clock' = clock
      PROVE  Moves
  <2>1. Handover' = clock
    BY <1>7 DEF Handover
  <2> QED
    BY <1>0, <1>1, <2>1
<1>8. ASSUME NEW v \in Calls, Store(v) \/ FetchFails(v)
      PROVE  Moves
  BY <1>7, <1>8 DEF Store, FetchFails
<1>9. ASSUME NEW v \in Calls, Cancel(v)
      PROVE  Moves
  <2>1. CASE pc[v] = "fetching" /\ lock' = None
    BY <1>7, <1>9, <2>1 DEF Cancel
  <2>2. CASE pc[v] = "waiting" /\ UNCHANGED lock
    <3>1. lock # v /\ clock' = clock /\ since' = [since EXCEPT ![v] = since'[v]]
      BY <1>0, <1>9, <2>2 DEF Cancel, Ends
    <3> QED
      BY <1>1, <1>3, <2>2, <3>1
  <2> QED
    BY <1>9, <2>1, <2>2 DEF Cancel
<1>10. ASSUME \/ \E v \in Calls : ProviderAnswers(v)
              \/ \E k \in Kids : Publish(k) \/ Retire(k)
              \/ UNCHANGED vars
       PROVE  Moves
  BY <1>2, <1>10 DEF ProviderAnswers, Publish, Retire, vars
<1>11. ASSUME Tick
       PROVE  Moves /\ clock' <= Handover
  <2>1. /\ clock' = clock + 1 /\ lock # None /\ UNCHANGED <<lock, since>>
        /\ \A v \in Calls : pc[v] = "fetching" => clock < since[v] + FetchTimeout
    BY <1>11 DEF Tick
  <2>2. lock \in Calls /\ clock < since[lock] + FetchTimeout
    BY <1>0, <2>1
  <2>3. Moves
    <3>1. Handover' = Handover
      BY <2>1 DEF Handover
    <3> QED
      BY <1>1, <3>1
  <2>4. Handover = since[lock] + FetchTimeout
    BY <2>1 DEF Handover
  <2> QED
    BY <1>0, <2>1, <2>2, <2>3, <2>4
<1>12. Tick \/ clock' = clock
  BY DEF Next, vars, Refuse, Hit, Miss, WakeToHit, WakeToFetch, ProviderAnswers, Store,
         FetchFails, Cancel, Publish, Retire
<1> HIDE DEF Moves
<1>13. Moves
  BY <1>4, <1>5, <1>6, <1>8, <1>9, <1>10, <1>11 DEF Next
<1>14. clock' <= Handover
  BY <1>1, <1>11, <1>12
<1> QED
  BY <1>1, <1>13, <1>14 DEF Moves

(* So no place becomes due later.                                          *)
LEMMA DueStays ==
  ASSUME CacheInv, [Next]_vars, NEW i \in DOMAIN queue
  PROVE  /\ Due(i) \in Int /\ clock' <= Due(i)
         /\ \A j \in DOMAIN queue' : queue'[j] = queue[i] => Due(j)' <= Due(i)
<1> DEFINE T == FetchTimeout
<1>0. queue # <<>> /\ i \in Nat /\ i >= 1 /\ T \in Nat /\ queue' \in Seq(Calls)
  <2>1. queue \in Seq(Calls) /\ queue' \in Seq(Calls)
    BY CacheInvNext DEF CacheInv, TypeOK
  <2> QED
    BY <2>1, PlaceType, TimeAssumption
<1>1. /\ Handover \in Int /\ Handover' \in Int /\ clock' <= Handover
      /\ \/ Handover' <= Handover
         \/ queue' = Tail(queue) /\ Handover' = Handover + T
  BY <1>0, HandoverMoves
<1> HIDE DEF T
<1>2. i - 1 \in Nat /\ (i - 1) * T \in Nat
  BY <1>0, TimesSuccessor
<1>3. Due(i) = Handover + (i - 1) * T
  BY DEF Due, T
<1>4. Due(i) \in Int /\ clock' <= Due(i)
  <2>1. clock' \in Int
    BY CacheInvNext DEF CacheInv, TypeOK
  <2> QED
    BY <1>1, <1>2, <1>3, <2>1
<1>5. ASSUME NEW j \in DOMAIN queue', queue'[j] = queue[i]
      PROVE  Due(j)' <= Due(i)
  <2>1. j <= i /\ j \in Nat /\ j >= 1
    BY <1>0, <1>5, PlacesMove, PlaceType
  <2>2. j - 1 \in Nat /\ (j - 1) * T \in Nat /\ (j - 1) * T <= (i - 1) * T
    <3>1. j - 1 \in Nat /\ j - 1 <= i - 1
      BY <1>0, <2>1
    <3> QED
      BY <1>0, <1>2, <3>1, TimesMonotonic
  <2>3. Due(j)' = Handover' + (j - 1) * T
    BY DEF Due, T
  <2>4. CASE Handover' <= Handover
    <3> DEFINE a == (i - 1) * T
               b == (j - 1) * T
    <3>1. /\ a \in Int /\ b \in Int /\ b <= a
          /\ Due(i) = Handover + a /\ Due(j)' = Handover' + b
      BY <1>2, <1>3, <2>2, <2>3
    <3>2. Handover \in Int /\ Handover' \in Int
      BY <1>1
    <3> HIDE DEF a, b
    <3> QED
      BY <2>4, <3>1, <3>2, SumsMonotonic
  <2>5. CASE queue' = Tail(queue) /\ Handover' = Handover + T
    <3>0. j = i - 1
      <4>1. queue \in Seq(Calls) /\ \A k, l \in DOMAIN queue : queue[k] = queue[l] => k = l
        BY DEF CacheInv, TypeOK, LockInOrder
      <4>2. j \in DOMAIN Tail(queue) /\ Tail(queue)[j] = queue[i]
        BY <1>5, <2>5
      <4> QED
        BY <1>0, <4>1, <4>2, PlacesAdvance
    <3>1. (j - 1) + 1 = i - 1
      BY <1>0, <2>1, <3>0
    <3>2. (i - 1) * T = (j - 1) * T + T
      BY <1>0, <2>2, <3>1, TimesSuccessor
    <3> DEFINE a == (i - 1) * T
               b == (j - 1) * T
    <3>3. a = b + T /\ b \in Int /\ Due(i) = Handover + a /\ Due(j)' = Handover' + b
      BY <1>3, <2>2, <2>3, <3>2
    <3> HIDE DEF a, b
    <3> QED
      BY <1>0, <1>1, <2>5, <3>3
  <2> QED
    BY <1>1, <2>4, <2>5
<1> QED
  BY <1>4, <1>5

(* What its place promises a call, no later call, no cancellation and no   *)
(* failed fetch takes back.                                                *)
THEOREM PromisesAreKept == Spec => PlacesAreKept
<1>1. CacheInv /\ [Next]_vars =>
        [\A i \in DOMAIN queue :
           /\ clock' <= Due(i)
           /\ \A j \in DOMAIN queue' : queue'[j] = queue[i] => Due(j)' <= Due(i)]_vars
  BY DueStays
<1> QED
  BY <1>1, CacheInvariant, PTL DEF Spec, PlacesAreKept

(* Call v has the lock, or is through, or its place promises it for time d.*)
Expects(v, d) ==
  \/ pc[v] \in {"fetching", "done"}
  \/ \E i \in DOMAIN queue : queue[i] = v /\ clock <= d /\ Due(i) <= d

(* The promise lasts as long as the wait.                                  *)
LEMMA ExpectsNext ==
  ASSUME CacheInv, [Next]_vars, NEW v \in Calls, NEW d \in Int, Expects(v, d)
  PROVE  Expects(v, d)'
<1>0. /\ TypeOK /\ CacheInv' /\ pc \in [Calls -> {"idle", "waiting", "fetching", "done"}]
  BY CacheInvNext DEF CacheInv, TypeOK
<1>1. CASE pc[v] \in {"fetching", "done"}
  <2>1. pc'[v] \in {"fetching", "done"}
    BY <1>0, <1>1 DEF Next, vars, Refuse, Hit, Miss, WakeToHit, WakeToFetch, MayWake, Ends,
         StartsFetch, ProviderAnswers, Store, FetchFails, Cancel, Publish, Retire, Tick
  <2> QED
    BY <2>1 DEF Expects
<1>2. CASE \E i \in DOMAIN queue : queue[i] = v /\ clock <= d /\ Due(i) <= d
  <2>1. PICK i \in DOMAIN queue : queue[i] = v /\ Due(i) <= d
    BY <1>2
  <2>2. /\ Due(i) \in Int /\ clock' <= Due(i)
        /\ \A j \in DOMAIN queue' : queue'[j] = queue[i] => Due(j)' <= Due(i)
    BY DueStays
  <2>3. pc[v] = "waiting"
    BY <2>1 DEF CacheInv, LockInOrder
  <2>4. pc'[v] \in {"waiting", "fetching", "done"}
    BY <1>0, <2>3 DEF Next, vars, Refuse, Hit, Miss, WakeToHit, WakeToFetch, MayWake, Ends,
         StartsFetch, ProviderAnswers, Store, FetchFails, Cancel, Publish, Retire, Tick
  <2>5. CASE pc'[v] = "waiting"
    <3>1. PICK j \in DOMAIN queue' : queue'[j] = v
      BY <1>0, <2>5 DEF CacheInv, LockInOrder
    <3>2. Due(j)' <= Due(i)
      BY <2>1, <2>2, <3>1
    <3>3. Due(j)' \in Int /\ clock' \in Int
      <4>0. queue \in Seq(Calls) /\ queue' \in Seq(Calls)
        BY <1>0 DEF CacheInv, TypeOK
      <4>1. j \in Nat /\ j >= 1
        BY <4>0, PlaceType
      <4>2. queue # <<>>
        BY <4>0, <2>1, PlaceType
      <4>3. Handover' \in Int
        BY <4>2, HandoverMoves
      <4>4. j - 1 \in Nat /\ FetchTimeout \in Nat
        BY <4>1, TimeAssumption
      <4>5. (j - 1) * FetchTimeout \in Nat
        BY <4>4, TimesSuccessor
      <4> QED
        BY <1>0, <4>3, <4>5 DEF Due, CacheInv, TypeOK
    <3>4. Due(j)' <= d /\ clock' <= d
      BY <2>1, <2>2, <3>2, <3>3
    <3> QED
      BY <3>1, <3>4 DEF Expects
  <2>6. CASE pc'[v] \in {"fetching", "done"}
    BY <2>6 DEF Expects
  <2> QED
    BY <2>4, <2>5, <2>6
<1> QED
  BY <1>1, <1>2 DEF Expects

(* A call that is found at place n of the lock's queue waits no longer     *)
(* than n timeouts from then on: one for the open fetch and one for each   *)
(* of the n - 1 calls before it, whatever comes after it and whichever of  *)
(* them fail or are cancelled (JwksCache.get(), security.py:62).           *)
THEOREM WaitByPlace ==
  ASSUME NEW v \in Calls, NEW n \in Nat, NEW t \in Nat
  PROVE  Spec => [](n \in DOMAIN queue /\ queue[n] = v /\ clock = t
                      => [](pc[v] = "waiting" => clock <= t + n * FetchTimeout))
<1> DEFINE d == t + n * FetchTimeout
           Stands == n \in DOMAIN queue /\ queue[n] = v /\ clock = t
           InTime == pc[v] = "waiting" => clock <= d
<1>0. FetchTimeout \in Nat /\ n * FetchTimeout \in Nat /\ d \in Int
  BY TimeAssumption, TimesSuccessor
<1>1. CacheInv /\ Stands => Expects(v, d)
  <2>1. SUFFICES ASSUME CacheInv, Stands PROVE clock <= d /\ Due(n) <= d
    BY DEF Expects
  <2>2. /\ clock \in Int /\ lock \in Calls \cup {None} /\ queue \in Seq(Calls)
        /\ \A u \in Calls : since[u] \in Int
    BY <2>1, TimeAssumption DEF CacheInv, TypeOK
  <2>3. n - 1 \in Nat
    BY <2>1, <2>2, PlaceType
  <2>4. (n - 1) * FetchTimeout \in Nat
        /\ n * FetchTimeout = (n - 1) * FetchTimeout + FetchTimeout
    <3>1. ((n - 1) + 1) * FetchTimeout = (n - 1) * FetchTimeout + FetchTimeout
      BY <1>0, <2>3, TimesSuccessor
    <3>2. (n - 1) + 1 = n
      OBVIOUS
    <3>3. (n - 1) * FetchTimeout \in Nat
      BY <1>0, <2>3, TimesSuccessor
    <3> QED
      BY <3>1, <3>2, <3>3
  <2>5. Handover \in Int /\ Handover <= clock + FetchTimeout
    <3>1. CASE lock = None
      BY <1>0, <2>2, <3>1 DEF Handover
    <3>2. CASE lock # None
      <4>1. lock \in Calls /\ pc[lock] = "fetching"
        BY <2>1, <2>2, <3>2 DEF CacheInv, LockInOrder
      <4>2. since[lock] <= clock
        BY <2>1, <4>1 DEF CacheInv, Awaiting
      <4> QED
        BY <1>0, <2>2, <3>2, <4>1, <4>2 DEF Handover
    <3> QED
      BY <3>1, <3>2
  <2> DEFINE a == (n - 1) * FetchTimeout
             b == n * FetchTimeout
  <2>6. a \in Nat /\ b = a + FetchTimeout /\ d = t + b /\ Due(n) = Handover + a /\ clock = t
    BY <2>1, <2>4 DEF Due
  <2> HIDE DEF a, b, d
  <2> QED
    BY <1>0, <2>2, <2>5, <2>6
<1>2. Expects(v, d) /\ CacheInv => InTime
  BY DEF Expects
<1> HIDE DEF d
<1>3. CacheInv /\ Expects(v, d) /\ [Next]_vars => Expects(v, d)'
  BY <1>0, ExpectsNext
<1> HIDE DEF Stands, InTime
<1>4. Spec => [](Stands => []InTime)
  BY <1>1, <1>2, <1>3, CacheInvariant, PTL DEF Spec
<1> QED
  BY <1>4 DEF Stands, InTime, d

(* No fetch begins while the document is fresh, nor during another.        *)
LEMMA SingleFlightStep ==
  ASSUME CacheInv, [Next]_vars, NEW v \in Calls, pc[v] # "fetching", pc'[v] = "fetching"
  PROVE  ~Fresh /\ \A w \in Calls : pc[w] # "fetching"
<1>0. /\ LockInOrder /\ None \notin Calls
      /\ pc \in [Calls -> {"idle", "waiting", "fetching", "done"}]
  BY CallAssumption DEF CacheInv, TypeOK
<1>1. \E u \in Calls : Miss(u) \/ WakeToFetch(u)
  <2>1. ASSUME NEW u \in Calls, NEW code, Ends(u, code)
        PROVE  FALSE
    BY <1>0, <2>1 DEF Ends
  <2> QED
    BY <1>0, <2>1 DEF Next, vars, Refuse, Hit, WakeToHit, ProviderAnswers, Store, FetchFails,
                      Cancel, Publish, Retire, Tick
<1>2. lock = None /\ ~Fresh
  <2>1. PICK u \in Calls : Miss(u) \/ WakeToFetch(u)
    BY <1>1
  <2>2. CASE Miss(u)
    <3>1. lock = None
      BY <1>0, <2>2 DEF Miss
    <3> QED
      BY <2>2, <3>1 DEF Miss
  <2>3. CASE WakeToFetch(u)
    BY <2>3 DEF WakeToFetch, MayWake
  <2> QED
    BY <2>1, <2>2, <2>3
<1> QED
  BY <1>0, <1>2 DEF LockInOrder

(* The second check under the lock: no fetch begins while another is open  *)
(* or while the stored document is fresh.                                  *)
THEOREM FetchesAreSingle == Spec => SingleFlight
<1>1. CacheInv /\ [Next]_vars =>
        [\A v \in Calls :
           pc[v] # "fetching" /\ pc'[v] = "fetching" =>
             /\ ~Fresh
             /\ \A w \in Calls : pc[w] # "fetching"]_vars
  BY SingleFlightStep
<1> QED
  BY <1>1, CacheInvariant, PTL DEF Spec, SingleFlight

(* A key judged by a document of instant t, a Window ago at most, is       *)
(* judged as the provider would have then.                                 *)
LEMMA JudgedByDocument ==
  ASSUME TypeOK, NEW ks, NEW t \in Nat, t <= clock, clock <= t + Window,
         AsPublished(ks, t), NEW x \in Tokens
  PROVE  LET k == published[x.kid]
         IN  /\ Judge(x, ks) = "OK" => k.from <= clock /\ clock <= k.until + Window
             /\ Judge(x, ks) = "UNKNOWN_KEY" =>
                  clock <= k.from + Window \/ k.until <= clock
<1>1. x.kid \in Kids
  BY TokenAssumption DEF Token
<1>2. /\ published[x.kid].from \in Nat /\ published[x.kid].until \in Nat
      /\ clock \in Nat /\ Window \in Nat
  BY <1>1, TimeAssumption DEF TypeOK, Forever, Window
<1>3. /\ Judge(x, ks) = "OK" => x.kid \in ks
      /\ Judge(x, ks) = "UNKNOWN_KEY" => x.kid \notin ks
  BY DEF Judge
<1>4. IF x.kid \in ks THEN published[x.kid].from <= t /\ t <= published[x.kid].until
                      ELSE t <= published[x.kid].from \/ published[x.kid].until <= t
  BY <1>1 DEF AsPublished
<1> QED
  BY <1>2, <1>3, <1>4

(* A verdict is given by keys as they were published at some time within   *)
(* the window before it.                                                   *)
LEMMA VerdictStep ==
  ASSUME CacheInv, [Next]_vars, NEW v \in Calls, verdict'[v] # verdict[v]
  PROVE  LET k == published[token'[v].kid]
         IN  /\ verdict'[v] = "OK" => k.from <= clock /\ clock <= k.until + Window
             /\ verdict'[v] = "UNKNOWN_KEY" =>
                  clock <= k.from + Window \/ k.until <= clock
<1>0. /\ TypeOK /\ CachedOnce /\ LockInOrder
      /\ clock \in Nat /\ expires \in Nat /\ Window \in Nat /\ FetchTimeout \in Nat /\ TTL \in Nat
      /\ verdict \in [Calls -> Codes \cup {None}] /\ token \in [Calls -> Tokens \cup {None}]
      /\ queue \in Seq(Calls)
  BY TimeAssumption DEF CacheInv, TypeOK, Window
<1>1. ASSUME NEW u \in Calls, NEW code, Ends(u, code)
      PROVE  u = v /\ verdict'[v] = code
  BY <1>0, <1>1 DEF Ends
<1>2. CASE verdict'[v] \notin {"OK", "UNKNOWN_KEY"}
  BY <1>2
<1>3. ASSUME Fresh
      PROVE  \E t \in Nat : t <= clock /\ clock <= t + Window /\ AsPublished(keys, t)
  <2>1. PICK t \in 0 .. clock : expires - Window <= t /\ AsPublished(keys, t)
    BY <1>3 DEF CacheInv, CachedOnce, Fresh
  <2>2. clock < expires
    BY <1>3 DEF Fresh
  <2>3. t \in Nat /\ t <= clock /\ clock <= t + Window
    BY <1>0, <2>1, <2>2
  <2> QED
    BY <2>1, <2>3
<1>4. CASE Hit(v)
  <2>1. PICK x \in Tokens : token' = [token EXCEPT ![v] = x] /\ Ends(v, Judge(x, keys))
    BY <1>4 DEF Hit
  <2>2. token'[v] = x /\ verdict'[v] = Judge(x, keys)
    BY <1>0, <1>1, <2>1
  <2>3. PICK t \in Nat : t <= clock /\ clock <= t + Window /\ AsPublished(keys, t)
    BY <1>3, <1>4 DEF Hit
  <2> QED
    BY <1>0, <2>2, <2>3, JudgedByDocument
<1>5. CASE WakeToHit(v)
  <2>1. token'[v] = token[v] /\ verdict'[v] = Judge(token[v], keys)
    BY <1>1, <1>5 DEF WakeToHit
  <2>2. token[v] \in Tokens
    <3>1. 1 \in DOMAIN queue /\ queue[1] = v
      BY <1>0, <1>5 DEF WakeToHit, MayWake
    <3>2. pc[v] = "waiting"
      BY <1>0, <3>1 DEF LockInOrder
    <3> QED
      BY <3>2 DEF CacheInv, Awaiting
  <2>3. PICK t \in Nat : t <= clock /\ clock <= t + Window /\ AsPublished(keys, t)
    BY <1>3, <1>5 DEF WakeToHit
  <2> QED
    BY <1>0, <2>1, <2>2, <2>3, JudgedByDocument
<1>6. CASE Store(v)
  <2>1. /\ token'[v] = token[v] /\ verdict'[v] = Judge(token[v], document[v])
        /\ pc[v] = "fetching" /\ document[v] # None
    BY <1>1, <1>6 DEF Store
  <2>2. token[v] \in Tokens /\ clock <= since[v] + FetchTimeout /\ since[v] \in Nat
    BY <2>1 DEF CacheInv, Awaiting, TypeOK
  <2>3. PICK t \in since[v] .. clock : AsPublished(document[v], t)
    BY <2>1 DEF CacheInv, Answered
  <2>4. t \in Nat /\ t <= clock /\ clock <= t + Window
    BY <1>0, <2>2, <2>3 DEF Window
  <2> QED
    BY <1>0, <2>1, <2>2, <2>3, <2>4, JudgedByDocument
<1>7. CASE UNCHANGED verdict
  BY <1>7
<1>8. ASSUME NEW u \in Calls, Refuse(u) \/ FetchFails(u) \/ Cancel(u)
      PROVE  verdict'[v] \notin {"OK", "UNKNOWN_KEY"}
  BY <1>1, <1>8 DEF Refuse, FetchFails, Cancel
<1>9. ASSUME NEW u \in Calls, Hit(u) \/ WakeToHit(u) \/ Store(u)
      PROVE  u = v
  BY <1>1, <1>9 DEF Hit, WakeToHit, Store
<1>10. \/ UNCHANGED verdict
       \/ \E u \in Calls : Refuse(u) \/ FetchFails(u) \/ Cancel(u)
       \/ \E u \in Calls : Hit(u) \/ WakeToHit(u) \/ Store(u)
  BY DEF Next, vars, Miss, WakeToFetch, ProviderAnswers, Publish, Retire, Tick
<1> QED
  BY <1>2, <1>4, <1>5, <1>6, <1>7, <1>8, <1>9, <1>10

(* Whatever fetches overlap a rotation, fail or are abandoned, a token is  *)
(* accepted and refused by keys at most a TTL and a fetch old.             *)
THEOREM VerdictsFollow == Spec => VerdictsFollowProvider
<1>1. CacheInv /\ [Next]_vars =>
        [\A v \in Calls : verdict'[v] # verdict[v] =>
           LET k == published[token'[v].kid]
           IN  /\ verdict'[v] = "OK" => k.from <= clock /\ clock <= k.until + Window
               /\ verdict'[v] = "UNKNOWN_KEY" =>
                    clock <= k.from + Window \/ k.until <= clock]_vars
  BY VerdictStep
<1> QED
  BY <1>1, CacheInvariant, PTL DEF Spec, VerdictsFollowProvider

=============================================================================
