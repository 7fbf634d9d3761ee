-------------------------- MODULE LocationWalkProofs --------------------------
(* What a walk over the pages of GET /v1/locations may miss, and that its  *)
(* answers are current, for any tables, names, limits and writes.          *)
EXTENDS LocationWalk, SequenceTheorems, FunctionTheorems, FiniteSetTheorems, TLAPS

(***************************************************************************)
(* The order of a statement.                                               *)
(***************************************************************************)
LEMMA SeesFinite ==
  ASSUME NEW c \in Claims
  PROVE  /\ Sees(c) \subseteq Slugs
         /\ IsFiniteSet(Sees(c)) /\ Cardinality(Sees(c)) \in Nat
<1>1. Sees(c) \subseteq Slugs
  BY WalkAssumption DEF Sees
<1>2. IsFiniteSet(Sees(c))
  BY <1>1, WalkAssumption, FS_Subset
<1> QED
  BY <1>1, <1>2, FS_CardinalityType

(* The rows ordered before a row are among those the token sees.           *)
LEMMA BelowFinite ==
  ASSUME NEW c \in Claims, NEW s \in Slugs
  PROVE  /\ Below(c, s) \subseteq Sees(c)
         /\ IsFiniteSet(Below(c, s)) /\ Cardinality(Below(c, s)) \in Nat
<1>1. Below(c, s) \subseteq Sees(c)
  BY DEF Below
<1>2. IsFiniteSet(Below(c, s))
  BY <1>1, SeesFinite, FS_Subset
<1> QED
  BY <1>1, <1>2, FS_CardinalityType

(* Fewer rows sort before an earlier name.                                 *)
LEMMA BelowOrdered ==
  ASSUME NEW c \in Claims, NEW s \in Sees(c), NEW t \in Slugs, NameRank[s] < NameRank[t]
  PROVE  Cardinality(Below(c, s)) < Cardinality(Below(c, t))
<1>0. s \in Slugs /\ Sees(c) \subseteq Slugs /\ \A x \in Slugs : NameRank[x] \in Nat
  BY SeesFinite, WalkAssumption
<1>1. Below(c, s) \subseteq Below(c, t)
  BY <1>0 DEF Below
<1>2. s \in Below(c, t) /\ s \notin Below(c, s)
  BY <1>0 DEF Below
<1>3. /\ IsFiniteSet(Below(c, t)) /\ Cardinality(Below(c, t)) \in Nat
      /\ Cardinality(Below(c, s)) \in Nat
  BY <1>0, BelowFinite
<1>4. Cardinality(Below(c, s)) <= Cardinality(Below(c, t))
  BY <1>1, <1>3, FS_Subset
<1>5. Cardinality(Below(c, s)) # Cardinality(Below(c, t))
  BY <1>1, <1>2, <1>3, FS_Subset
<1> QED
  BY <1>3, <1>4, <1>5

(* Rows of unique names have places of their own.                          *)
LEMMA BelowDistinct ==
  ASSUME NEW c \in Claims, NEW s \in Sees(c), NEW t \in Sees(c), s # t, Unique(s)
  PROVE  Cardinality(Below(c, s)) # Cardinality(Below(c, t))
<1>0. s \in Slugs /\ t \in Slugs /\ NameRank[s] \in Nat /\ NameRank[t] \in Nat
  BY SeesFinite, WalkAssumption
<1>1. NameRank[s] # NameRank[t]
  BY <1>0 DEF Unique
<1>2. Cardinality(Below(c, s)) \in Nat /\ Cardinality(Below(c, t)) \in Nat
  BY <1>0, BelowFinite
<1>3. CASE NameRank[s] < NameRank[t]
  BY <1>0, <1>2, <1>3, BelowOrdered
<1>4. CASE NameRank[t] < NameRank[s]
  BY <1>0, <1>2, <1>4, BelowOrdered
<1> QED
  BY <1>0, <1>1, <1>3, <1>4

(* A row is not among those before it.                                     *)
LEMMA BelowAll ==
  ASSUME NEW c \in Claims, NEW s \in Sees(c)
  PROVE  Cardinality(Below(c, s)) < Cardinality(Sees(c))
<1>0. s \in Slugs /\ NameRank[s] \in Nat
  BY SeesFinite, WalkAssumption
<1>1. Below(c, s) \subseteq Sees(c) /\ s \notin Below(c, s)
  BY <1>0 DEF Below
<1>2. /\ IsFiniteSet(Sees(c)) /\ Cardinality(Sees(c)) \in Nat
      /\ Cardinality(Below(c, s)) \in Nat
  BY <1>0, SeesFinite, BelowFinite
<1>3. Cardinality(Below(c, s)) <= Cardinality(Sees(c))
  BY <1>1, <1>2, FS_Subset
<1>4. Cardinality(Below(c, s)) # Cardinality(Sees(c))
  BY <1>1, <1>2, FS_Subset
<1> QED
  BY <1>2, <1>3, <1>4

(* An order of a result lists each of its rows once, by name (order by     *)
(* name).                                                                  *)
LEMMA OrderShape ==
  ASSUME NEW c \in Claims, NEW o \in Orders(Sees(c))
  PROVE  /\ o \in Seq(Slugs) /\ Len(o) = Cardinality(Sees(c))
         /\ o \in [1 .. Cardinality(Sees(c)) -> Sees(c)]
         /\ \A i, j \in 1 .. Cardinality(Sees(c)) : i # j => o[i] # o[j]
         /\ \A i, j \in 1 .. Cardinality(Sees(c)) : i < j => NameRank[o[i]] <= NameRank[o[j]]
         /\ \A s \in Sees(c) : \E i \in 1 .. Cardinality(Sees(c)) : o[i] = s
<1> DEFINE S == Sees(c)
           n == Cardinality(S)
<1>1. S \subseteq Slugs /\ IsFiniteSet(S) /\ n \in Nat
  BY SeesFinite
<1>2. /\ o \in [1 .. n -> S]
      /\ \A i, j \in 1 .. n : i # j => o[i] # o[j]
      /\ \A i, j \in DOMAIN o : i < j => NameRank[o[i]] <= NameRank[o[j]]
  BY DEF Orders, SetToSeqs
<1> HIDE DEF S, n
<1>3. o \in Seq(Slugs) /\ Len(o) = n /\ DOMAIN o = 1 .. n
  <2>1. o \in [1 .. n -> Slugs]
    BY <1>1, <1>2
  <2> QED
    BY <1>1, <2>1
<1>4. \A s \in S : \E i \in 1 .. n : o[i] = s
  <2>1. o \in Injection(1 .. n, S)
    BY <1>2, Fun_IsInj
  <2>2. Cardinality(1 .. n) = n
    <3>1. Cardinality(1 .. n) = IF 1 > n THEN 0 ELSE n - 1 + 1
      BY <1>1, FS_Interval
    <3> QED
      BY <1>1, <3>1
  <2>3. Cardinality(1 .. n) = Cardinality(S)
    BY <2>2 DEF n
  <2>4. o \in Surjection(1 .. n, S)
    <3>1. IsFiniteSet(S)
      BY <1>1
    <3> QED
      BY ONLY <2>1, <2>3, <3>1, FS_Injection, Zenon
  <2> QED
    BY <2>4 DEF Surjection
<1> QED
  BY <1>2, <1>3, <1>4 DEF S, n

(* Wherever the ties go, a row of a unique name comes right after those    *)
(* below it.                                                               *)
LEMMA Position ==
  ASSUME NEW c \in Claims, NEW o \in Orders(Sees(c)), NEW s \in Sees(c), Unique(s)
  PROVE  /\ Cardinality(Below(c, s)) + 1 \in 1 .. Len(o)
         /\ o[Cardinality(Below(c, s)) + 1] = s
<1> DEFINE n == Cardinality(Sees(c))
<1>1. /\ n \in Nat /\ Len(o) = n
      /\ o \in [1 .. n -> Sees(c)]
      /\ \A i, j \in 1 .. n : i # j => o[i] # o[j]
      /\ \A i, j \in 1 .. n : i < j => NameRank[o[i]] <= NameRank[o[j]]
      /\ \A x \in Sees(c) : \E i \in 1 .. n : o[i] = x
  BY OrderShape, SeesFinite
<1> HIDE DEF n
<1>2. /\ Sees(c) \subseteq Slugs /\ \A x \in Slugs : NameRank[x] \in Nat
      /\ \A x \in Sees(c) \ {s} : NameRank[x] # NameRank[s]
  BY SeesFinite, WalkAssumption DEF Unique
<1>3. PICK p \in 1 .. n : o[p] = s
  BY <1>1
<1>4. \A i \in 1 .. n : o[i] \in Below(c, s) <=> i < p
  <2> SUFFICES ASSUME NEW i \in 1 .. n
               PROVE  o[i] \in Below(c, s) <=> i < p
    OBVIOUS
  <2>1. o[i] \in Sees(c) /\ NameRank[o[i]] \in Nat /\ NameRank[s] \in Nat
    BY <1>1, <1>2
  <2>2. CASE i < p
    <3>1. NameRank[o[i]] <= NameRank[s] /\ o[i] # s
      BY <1>1, <1>3, <2>2
    <3> QED
      BY <1>2, <2>1, <2>2, <3>1 DEF Below
  <2>3. CASE i = p
    BY <1>1, <1>3, <2>1, <2>3 DEF Below
  <2>4. CASE i > p
    <3>1. NameRank[s] <= NameRank[o[i]]
      BY <1>1, <1>3, <2>4
    <3> QED
      BY <1>1, <2>1, <2>4, <3>1 DEF Below
  <2> QED
    BY <1>1, <2>2, <2>3, <2>4
<1> DEFINE f == [i \in 1 .. p - 1 |-> o[i]]
<1>5. /\ p - 1 \in Nat /\ 1 .. p - 1 \subseteq 1 .. n
      /\ \A i \in 1 .. n : i < p <=> i \in 1 .. p - 1
  BY <1>1
<1>6. f \in [1 .. p - 1 -> Below(c, s)]
  BY <1>4, <1>5
<1>7. \A i, j \in 1 .. p - 1 : f[i] = f[j] => i = j
  BY <1>1, <1>5
<1>8. \A x \in Below(c, s) : \E i \in 1 .. p - 1 : f[i] = x
  <2> SUFFICES ASSUME NEW x \in Below(c, s)
               PROVE  \E i \in 1 .. p - 1 : f[i] = x
    OBVIOUS
  <2>1. PICK i \in 1 .. n : o[i] = x
    BY <1>1 DEF Below
  <2>2. i \in 1 .. p - 1
    BY <1>4, <1>5, <2>1
  <2> QED
    BY <2>1, <2>2
<1> HIDE DEF f
<1>9. Cardinality(Below(c, s)) = p - 1
  <2>1. f \in Bijection(1 .. p - 1, Below(c, s))
    BY <1>6, <1>7, <1>8, Fun_IsBij
  <2>2. ExistsBijection(1 .. p - 1, Below(c, s))
    BY <2>1 DEF ExistsBijection
  <2> QED
    BY <1>5, <2>2, FS_CountingElements
<1>10. Cardinality(Below(c, s)) + 1 = p /\ p \in 1 .. Len(o)
  BY <1>1, <1>9
<1> QED
  BY <1>3, <1>10

(***************************************************************************)
(* A page.                                                                 *)
(***************************************************************************)
LEMMA MinOfTwo ==
  ASSUME NEW a \in Int, NEW b \in Int
  PROVE  Min({a, b}) = IF a <= b THEN a ELSE b
<1> DEFINE m == IF a <= b THEN a ELSE b
<1>1. m \in {a, b} /\ \A y \in {a, b} : m <= y
  OBVIOUS
<1>2. \A x \in {a, b} : (\A y \in {a, b} : x <= y) => x = m
  OBVIOUS
<1> QED
  BY <1>1, <1>2 DEF Min

(* A page is a sequence of rows of the result, those at its places.        *)
LEMMA SliceShape ==
  ASSUME NEW o \in Seq(Slugs), NEW lim \in Nat, NEW off \in Nat
  PROVE  /\ Slice(o, lim, off) \in Seq(Slugs)
         /\ \A p \in 1 .. Len(o) : off < p /\ p <= off + lim => o[p] \in Range(Slice(o, lim, off))
<1> DEFINE e == Min({off + lim, Len(o)})
           sl == SubSeq(o, off + 1, e)
<1>1. /\ Len(o) \in Nat /\ e \in Int /\ e <= Len(o) /\ off + 1 \in Int
      /\ e = off + lim \/ e = Len(o)
  <2>1. off + lim \in Int /\ Len(o) \in Int
    OBVIOUS
  <2>2. e = IF off + lim <= Len(o) THEN off + lim ELSE Len(o)
    BY <2>1, MinOfTwo
  <2> HIDE DEF e
  <2> QED
    BY <2>1, <2>2
<1>2. \A i \in off + 1 .. e : o[i] \in Slugs
  BY <1>1
<1> HIDE DEF e
<1>3. /\ sl \in Seq(Slugs)
      /\ Len(sl) = IF off + 1 <= e THEN e - (off + 1) + 1 ELSE 0
      /\ \A i \in 1 .. e - (off + 1) + 1 : sl[i] = o[off + 1 + i - 1]
  <2>1. off + 1 \in Int /\ e \in Int
    BY <1>1
  <2> QED
    BY <1>2, <2>1, SubSeqProperties
<1>4. Slice(o, lim, off) = sl
  BY DEF Slice, e
<1> HIDE DEF sl
<1>5. ASSUME NEW p \in 1 .. Len(o), off < p, p <= off + lim
      PROVE  o[p] \in Range(sl)
  <2>1. p <= e
    BY <1>1, <1>5
  <2>2. p - off \in DOMAIN sl
    BY <1>1, <1>3, <1>5, <2>1
  <2>3. p - off \in 1 .. e - (off + 1) + 1 /\ off + 1 + (p - off) - 1 = p
    BY <1>1, <1>5, <2>1
  <2>4. sl[p - off] = o[p]
    BY <1>3, <2>3
  <2> QED
    BY <2>2, <2>4 DEF Range
<1> QED
  BY <1>3, <1>4, <1>5

(* What the server may answer now.                                         *)
LEMMA AnswerShape ==
  ASSUME TypeOK, NEW w \in Walkers, claim[w] \in Claims, limit[w] \in Limits, limit[w] >= 0,
         NEW answer \in Answers(w)
  PROVE  /\ answer \in Paginated
         /\ answer.page = build_page(limit[w], offset[w], total[w])
         /\ \E o \in Orders(Sees(claim[w])) : answer.data = Slice(o, limit[w], offset[w])
<1>1. PICK o \in Orders(Sees(claim[w])) :
        answer = [data   |-> Slice(o, limit[w], offset[w]),
                  page   |-> build_page(limit[w], offset[w], total[w]),
                  tenant |-> claim[w].tenant]
  BY DEF Answers
<1>2. limit[w] \in Nat /\ offset[w] \in Nat /\ total[w] \in Nat
  <2>1. limit[w] \in Int
    BY WalkAssumption
  <2> QED
    BY <2>1 DEF TypeOK
<1>3. o \in Seq(Slugs)
  BY OrderShape
<1>4. answer.data \in Seq(Slugs)
  BY <1>1, <1>2, <1>3, SliceShape
<1>5. build_page(limit[w], offset[w], total[w]) \in PageInfo
  BY <1>2 DEF build_page, PageInfo
<1>6. claim[w].tenant \in {c.tenant : c \in Claims}
  OBVIOUS
<1> QED
  BY <1>1, <1>4, <1>5, <1>6 DEF Paginated

(* A 304 names the answer the server has at hand.                          *)
LEMMA KeptIsAnswer ==
  ASSUME TypeOK, NEW w \in Walkers, NEW answer \in Paginated, matches(copy[w], answer)
  PROVE  copy[w] = answer
<1>1. copy[w] \in Paginated
  BY DEF TypeOK, matches
<1>2. /\ copy[w].tenant = answer.tenant /\ copy[w].data = answer.data
      /\ copy[w].page = answer.page
  BY DEF matches, Tag, compute_etag
<1> QED
  BY <1>1, <1>2 DEF Paginated

(* A page that does not fail gives the client an answer of the server, and *)
(* the cache changes at its URL only.                                      *)
LEMMA PageTakes ==
  ASSUME TypeOK, NEW w \in Walkers, Asks(w), Page(w)
  PROVE  /\ claim[w] \in Claims /\ limit[w] \in Limits /\ limit[w] \in Nat
         /\ \E answer \in Answers(w) :
              /\ Takes(w, answer)
              /\ \/ cache' = cache
                 \/ cache' = [url \in DOMAIN cache \cup {Url(w)} |->
                                IF url = Url(w) THEN answer ELSE cache[url]]
<1>1. pc[w] = "page" /\ limit[w] >= 0
  BY DEF Page
<1>2. claim[w] \in Claims /\ limit[w] \in Limits /\ limit[w] \in Nat
  <2>1. claim[w] \in Claims /\ limit[w] \in Limits
    BY <1>1 DEF Asks
  <2>2. limit[w] \in Int
    BY <2>1, WalkAssumption
  <2> QED
    BY <1>1, <2>1, <2>2
<1>3. PICK answer \in Answers(w) :
        IF matches(copy[w], answer)
        THEN Takes(w, copy[w]) /\ UNCHANGED cache
        ELSE /\ Takes(w, answer)
             /\ cache' = [url \in DOMAIN cache \cup {Url(w)} |->
                            IF url = Url(w) THEN answer ELSE cache[url]]
  BY DEF Page
<1>4. answer \in Paginated
  BY <1>1, <1>2, AnswerShape
<1>5. CASE matches(copy[w], answer)
  <2>1. copy[w] = answer
    BY <1>4, <1>5, KeptIsAnswer
  <2> QED
    BY <1>2, <1>3, <1>5, <2>1
<1>6. CASE ~matches(copy[w], answer)
  BY <1>2, <1>3, <1>6
<1> QED
  BY <1>5, <1>6

(***************************************************************************)
(* Types.                                                                  *)
(***************************************************************************)
LEMMA InitInv == Init => WalkInv
<1> SUFFICES ASSUME Init PROVE WalkInv
  OBVIOUS
<1>1. 0 \in Nat /\ 0 \in 0 .. MaxWrites
  BY WalkAssumption
<1>2. TypeOK
  <2>1. \A row \in rows : row[2] \in Slugs
    BY WalkAssumption DEF Init
  <2>2. DOMAIN cache = {}
    BY DEF Init
  <2>3. /\ pc \in [Walkers -> {"idle", "send", "count", "page", "done", "failed"}]
        /\ claim \in [Walkers -> Claims \cup {None}]
        /\ limit \in [Walkers -> Limits \cup {None}]
        /\ copy \in [Walkers -> Paginated \cup {None}]
        /\ taken \in [Walkers -> Paginated \cup {None}]
        /\ got \in [Walkers -> SUBSET Slugs] /\ steady \in [Walkers -> SUBSET Slugs]
    BY DEF Init
  <2>4. /\ offset \in [Walkers -> Nat] /\ total \in [Walkers -> Nat] /\ writes \in 0 .. MaxWrites
        /\ left \in [Walkers -> 0 .. MaxWrites] /\ late \in [Walkers -> 0 .. MaxWrites]
    BY <1>1 DEF Init
  <2> QED
    BY <2>1, <2>2, <2>3, <2>4 DEF TypeOK
<1>3. \A w \in Walkers : pc[w] = "idle" /\ offset[w] = 0 /\ left[w] <= writes /\ late[w] <= writes
  BY DEF Init
<1> QED
  BY <1>2, <1>3 DEF WalkInv, MissedBounded, Asks, Keeps, Walking

(* Every step keeps the types.                                             *)
LEMMA TypeNext ==
  ASSUME TypeOK, \A w \in Walkers : Asks(w), [Next]_vars
  PROVE  TypeOK'
<1>0. MaxWrites \in Nat /\ writes \in Nat /\ writes <= MaxWrites /\ 0 \in 0 .. MaxWrites
  BY WalkAssumption DEF TypeOK
<1>1. ASSUME NEW w \in Walkers, Start(w) PROVE TypeOK'
  <2>1. PICK c \in Claims, lim \in Limits :
          /\ claim' = [claim EXCEPT ![w] = c]
          /\ limit' = [limit EXCEPT ![w] = lim]
          /\ steady' = [steady EXCEPT ![w] = Sees(c)]
    BY <1>1 DEF Start
  <2>2. Sees(c) \in SUBSET Slugs
    BY SeesFinite
  <2>3. steady' \in [Walkers -> SUBSET Slugs]
    BY <2>1, <2>2 DEF TypeOK
  <2>4. /\ claim' \in [Walkers -> Claims \cup {None}]
        /\ limit' \in [Walkers -> Limits \cup {None}]
    BY <2>1 DEF TypeOK
  <2> QED
    BY <1>1, <2>3, <2>4 DEF Start, TypeOK, Goto
<1>2. ASSUME NEW w \in Walkers, Send(w) PROVE TypeOK'
  <2>1. IF Url(w) \in DOMAIN cache THEN cache[Url(w)] \in Paginated ELSE TRUE
    BY DEF TypeOK
  <2>2. copy' \in [Walkers -> Paginated \cup {None}]
    BY <1>2, <2>1 DEF Send, TypeOK
  <2>3. taken' \in [Walkers -> Paginated \cup {None}]
    BY <1>2 DEF Send, TypeOK
  <2> QED
    BY <1>2, <2>2, <2>3 DEF Send, TypeOK, Goto, history
<1>3. ASSUME NEW w \in Walkers, Count(w) PROVE TypeOK'
  <2>1. Cardinality(Sees(claim[w])) \in Nat
    BY <1>3, SeesFinite DEF Count, Asks
  <2>2. total' \in [Walkers -> Nat] /\ late' \in [Walkers -> 0 .. MaxWrites]
    BY <1>0, <1>3, <2>1 DEF Count, TypeOK
  <2> QED
    BY <1>3, <2>2 DEF Count, TypeOK, Goto
<1>4. ASSUME NEW w \in Walkers, Page(w) PROVE TypeOK'
  <2>1. PICK answer \in Answers(w) :
          /\ Takes(w, answer)
          /\ \/ cache' = cache
             \/ cache' = [url \in DOMAIN cache \cup {Url(w)} |->
                            IF url = Url(w) THEN answer ELSE cache[url]]
    BY <1>4, PageTakes
  <2>2. claim[w] \in Claims /\ limit[w] \in Limits /\ limit[w] \in Nat
    BY <1>4, PageTakes
  <2>3. /\ answer \in Paginated
        /\ answer.page = build_page(limit[w], offset[w], total[w])
    BY <2>2, AnswerShape
  <2>4. answer.data \in Seq(Slugs) /\ Range(answer.data) \subseteq Slugs
    <3>1. answer.data \in Seq(Slugs)
      BY <2>3 DEF Paginated
    <3> QED
      BY <3>1 DEF Range
  <2>5. offset[w] \in Nat /\ answer.page.offset + answer.page.limit \in Nat
    BY <2>2, <2>3 DEF build_page, TypeOK
  <2>6. /\ DOMAIN cache' \subseteq Urls
        /\ \A url \in DOMAIN cache' : cache'[url] \in Paginated
    <3>1. Url(w) \in Urls
      BY <2>2, <2>5 DEF Url, Urls
    <3> QED
      BY <2>1, <2>3, <3>1 DEF TypeOK
  <2>7. taken' \in [Walkers -> Paginated \cup {None}] /\ copy' \in [Walkers -> Paginated \cup {None}]
    BY <2>1, <2>3 DEF Takes, TypeOK
  <2>8. got' \in [Walkers -> SUBSET Slugs]
    BY <2>1, <2>4 DEF Takes, TypeOK
  <2>9. offset' \in [Walkers -> Nat] /\ total' \in [Walkers -> Nat]
    BY <2>1, <2>5 DEF Takes, TypeOK
  <2>10. pc' \in [Walkers -> {"idle", "send", "count", "page", "done", "failed"}]
    BY <2>1 DEF Takes, TypeOK, Goto
  <2> QED
    BY <2>1, <2>6, <2>7, <2>8, <2>9, <2>10 DEF Takes, TypeOK, history
<1>5. ASSUME NEW w \in Walkers, PageFails(w) PROVE TypeOK'
  BY <1>5 DEF PageFails, TypeOK, Goto, history
<1>6. ASSUME NEW row \in Writable, Enter(row) PROVE TypeOK'
  <2>1. \A r \in rows' : r[2] \in Slugs
    BY <1>6, WalkAssumption DEF Enter, TypeOK
  <2>2. writes' \in 0 .. MaxWrites
    BY <1>0, <1>6 DEF Enter
  <2>3. late' \in [Walkers -> 0 .. MaxWrites]
    <3>1. \A w \in Walkers : late[w] \in 0 .. MaxWrites /\ late[w] <= writes
      BY DEF TypeOK, Asks
    <3>2. \A w \in Walkers : late[w] + 1 \in 0 .. MaxWrites
      BY <1>0, <1>6, <3>1 DEF Enter
    <3> QED
      BY <1>6, <3>1, <3>2 DEF Enter
  <2> QED
    BY <1>6, <2>1, <2>2, <2>3 DEF Enter, TypeOK, progress
<1>7. ASSUME NEW row \in Writable, Leave(row) PROVE TypeOK'
  <2>1. \A r \in rows' : r[2] \in Slugs
    BY <1>7 DEF Leave, TypeOK
  <2>2. writes' \in 0 .. MaxWrites
    BY <1>0, <1>7 DEF Leave
  <2>3. left' \in [Walkers -> 0 .. MaxWrites]
    <3>1. \A w \in Walkers : left[w] \in 0 .. MaxWrites /\ left[w] <= writes
      BY DEF TypeOK, Asks
    <3>2. \A w \in Walkers : left[w] + 1 \in 0 .. MaxWrites
      BY <1>0, <1>7, <3>1 DEF Leave
    <3> QED
      BY <1>7, <3>1, <3>2 DEF Leave
  <2>4. steady' \in [Walkers -> SUBSET Slugs]
    BY <1>7 DEF Leave, TypeOK
  <2> QED
    BY <1>7, <2>1, <2>2, <2>3, <2>4 DEF Leave, TypeOK, progress
<1>8. CASE UNCHANGED vars
  BY <1>8 DEF vars, progress, history, TypeOK
<1> QED
  BY <1>1, <1>2, <1>3, <1>4, <1>5, <1>6, <1>7, <1>8 DEF Next, Requests

(***************************************************************************)
(* Counting rows by their places.                                          *)
(***************************************************************************)
LEMMA MissingFinite ==
  ASSUME TypeOK, NEW w \in Walkers
  PROVE  /\ Missing(w) \subseteq Slugs /\ Passed(w) \subseteq Missing(w)
         /\ IsFiniteSet(Missing(w)) /\ Cardinality(Missing(w)) \in Nat
         /\ IsFiniteSet(Passed(w)) /\ Cardinality(Passed(w)) \in Nat
<1>1. Missing(w) \subseteq Slugs /\ Passed(w) \subseteq Missing(w)
  BY DEF TypeOK, Missing, Passed
<1>2. Passed(w) \subseteq Slugs
  BY <1>1
<1>3. IsFiniteSet(Missing(w)) /\ IsFiniteSet(Passed(w))
  BY <1>1, <1>2, WalkAssumption, FS_Subset
<1> QED
  BY <1>1, <1>3, FS_CardinalityType

(* At one place there is at most one row of a unique name.                 *)
LEMMA AtOnePlace ==
  ASSUME NEW c \in Claims, NEW M, M \subseteq Sees(c), NEW n,
         \A s \in M : Unique(s) /\ Cardinality(Below(c, s)) = n
  PROVE  IsFiniteSet(M) /\ Cardinality(M) \in {0, 1}
<1>1. CASE M = {}
  BY <1>1, FS_EmptySet
<1>2. ASSUME NEW x \in M
      PROVE  IsFiniteSet(M) /\ Cardinality(M) \in {0, 1}
  <2>1. ASSUME NEW y \in M
        PROVE  y = x
    BY <1>2, <2>1, BelowDistinct
  <2>2. M = {x}
    BY <1>2, <2>1
  <2> QED
    BY <2>2, FS_Singleton
<1> QED
  BY <1>1, <1>2

(* From a place on there are no more of them than rows behind it.          *)
LEMMA FromPlaceOn ==
  ASSUME NEW c \in Claims, NEW M, M \subseteq Sees(c), NEW n \in Nat,
         \A s \in M : Unique(s) /\ n <= Cardinality(Below(c, s))
  PROVE  /\ IsFiniteSet(M) /\ Cardinality(M) \in Nat
         /\ Cardinality(M) = 0 \/ n + Cardinality(M) <= Cardinality(Sees(c))
<1> DEFINE k == Cardinality(Sees(c))
           f == [s \in M |-> Cardinality(Below(c, s))]
<1>1. k \in Nat /\ Sees(c) \subseteq Slugs /\ IsFiniteSet(Sees(c))
  BY SeesFinite
<1>2. \A s \in M : f[s] \in Nat /\ n <= f[s] /\ f[s] < k
  BY <1>1, BelowAll, BelowFinite
<1>3. f \in [M -> n .. k - 1]
  BY <1>1, <1>2
<1>4. ASSUME NEW s \in M, NEW t \in M, f[s] = f[t]
      PROVE  s = t
  BY <1>4, BelowDistinct
<1> HIDE DEF f
<1>5. f \in Injection(M, n .. k - 1)
  BY <1>3, <1>4, Fun_IsInj
<1>6. /\ IsFiniteSet(n .. k - 1)
      /\ Cardinality(n .. k - 1) = IF n > k - 1 THEN 0 ELSE k - 1 - n + 1
  <2>1. n \in Int /\ k - 1 \in Int
    BY <1>1
  <2> QED
    BY <2>1, FS_Interval
<1>7. IsFiniteSet(M) /\ Cardinality(M) <= Cardinality(n .. k - 1)
  BY <1>5, <1>6, FS_Injection
<1>8. Cardinality(M) \in Nat
  BY <1>7, FS_CardinalityType
<1> HIDE DEF k
<1>9. Cardinality(M) = 0 \/ n + Cardinality(M) <= k
  BY <1>1, <1>6, <1>7, <1>8
<1> QED
  BY <1>7, <1>8, <1>9 DEF k

(***************************************************************************)
(* The steps of a walk and of the writers, seen by one walker.             *)
(***************************************************************************)
Ends(w) ==
  pc[w] = "done" /\ limit[w] > 0 => Cardinality(Missing(w)) <= left[w] + late[w]

(* What is known of a walk depends on the rows and on its own request      *)
(* only.                                                                   *)
LEMMA WalkStays ==
  ASSUME NEW w \in Walkers, Asks(w), Keeps(w), Ends(w), UNCHANGED <<rows, writes>>,
         pc'[w] = pc[w], claim'[w] = claim[w], limit'[w] = limit[w],
         offset'[w] = offset[w], total'[w] = total[w], got'[w] = got[w],
         steady'[w] = steady[w], left'[w] = left[w], late'[w] = late[w]
  PROVE  Asks(w)' /\ Keeps(w)' /\ Ends(w)'
<1>1. \A c : Sees(c)' = Sees(c)
  BY DEF Sees
<1>2. \A c, s : Below(c, s)' = Below(c, s)
  BY <1>1 DEF Below
<1>3. Missing(w)' = Missing(w) /\ Sees(claim[w])' = Sees(claim[w])
  BY <1>1 DEF Missing
<1>4. Passed(w)' = Passed(w)
  BY <1>2, <1>3 DEF Passed
<1>5. Asks(w)'
  BY DEF Asks
<1>6. Ends(w)'
  BY <1>3 DEF Ends
<1>7. Keeps(w)'
  BY <1>3, <1>4 DEF Keeps, Walking
<1> QED
  BY <1>5, <1>6, <1>7

(* A walk that begins has missed nothing.                                  *)
LEMMA StartStep ==
  ASSUME TypeOK, NEW w \in Walkers, Asks(w), Start(w)
  PROVE  Asks(w)' /\ Keeps(w)' /\ Ends(w)'
<1>1. PICK c \in Claims, lim \in Limits :
        /\ claim' = [claim EXCEPT ![w] = c]
        /\ limit' = [limit EXCEPT ![w] = lim]
        /\ steady' = [steady EXCEPT ![w] = Sees(c)]
  BY DEF Start
<1>2. /\ pc'[w] = "send" /\ claim'[w] = c /\ limit'[w] = lim /\ steady'[w] = Sees(c)
      /\ UNCHANGED <<rows, writes, offset, left, late>> /\ offset[w] = 0
  BY <1>1 DEF Start, Goto, TypeOK, Asks
<1>3. Sees(claim[w])' = Sees(c)
  BY <1>2 DEF Sees
<1>4. Passed(w)' = {}
  <2>1. \A s \in Sees(c) : Cardinality(Below(c, s)) \in Nat
    BY SeesFinite, BelowFinite
  <2>2. \A s : Below(claim[w], s)' = Below(c, s)
    BY <1>3 DEF Below
  <2>3. \A s \in Missing(w)' : s \in Sees(c)
    BY <1>2 DEF Missing
  <2>4. \A s \in Missing(w)' : ~(Cardinality(Below(claim[w], s)') < 0)
    BY <2>1, <2>2, <2>3
  <2> QED
    BY <1>2, <2>4 DEF Passed
<1>5. Cardinality(Passed(w)') <= left'[w]
  BY <1>2, <1>4, FS_EmptySet DEF TypeOK
<1>6. Keeps(w)'
  BY <1>2, <1>3, <1>5 DEF Keeps, Walking
<1>7. Asks(w)' /\ Ends(w)'
  BY <1>2 DEF Asks, Ends
<1> QED
  BY <1>6, <1>7

(* A request that is sent changes nothing the walk has missed.             *)
LEMMA SendStep ==
  ASSUME TypeOK, NEW w \in Walkers, Asks(w), Keeps(w), Send(w)
  PROVE  Asks(w)' /\ Keeps(w)' /\ Ends(w)'
<1>1. /\ pc[w] = "send" /\ pc'[w] = "count"
      /\ UNCHANGED <<rows, writes, claim, limit, offset, got, steady, left, late>>
  BY DEF Send, Goto, TypeOK, history
<1>2. Sees(claim[w])' = Sees(claim[w])
  BY <1>1 DEF Sees
<1>3. Passed(w)' = Passed(w)
  BY <1>1 DEF Passed, Missing, Below, Sees
<1>4. Keeps(w)'
  BY <1>1, <1>2, <1>3 DEF Keeps, Walking
<1>5. Asks(w)' /\ Ends(w)'
  BY <1>1 DEF Asks, Ends
<1> QED
  BY <1>4, <1>5

(* The total is right when it is counted; rows that enter later are late.  *)
LEMMA CountStep ==
  ASSUME TypeOK, NEW w \in Walkers, Asks(w), Keeps(w), Count(w)
  PROVE  Asks(w)' /\ Keeps(w)' /\ Ends(w)'
<1>1. /\ pc[w] = "count" /\ pc'[w] = "page"
      /\ total'[w] = Cardinality(Sees(claim[w])) /\ late'[w] = 0
      /\ UNCHANGED <<rows, writes, claim, limit, offset, got, steady, left>>
  BY DEF Count, Goto, TypeOK
<1>2. Sees(claim[w])' = Sees(claim[w])
  BY <1>1 DEF Sees
<1>3. Passed(w)' = Passed(w)
  BY <1>1 DEF Passed, Missing, Below, Sees
<1>4. claim[w] \in Claims /\ writes \in Nat
  BY <1>1 DEF Asks, TypeOK
<1>5. Cardinality(Sees(claim[w])) <= total'[w] + late'[w]
  BY <1>1, <1>4, SeesFinite
<1>6. Keeps(w)'
  BY <1>1, <1>2, <1>3, <1>5 DEF Keeps, Walking
<1>7. Asks(w)' /\ Ends(w)'
  BY <1>1, <1>4 DEF Asks, Ends
<1> QED
  BY <1>6, <1>7

(* A page reads what is at its places; the last one leaves behind what the *)
(* count did not know of.                                                  *)
LEMMA PageStep ==
  ASSUME TypeOK, NEW w \in Walkers, Asks(w), Keeps(w), Page(w)
  PROVE  Asks(w)' /\ Keeps(w)' /\ Ends(w)'
<1>1. PICK answer \in Answers(w) : Takes(w, answer)
  BY PageTakes
<1>2. claim[w] \in Claims /\ limit[w] \in Limits /\ limit[w] \in Nat
  BY PageTakes
<1>3. /\ answer.page = build_page(limit[w], offset[w], total[w])
      /\ \E o \in Orders(Sees(claim[w])) : answer.data = Slice(o, limit[w], offset[w])
  BY <1>2, AnswerShape
<1>4. /\ offset[w] \in Nat /\ total[w] \in Nat /\ left[w] \in Nat /\ late[w] \in Nat
      /\ pc[w] = "page" /\ steady[w] \subseteq Sees(claim[w])
  BY WalkAssumption DEF TypeOK, Page, Keeps, Walking
<1>5. /\ UNCHANGED <<rows, writes, claim, limit, steady, left, late>>
      /\ offset'[w] = offset[w] + limit[w]
      /\ got'[w] = got[w] \cup Range(answer.data)
      /\ pc'[w] = IF offset[w] + limit[w] < total[w] THEN "send" ELSE "done"
  <2>1. UNCHANGED <<rows, writes, claim, limit, steady, left, late>>
    BY <1>1 DEF Takes, history
  <2>2. /\ answer.page.offset = offset[w] /\ answer.page.limit = limit[w]
        /\ answer.page.has_more = (offset[w] + limit[w] < total[w])
    BY <1>3 DEF build_page
  <2>3. offset'[w] = offset[w] + limit[w]
    BY <1>1, <2>2 DEF Takes, TypeOK
  <2>4. got'[w] = got[w] \cup Range(answer.data)
    BY <1>1 DEF Takes, TypeOK
  <2>5. pc'[w] = IF answer.page.has_more THEN "send" ELSE "done"
    BY <1>1 DEF Takes, Goto, TypeOK
  <2> QED
    BY <2>1, <2>2, <2>3, <2>4, <2>5
<1>6. \A s : Below(claim[w], s)' = Below(claim[w], s)
  BY <1>5 DEF Below, Sees
<1>7. Missing(w)' \subseteq Missing(w)
  BY <1>5 DEF Missing
<1>8. ASSUME NEW s \in Missing(w)'
      PROVE  \/ Cardinality(Below(claim[w], s)) < offset[w]
             \/ offset[w] + limit[w] <= Cardinality(Below(claim[w], s))
  <2>1. s \in Sees(claim[w]) /\ Unique(s) /\ s \notin got'[w]
    BY <1>4, <1>5, <1>8 DEF Missing
  <2>2. PICK o \in Orders(Sees(claim[w])) : answer.data = Slice(o, limit[w], offset[w])
    BY <1>3
  <2> DEFINE p == Cardinality(Below(claim[w], s)) + 1
  <2>3. p \in 1 .. Len(o) /\ o[p] = s
    BY <1>2, <2>1, Position
  <2>4. Cardinality(Below(claim[w], s)) \in Nat
    BY <1>2, <2>1, SeesFinite, BelowFinite
  <2>5. o \in Seq(Slugs)
    BY <1>2, OrderShape
  <2>6. ~(offset[w] < p /\ p <= offset[w] + limit[w])
    <3> HIDE DEF p
    <3>1. offset[w] < p /\ p <= offset[w] + limit[w]
            => o[p] \in Range(Slice(o, limit[w], offset[w]))
      BY <1>2, <1>4, <2>3, <2>5, SliceShape
    <3> QED
      BY <1>5, <2>1, <2>2, <2>3, <3>1
  <2> QED
    BY <1>2, <1>4, <2>4, <2>6
<1>9. CASE pc'[w] = "send"
  <2>1. Passed(w)' \subseteq Passed(w)
    <3> SUFFICES ASSUME NEW s \in Passed(w)'
                 PROVE  s \in Passed(w)
      OBVIOUS
    <3>1. s \in Missing(w)' /\ Cardinality(Below(claim[w], s)) < offset[w] + limit[w]
      BY <1>5, <1>6 DEF Passed
    <3>2. Cardinality(Below(claim[w], s)) \in Nat
      BY <1>2, <1>7, <3>1, MissingFinite, BelowFinite
    <3>3. Cardinality(Below(claim[w], s)) < offset[w]
      BY <1>2, <1>4, <1>8, <3>1, <3>2
    <3> QED
      BY <1>7, <3>1, <3>3 DEF Passed
  <2>2. limit[w] > 0 => Cardinality(Passed(w)) <= left[w]
    BY <1>4 DEF Keeps, Walking
  <2>3. limit'[w] > 0 => Cardinality(Passed(w)') <= left'[w]
    <3>1. /\ IsFiniteSet(Passed(w)) /\ Cardinality(Passed(w)) \in Nat
      BY MissingFinite
    <3>2. Cardinality(Passed(w)') <= Cardinality(Passed(w)) /\ IsFiniteSet(Passed(w)')
      BY <2>1, <3>1, FS_Subset
    <3>3. Cardinality(Passed(w)') \in Nat
      BY <3>2, FS_CardinalityType
    <3> QED
      BY <1>4, <1>5, <2>2, <3>1, <3>2, <3>3
  <2>4. Sees(claim[w])' = Sees(claim[w])
    BY <1>5 DEF Sees
  <2> QED
    BY <1>2, <1>4, <1>5, <1>9, <2>3, <2>4 DEF Asks, Keeps, Walking, Ends
<1>10. CASE pc'[w] = "done"
  <2> DEFINE Behind == {s \in Missing(w)' : offset[w] + limit[w] <= Cardinality(Below(claim[w], s))}
  <2>1. total[w] <= offset[w] + limit[w]
    BY <1>2, <1>4, <1>5, <1>10
  <2>2. /\ IsFiniteSet(Behind) /\ Cardinality(Behind) \in Nat
        /\ Cardinality(Behind) = 0
             \/ offset[w] + limit[w] + Cardinality(Behind) <= Cardinality(Sees(claim[w]))
    <3>1. /\ Behind \subseteq Sees(claim[w])
          /\ \A s \in Behind : Unique(s) /\ offset[w] + limit[w] <= Cardinality(Below(claim[w], s))
      BY <1>4, <1>7 DEF Missing
    <3>2. offset[w] + limit[w] \in Nat
      BY <1>2, <1>4
    <3> HIDE DEF Behind
    <3> QED
      BY <1>2, <3>1, <3>2, FromPlaceOn
  <2>3. Cardinality(Sees(claim[w])) <= total[w] + late[w]
    BY <1>4 DEF Keeps
  <2>4. Cardinality(Sees(claim[w])) \in Nat
    BY <1>2, SeesFinite
  <2>5. Missing(w)' \subseteq Passed(w) \cup Behind
    BY <1>7, <1>8 DEF Passed
  <2> HIDE DEF Behind
  <2>6. Cardinality(Behind) <= late[w]
    BY <1>2, <1>4, <2>1, <2>2, <2>3, <2>4
  <2>7. limit[w] > 0 => Cardinality(Passed(w)) <= left[w]
    BY <1>4 DEF Keeps, Walking
  <2>8. /\ IsFiniteSet(Passed(w)) /\ Cardinality(Passed(w)) \in Nat
    BY MissingFinite
  <2>9. /\ IsFiniteSet(Passed(w) \cup Behind)
        /\ Cardinality(Passed(w) \cup Behind) <= Cardinality(Passed(w)) + Cardinality(Behind)
    <3>1. /\ IsFiniteSet(Passed(w) \cup Behind)
          /\ Cardinality(Passed(w) \cup Behind) =
               Cardinality(Passed(w)) + Cardinality(Behind) - Cardinality(Passed(w) \cap Behind)
      BY <2>2, <2>8, FS_Union
    <3>2. IsFiniteSet(Passed(w) \cap Behind)
      BY <2>8, FS_Subset
    <3>3. Cardinality(Passed(w) \cap Behind) \in Nat
      BY <3>2, FS_CardinalityType
    <3> QED
      BY <2>2, <2>8, <3>1, <3>3
  <2>10. /\ Cardinality(Missing(w)') <= Cardinality(Passed(w) \cup Behind)
         /\ Cardinality(Missing(w)') \in Nat /\ Cardinality(Passed(w) \cup Behind) \in Nat
    BY <2>5, <2>9, FS_Subset, FS_CardinalityType
  <2>11. limit'[w] > 0 => Cardinality(Missing(w)') <= left'[w] + late'[w]
    BY <1>4, <1>5, <2>2, <2>6, <2>7, <2>8, <2>9, <2>10
  <2> QED
    BY <1>2, <1>5, <1>10, <2>11 DEF Asks, Keeps, Walking, Ends
<1> QED
  BY <1>5, <1>9, <1>10

(* A walk that fails on a negative limit (a 500) promises nothing.         *)
LEMMA PageFailsStep ==
  ASSUME TypeOK, NEW w \in Walkers, Asks(w), PageFails(w)
  PROVE  Asks(w)' /\ Keeps(w)' /\ Ends(w)'
<1>1. /\ pc[w] = "page" /\ pc'[w] = "failed"
      /\ UNCHANGED <<writes, claim, limit, left, late>>
  BY DEF PageFails, Goto, TypeOK, history
<1> QED
  BY <1>1 DEF Asks, Keeps, Walking, Ends

(* What a write changes of a result set is its row.                        *)
LEMMA SeesAfterEnter ==
  ASSUME NEW row, NEW c, rows' = rows \cup {row}
  PROVE  /\ Sees(c) \subseteq Sees(c)'
         /\ Sees(c)' \subseteq Sees(c) \cup {row[2]}
         /\ ~(c.tenant = row[1] /\ row[2] \in c.scope) => Sees(c)' = Sees(c)
<1>1. ASSUME NEW s, s \in Sees(c)', s \notin Sees(c)
      PROVE  s = row[2] /\ c.tenant = row[1] /\ row[2] \in c.scope
  <2>1. s \in c.scope /\ row = <<c.tenant, s>>
    BY <1>1 DEF Sees
  <2> QED
    BY <2>1
<1>2. Sees(c) \subseteq Sees(c)'
  BY DEF Sees
<1> QED
  BY <1>1, <1>2

(* A row that leaves is lost to the tokens that saw it, and no other is.   *)
LEMMA SeesAfterLeave ==
  ASSUME NEW row, NEW c, rows' = rows \ {row}
  PROVE  /\ Sees(c)' \subseteq Sees(c)
         /\ Sees(c) \subseteq Sees(c)' \cup {row[2]}
         /\ ~(c.tenant = row[1] /\ row[2] \in c.scope) => Sees(c)' = Sees(c)
<1>1. ASSUME NEW s, s \in Sees(c), s \notin Sees(c)'
      PROVE  s = row[2] /\ c.tenant = row[1] /\ row[2] \in c.scope
  <2>1. s \in c.scope /\ row = <<c.tenant, s>>
    BY <1>1 DEF Sees
  <2> QED
    BY <2>1
<1>2. Sees(c)' \subseteq Sees(c)
  BY DEF Sees
<1> QED
  BY <1>1, <1>2

(* A row that enters pushes others back; one between the count and its     *)
(* page is late.                                                           *)
LEMMA EnterStep ==
  ASSUME TypeOK, NEW row \in Writable, Enter(row), NEW w \in Walkers,
         Asks(w), Keeps(w), Ends(w)
  PROVE  Asks(w)' /\ Keeps(w)' /\ Ends(w)'
<1> DEFINE c == claim[w]
<1>0. /\ rows' = rows \cup {row} /\ writes' = writes + 1 /\ writes \in Nat
      /\ UNCHANGED <<pc, claim, limit, offset, total, got, steady, left>>
      /\ left[w] \in Nat /\ late[w] \in Nat /\ total[w] \in Nat /\ offset[w] \in Nat
      /\ late'[w] = IF Walks(w, row) /\ pc[w] = "page" THEN late[w] + 1 ELSE late[w]
  BY WalkAssumption DEF Enter, progress, TypeOK
<1>1. Asks(w)'
  BY <1>0 DEF Asks
<1>2. Ends(w)'
  <2>1. Missing(w)' = Missing(w)
    BY <1>0 DEF Missing
  <2>2. pc[w] = "done" => late'[w] = late[w]
    BY <1>0
  <2> QED
    BY <1>0, <2>1, <2>2 DEF Ends
<1>3. CASE ~Walking(w)
  BY <1>0, <1>1, <1>2, <1>3 DEF Keeps, Walking
<1>4. CASE Walking(w)
  <2>1. c \in Claims /\ c.scope \subseteq Slugs
    BY <1>4, WalkAssumption DEF Asks, Walking
  <2>2. /\ Sees(c) \subseteq Sees(c)' /\ Sees(c)' \subseteq Sees(c) \cup {row[2]}
        /\ ~Walks(w, row) => Sees(c)' = Sees(c)
    <3>1. /\ Sees(c) \subseteq Sees(claim[w])' /\ Sees(claim[w])' \subseteq Sees(c) \cup {row[2]}
          /\ ~(c.tenant = row[1] /\ row[2] \in c.scope) => Sees(claim[w])' = Sees(c)
      BY <1>0, SeesAfterEnter DEF Sees
    <3> QED
      BY <1>4, <3>1 DEF Walks, Walking
  <2>3. steady'[w] \subseteq Sees(c)'
    BY <1>0, <1>4, <2>2 DEF Keeps
  <2>4. IsFiniteSet(Sees(c)) /\ Cardinality(Sees(c)) \in Nat /\ Sees(c) \subseteq Slugs
    BY <2>1, SeesFinite
  <2>5. Passed(w)' \subseteq Passed(w)
    <3> SUFFICES ASSUME NEW s \in Passed(w)'
                 PROVE  s \in Passed(w)
      OBVIOUS
    <3>1. s \in Missing(w) /\ Cardinality(Below(c, s)') < offset[w] /\ s \in Slugs
      BY <1>0 DEF Passed, Missing, TypeOK
    <3>2. Below(c, s) \subseteq Below(c, s)'
      BY <2>2 DEF Below
    <3>3. IsFiniteSet(Below(c, s)')
      <4>1. Below(c, s)' \subseteq Sees(c) \cup {row[2]}
        BY <2>2 DEF Below
      <4>2. IsFiniteSet(Sees(c) \cup {row[2]})
        BY <2>4, FS_AddElement
      <4> QED
        BY <4>1, <4>2, FS_Subset
    <3>4. /\ Cardinality(Below(c, s)) <= Cardinality(Below(c, s)')
          /\ Cardinality(Below(c, s)) \in Nat /\ Cardinality(Below(c, s)') \in Nat
      BY <3>2, <3>3, FS_Subset, FS_CardinalityType
    <3>5. Cardinality(Below(c, s)) < offset[w]
      BY <1>0, <3>1, <3>4
    <3> QED
      BY <3>1, <3>5 DEF Passed
  <2>6. limit'[w] > 0 => Cardinality(Passed(w)') <= left'[w]
    <3>1. IsFiniteSet(Passed(w)) /\ Cardinality(Passed(w)) \in Nat
      BY MissingFinite
    <3>2. /\ Cardinality(Passed(w)') <= Cardinality(Passed(w))
          /\ Cardinality(Passed(w)') \in Nat
      BY <2>5, <3>1, FS_Subset, FS_CardinalityType
    <3>3. limit[w] > 0 => Cardinality(Passed(w)) <= left[w]
      BY <1>4 DEF Keeps
    <3> QED
      BY <1>0, <3>1, <3>2, <3>3
  <2>7. pc'[w] = "page" => Cardinality(Sees(c)') <= total'[w] + late'[w]
    <3> SUFFICES ASSUME pc[w] = "page"
                 PROVE  Cardinality(Sees(c)') <= total[w] + late'[w]
      BY <1>0
    <3>1. Cardinality(Sees(c)) <= total[w] + late[w]
      BY DEF Keeps
    <3>2. CASE Walks(w, row)
      <4>1. /\ IsFiniteSet(Sees(c) \cup {row[2]})
            /\ Cardinality(Sees(c) \cup {row[2]}) =
                 IF row[2] \in Sees(c) THEN Cardinality(Sees(c)) ELSE Cardinality(Sees(c)) + 1
        BY <2>4, FS_AddElement
      <4>2. /\ Cardinality(Sees(c)') <= Cardinality(Sees(c) \cup {row[2]})
            /\ IsFiniteSet(Sees(c)')
        BY <2>2, <4>1, FS_Subset
      <4>3. Cardinality(Sees(c)') \in Nat
        BY <4>2, FS_CardinalityType
      <4> QED
        BY <1>0, <2>4, <3>1, <3>2, <4>1, <4>2, <4>3
    <3>3. CASE ~Walks(w, row)
      BY <1>0, <2>2, <3>1, <3>3
    <3> QED
      BY <3>2, <3>3
  <2>8. Keeps(w)'
    BY <2>3, <2>6, <2>7 DEF Keeps
  <2> QED
    BY <1>1, <1>2, <2>8
<1> QED
  BY <1>3, <1>4

(* A row that leaves lets at most one row of a unique name slip to a place *)
(* the walk is past.                                                       *)
LEMMA LeaveStep ==
  ASSUME TypeOK, NEW row \in Writable, Leave(row), NEW w \in Walkers,
         Asks(w), Keeps(w), Ends(w)
  PROVE  Asks(w)' /\ Keeps(w)' /\ Ends(w)'
<1> DEFINE c == claim[w]
<1>0. /\ rows' = rows \ {row} /\ writes' = writes + 1 /\ writes \in Nat
      /\ UNCHANGED <<pc, claim, limit, offset, total, got, late>>
      /\ left[w] \in Nat /\ late[w] \in Nat /\ total[w] \in Nat /\ offset[w] \in Nat
      /\ left'[w] = IF Walks(w, row) THEN left[w] + 1 ELSE left[w]
      /\ steady'[w] = IF Walks(w, row) THEN steady[w] \ {row[2]} ELSE steady[w]
  BY WalkAssumption DEF Leave, progress, TypeOK
<1>1. Asks(w)'
  BY <1>0 DEF Asks
<1>2. CASE ~Walking(w)
  <2>1. steady'[w] = steady[w] /\ left'[w] = left[w]
    BY <1>0, <1>2 DEF Walks, Walking
  <2>2. Missing(w)' = Missing(w)
    BY <1>0, <2>1 DEF Missing
  <2>3. Ends(w)'
    BY <1>0, <2>1, <2>2 DEF Ends
  <2> QED
    BY <1>0, <1>1, <1>2, <2>3 DEF Keeps, Walking
<1>3. CASE Walking(w)
  <2>1. c \in Claims
    BY <1>3 DEF Asks, Walking
  <2>2. /\ Sees(c)' \subseteq Sees(c) /\ Sees(c) \subseteq Sees(c)' \cup {row[2]}
        /\ ~Walks(w, row) => Sees(c)' = Sees(c)
    <3>1. /\ Sees(claim[w])' \subseteq Sees(c) /\ Sees(c) \subseteq Sees(claim[w])' \cup {row[2]}
          /\ ~(c.tenant = row[1] /\ row[2] \in c.scope) => Sees(claim[w])' = Sees(c)
      BY <1>0, SeesAfterLeave DEF Sees
    <3> QED
      BY <1>3, <3>1 DEF Walks, Walking
  <2>3. steady[w] \subseteq Sees(c) /\ steady'[w] \subseteq Sees(c)'
    <3>1. steady[w] \subseteq Sees(c)
      BY <1>3 DEF Keeps
    <3> QED
      BY <1>0, <2>2, <3>1
  <2>4. IsFiniteSet(Sees(c)) /\ Cardinality(Sees(c)) \in Nat /\ Sees(c) \subseteq Slugs
    BY <2>1, SeesFinite
  <2>5. IsFiniteSet(Passed(w)) /\ Cardinality(Passed(w)) \in Nat
    BY MissingFinite
  <2>6. limit[w] > 0 => Cardinality(Passed(w)) <= left[w]
    BY <1>3 DEF Keeps
  <2>7. limit'[w] > 0 => Cardinality(Passed(w)') <= left'[w]
    <3>1. CASE ~Walks(w, row)
      <4>1. Passed(w)' = Passed(w)
        BY <1>0, <2>2, <3>1 DEF Passed, Missing, Below
      <4> QED
        BY <1>0, <2>6, <3>1, <4>1
    <3>2. CASE Walks(w, row)
      <4> DEFINE At == {s \in Missing(w) : Cardinality(Below(c, s)) = offset[w]}
      <4>1. IsFiniteSet(At) /\ Cardinality(At) \in {0, 1}
        <5>1. At \subseteq Sees(c)
          BY <2>3 DEF Missing
        <5>2. \A s \in At : Unique(s) /\ Cardinality(Below(c, s)) = offset[w]
          BY DEF Missing
        <5> HIDE DEF At
        <5> QED
          BY <2>1, <5>1, <5>2, AtOnePlace
      <4>2. Passed(w)' \subseteq Passed(w) \cup At
        <5> SUFFICES ASSUME NEW s \in Passed(w)'
                     PROVE  s \in Passed(w) \cup At
          OBVIOUS
        <5>1. s \in Missing(w) /\ Cardinality(Below(c, s)') < offset[w]
          BY <1>0 DEF Passed, Missing
        <5>2. Below(c, s) \subseteq Below(c, s)' \cup {row[2]}
          BY <2>2 DEF Below
        <5>3. IsFiniteSet(Below(c, s)') /\ IsFiniteSet(Below(c, s))
          <6>1. Below(c, s)' \subseteq Sees(c) /\ Below(c, s) \subseteq Sees(c)
            BY <2>2 DEF Below
          <6> QED
            BY <2>4, <6>1, FS_Subset
        <5>4. /\ Cardinality(Below(c, s)) \in Nat /\ Cardinality(Below(c, s)') \in Nat
          BY <5>3, FS_CardinalityType
        <5>5. /\ IsFiniteSet(Below(c, s)' \cup {row[2]})
              /\ Cardinality(Below(c, s)' \cup {row[2]}) =
                   IF row[2] \in Below(c, s)' THEN Cardinality(Below(c, s)')
                   ELSE Cardinality(Below(c, s)') + 1
          BY <5>3, FS_AddElement
        <5>6. Cardinality(Below(c, s)) <= Cardinality(Below(c, s)' \cup {row[2]})
          BY <5>2, <5>5, FS_Subset
        <5>7. Cardinality(Below(c, s)) <= Cardinality(Below(c, s)') + 1
          BY <5>4, <5>5, <5>6
        <5>8. Cardinality(Below(c, s)) < offset[w] \/ Cardinality(Below(c, s)) = offset[w]
          BY <1>0, <5>1, <5>4, <5>7
        <5> QED
          BY <5>1, <5>8 DEF Passed
      <4> HIDE DEF At
      <4>3. /\ IsFiniteSet(Passed(w) \cup At)
            /\ Cardinality(Passed(w) \cup At) =
                 Cardinality(Passed(w)) + Cardinality(At) - Cardinality(Passed(w) \cap At)
        BY <2>5, <4>1, FS_Union
      <4>4. IsFiniteSet(Passed(w) \cap At)
        BY <2>5, FS_Subset
      <4>5. Cardinality(Passed(w) \cap At) \in Nat
        BY <4>4, FS_CardinalityType
      <4>6. /\ Cardinality(Passed(w)') <= Cardinality(Passed(w) \cup At)
            /\ IsFiniteSet(Passed(w)')
        BY <4>2, <4>3, FS_Subset
      <4>7. Cardinality(Passed(w)') \in Nat
        BY <4>6, FS_CardinalityType
      <4> QED
        BY <1>0, <2>5, <2>6, <3>2, <4>1, <4>3, <4>5, <4>6, <4>7
    <3> QED
      BY <3>1, <3>2
  <2>8. pc'[w] = "page" => Cardinality(Sees(c)') <= total'[w] + late'[w]
    <3>1. IsFiniteSet(Sees(c)') /\ Cardinality(Sees(c)') <= Cardinality(Sees(c))
      BY <2>2, <2>4, FS_Subset
    <3>2. Cardinality(Sees(c)') \in Nat
      BY <3>1, FS_CardinalityType
    <3>3. pc[w] = "page" => Cardinality(Sees(c)) <= total[w] + late[w]
      BY DEF Keeps
    <3> QED
      BY <1>0, <2>4, <3>1, <3>2, <3>3
  <2>9. Keeps(w)'
    BY <2>3, <2>7, <2>8 DEF Keeps
  <2>10. Ends(w)'
    BY <1>0, <1>3 DEF Ends, Walking
  <2> QED
    BY <1>1, <2>9, <2>10
<1> QED
  BY <1>2, <1>3

(* Every step, of this walk, of another one or of a writer, keeps what is  *)
(* known of the walk.                                                      *)
LEMMA WalkStep ==
  ASSUME TypeOK, NEW w \in Walkers, Asks(w), Keeps(w), Ends(w), [Next]_vars
  PROVE  Asks(w)' /\ Keeps(w)' /\ Ends(w)'
<1>1. ASSUME NEW v \in Walkers, v # w, Start(v) \/ Requests(v)
      PROVE  Asks(w)' /\ Keeps(w)' /\ Ends(w)'
  <2>1. CASE Start(v)
    <3>1. /\ UNCHANGED <<rows, writes>>
          /\ pc'[w] = pc[w] /\ claim'[w] = claim[w] /\ limit'[w] = limit[w]
          /\ offset'[w] = offset[w] /\ total'[w] = total[w] /\ got'[w] = got[w]
          /\ steady'[w] = steady[w] /\ left'[w] = left[w] /\ late'[w] = late[w]
      BY <1>1, <2>1 DEF Start, Goto, TypeOK
    <3> QED
      BY <3>1, WalkStays
  <2>2. CASE Send(v) \/ Count(v) \/ PageFails(v)
    <3>1. /\ UNCHANGED <<rows, writes>>
          /\ pc'[w] = pc[w] /\ claim'[w] = claim[w] /\ limit'[w] = limit[w]
          /\ offset'[w] = offset[w] /\ total'[w] = total[w] /\ got'[w] = got[w]
          /\ steady'[w] = steady[w] /\ left'[w] = left[w] /\ late'[w] = late[w]
      BY <1>1, <2>2 DEF Send, Count, PageFails, Goto, TypeOK, history
    <3> QED
      BY <3>1, WalkStays
  <2>3. CASE Page(v)
    <3>1. PICK answer : Takes(v, answer)
      BY <2>3 DEF Page
    <3>2. /\ UNCHANGED <<rows, writes>>
          /\ pc'[w] = pc[w] /\ claim'[w] = claim[w] /\ limit'[w] = limit[w]
          /\ offset'[w] = offset[w] /\ total'[w] = total[w] /\ got'[w] = got[w]
          /\ steady'[w] = steady[w] /\ left'[w] = left[w] /\ late'[w] = late[w]
      BY <1>1, <3>1 DEF Takes, Goto, TypeOK, history
    <3> QED
      BY <3>2, WalkStays
  <2> QED
    BY <1>1, <2>1, <2>2, <2>3 DEF Requests
<1>2. CASE Start(w) \/ Requests(w)
  BY <1>2, StartStep, SendStep, CountStep, PageStep, PageFailsStep DEF Requests
<1>3. ASSUME NEW row \in Writable, Enter(row) \/ Leave(row)
      PROVE  Asks(w)' /\ Keeps(w)' /\ Ends(w)'
  BY <1>3, EnterStep, LeaveStep
<1>4. CASE UNCHANGED vars
  BY <1>4, WalkStays DEF vars, progress, history
<1> QED
  BY <1>1, <1>2, <1>3, <1>4 DEF Next

(***************************************************************************)
(* The theorems.                                                           *)
(***************************************************************************)
LEMMA WalkInvNext == WalkInv /\ [Next]_vars => WalkInv'
<1> SUFFICES ASSUME WalkInv, [Next]_vars PROVE WalkInv'
  OBVIOUS
<1>1. TypeOK /\ \A w \in Walkers : Asks(w) /\ Keeps(w) /\ Ends(w)
  BY DEF WalkInv, MissedBounded, Ends
<1>2. TypeOK'
  BY <1>1, TypeNext
<1>3. \A w \in Walkers : Asks(w)' /\ Keeps(w)' /\ Ends(w)'
  BY <1>1, WalkStep
<1>4. MissedBounded'
  BY <1>3 DEF MissedBounded, Ends
<1> QED
  BY <1>2, <1>3, <1>4 DEF WalkInv

(* What a walk is past and has not read never exceeds what has left, nor   *)
(* the rows its count did not see those that entered after it.             *)
THEOREM WalkInvariant == Spec => []WalkInv
BY InitInv, WalkInvNext, PTL DEF Spec

(* The walks, their answers and the cache keep their types.                *)
THEOREM WalkTypes == Spec => []TypeOK
<1>1. WalkInv => TypeOK
  BY DEF WalkInv
<1> QED
  BY <1>1, WalkInvariant, PTL

(* Paging by offset over a changing result misses a row of a unique name   *)
(* that was there all the time only for a row that left, or one that came  *)
(* between the last count and its page.                                    *)
THEOREM WalksMissLittle == Spec => []MissedBounded
<1>1. WalkInv => MissedBounded
  BY DEF WalkInv
<1> QED
  BY <1>1, WalkInvariant, PTL

(* A 304 is as good as the answer: whatever other tokens and limits left   *)
(* in the cache, what is taken is what the server could answer now.        *)
THEOREM TakenIsCurrent == Spec => AnswersAreCurrent
<1>1. ASSUME WalkInv, NEW w \in Walkers, Page(w)
      PROVE  taken'[w] \in Answers(w)
  <2>1. TypeOK /\ Asks(w)
    BY <1>1 DEF WalkInv
  <2>2. PICK answer \in Answers(w) : Takes(w, answer)
    BY <1>1, <2>1, PageTakes
  <2>3. taken'[w] = answer
    BY <2>1, <2>2 DEF Takes, TypeOK
  <2> QED
    BY <2>3
<1>2. WalkInv /\ [Next]_vars => [\A w \in Walkers : Page(w) => taken'[w] \in Answers(w)]_vars
  BY <1>1
<1> QED
  BY <1>2, WalkInvariant, PTL DEF Spec, AnswersAreCurrent

=============================================================================
