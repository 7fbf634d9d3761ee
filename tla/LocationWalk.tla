---------------------------- MODULE LocationWalk ----------------------------
(***************************************************************************)
(* A client walks all pages of GET /v1/locations while has_more says so,   *)
(* revalidating what a cache has kept of earlier answers, and meanwhile    *)
(* rows enter and leave the result: a create, or a patch of the status the *)
(* walk filters by.  A patch leaves the name and so the order alone.       *)
(*                                                                         *)
(* The count and the page are two statements of one request, each seeing   *)
(* what is committed before it; the rest of the handler reads nothing.     *)
(***************************************************************************)
EXTENDS Integers, SequencesExt, FiniteSetsExt

CONSTANTS Walkers,     \* clients, one walk each
          Claims,      \* [tenant, scope]: whose rows a token may read
          Slugs,
          NameRank,    \* where a slug's name sorts: names may be equal
          Limits,      \* limits asked for
          InitialRows, \* result sets before any write
          Writable,    \* rows that enter and leave
          MaxWrites,   \* how often they do
          None

ASSUME WalkAssumption ==
  /\ NameRank \in [Slugs -> Nat] /\ Limits \subseteq Int /\ MaxWrites \in Nat
  /\ \A c \in Claims : c.scope \subseteq Slugs
  /\ \A row \in Writable \cup UNION InitialRows : row[2] \in Slugs
  /\ IsFiniteSet(Slugs)

VARIABLES
  rows,    \* <<tenant, slug>> of the rows that match the walk's filter
  writes,  \* how often one entered or left
  cache,   \* the answers kept, by limit and offset: one cache for all
  pc,      \* what a walker's request does next
  claim,   \* its token
  limit, offset, \* what it asks for
  copy,    \* the kept answer whose tag it sends along
  total,   \* what count(*) returned
  taken,   \* the answer it took last
  got,     \* the slugs it has read
  steady,  \* slugs in the result ever since the walk began
  left,    \* how many have left it since
  late     \* how many have entered between the last count and its page

progress == <<pc, claim, limit, offset, copy, total, taken, got>>
history  == <<steady, left, late>>
vars     == <<rows, writes, cache, progress, history>>

Urls == Limits \X Nat

(* What one answer carries.                                                *)
PageInfo == [limit : Limits, offset : Nat, total : Nat, has_more : BOOLEAN]
Paginated == [data : Seq(Slugs), page : PageInfo, tenant : {c.tenant : c \in Claims}]

(* The values the variables take.                                          *)
TypeOK ==
  /\ \A row \in rows : row[2] \in Slugs
  /\ writes \in 0 .. MaxWrites
  /\ DOMAIN cache \subseteq Urls
  /\ \A url \in DOMAIN cache : cache[url] \in Paginated
  /\ pc \in [Walkers -> {"idle", "send", "count", "page", "done", "failed"}]
  /\ claim \in [Walkers -> Claims \cup {None}]
  /\ limit \in [Walkers -> Limits \cup {None}]
  /\ offset \in [Walkers -> Nat] /\ total \in [Walkers -> Nat]
  /\ copy \in [Walkers -> Paginated \cup {None}]
  /\ taken \in [Walkers -> Paginated \cup {None}]
  /\ got \in [Walkers -> SUBSET Slugs] /\ steady \in [Walkers -> SUBSET Slugs]
  /\ left \in [Walkers -> 0 .. MaxWrites] /\ late \in [Walkers -> 0 .. MaxWrites]

Init ==
  /\ rows \in InitialRows
  /\ writes = 0
  /\ cache = [url \in {} |-> None]
  /\ pc = [w \in Walkers |-> "idle"]
  /\ claim = [w \in Walkers |-> None]
  /\ limit = [w \in Walkers |-> None]
  /\ offset = [w \in Walkers |-> 0]
  /\ copy = [w \in Walkers |-> None]
  /\ total = [w \in Walkers |-> 0]
  /\ taken = [w \in Walkers |-> None]
  /\ got = [w \in Walkers |-> {}]
  /\ steady = [w \in Walkers |-> {}]
  /\ left = [w \in Walkers |-> 0]
  /\ late = [w \in Walkers |-> 0]

-----------------------------------------------------------------------------
(* What the policies leave a token of the rows.                            *)
Sees(c) == {s \in c.scope : <<c.tenant, s>> \in rows}

(* order by name: equal names come in any order, a new one per statement.  *)
(* Mutant of Orders: no order by.                                          *)
AnyOrder(slugs) == SetToSeqs(slugs)
Orders(slugs) ==
  {o \in SetToSeqs(slugs) :
     \A i, j \in DOMAIN o : i < j => NameRank[o[i]] <= NameRank[o[j]]}
Slice(order, lim, off) == SubSeq(order, off + 1, Min({off + lim, Len(order)}))

(* Mutants of build_page: limit and offset change places, or the page      *)
(* tells the client that it is the first.                                  *)
PageSwapped(lim, off, n) ==
  [limit |-> off, offset |-> lim, total |-> n, has_more |-> off + lim < n]
PageFromStart(lim, off, n) ==
  [limit |-> lim, offset |-> 0, total |-> n, has_more |-> off + lim < n]
build_page(lim, off, n) ==
  [limit |-> lim, offset |-> off, total |-> n, has_more |-> off + lim < n]

Answers(w) ==
  {[data   |-> Slice(order, limit[w], offset[w]),
    page   |-> build_page(limit[w], offset[w], total[w]),
    tenant |-> claim[w].tenant] : order \in Orders(Sees(claim[w]))}

(* The hash tells two payloads apart; the payload has no meta, so the      *)
(* tenant comes from the context.  Mutant: it does not.                    *)
TagOfPayload(tenant, data, page) == <<data, page>>
compute_etag(tenant, data, page) == <<tenant, data, page>>
Tag(answer) == compute_etag(answer.tenant, answer.data, answer.page)
matches(kept, answer) == kept # None /\ Tag(kept) = Tag(answer)

-----------------------------------------------------------------------------
Goto(w, step) == pc' = [pc EXCEPT ![w] = step]
Url(w) == <<limit[w], offset[w]>>

Start(w) ==
  /\ pc[w] = "idle"
  /\ \E c \in Claims, lim \in Limits :
       /\ claim' = [claim EXCEPT ![w] = c]
       /\ limit' = [limit EXCEPT ![w] = lim]
       /\ steady' = [steady EXCEPT ![w] = Sees(c)]
  /\ Goto(w, "send")
  /\ UNCHANGED <<rows, writes, cache, offset, copy, total, taken, got, left, late>>

Send(w) ==
  /\ pc[w] = "send"
  /\ copy' = [copy EXCEPT ![w] = IF Url(w) \in DOMAIN cache THEN cache[Url(w)] ELSE None]
  /\ taken' = [taken EXCEPT ![w] = None]
  /\ Goto(w, "count")
  /\ UNCHANGED <<rows, writes, cache, claim, limit, offset, total, got, history>>

Count(w) ==
  /\ pc[w] = "count"
  /\ total' = [total EXCEPT ![w] = Cardinality(Sees(claim[w]))]
  /\ late' = [late EXCEPT ![w] = 0]
  /\ Goto(w, "page")
  /\ UNCHANGED <<rows, writes, cache, claim, limit, offset, copy, taken, got, steady, left>>

(* The client goes on behind the page it has been told of.                 *)
Takes(w, answer) ==
  /\ taken' = [taken EXCEPT ![w] = answer]
  /\ got' = [got EXCEPT ![w] = @ \cup Range(answer.data)]
  /\ offset' = [offset EXCEPT ![w] = answer.page.offset + answer.page.limit]
  /\ Goto(w, IF answer.page.has_more THEN "send" ELSE "done")
  /\ copy' = [copy EXCEPT ![w] = None]
  /\ total' = [total EXCEPT ![w] = 0]
  /\ UNCHANGED <<rows, writes, claim, limit, history>>

(* 304 without a body, or the new answer, which the cache keeps.           *)
Page(w) ==
  /\ pc[w] = "page" /\ limit[w] >= 0
  /\ \E answer \in Answers(w) :
       IF matches(copy[w], answer)
       THEN Takes(w, copy[w]) /\ UNCHANGED cache
       ELSE /\ Takes(w, answer)
            /\ cache' = [url \in DOMAIN cache \cup {Url(w)} |->
                           IF url = Url(w) THEN answer ELSE cache[url]]

(* limit must not be negative, says the database: 500.                     *)
PageFails(w) ==
  /\ pc[w] = "page" /\ limit[w] < 0
  /\ Goto(w, "failed")
  /\ UNCHANGED <<rows, writes, cache, claim, limit, offset, copy, total, taken, got, history>>

-----------------------------------------------------------------------------
Walks(w, row) ==
  pc[w] \in {"send", "count", "page"}
    /\ claim[w].tenant = row[1] /\ row[2] \in claim[w].scope

(* A create, or a patch to the status of the filter.                       *)
Enter(row) ==
  /\ row \notin rows /\ writes < MaxWrites
  /\ rows' = rows \cup {row} /\ writes' = writes + 1
  /\ late' = [w \in Walkers |->
                IF Walks(w, row) /\ pc[w] = "page" THEN late[w] + 1 ELSE late[w]]
  /\ UNCHANGED <<cache, progress, steady, left>>

(* A patch to another status.                                              *)
Leave(row) ==
  /\ row \in rows /\ writes < MaxWrites
  /\ rows' = rows \ {row} /\ writes' = writes + 1
  /\ left' = [w \in Walkers |-> IF Walks(w, row) THEN left[w] + 1 ELSE left[w]]
  /\ steady' = [w \in Walkers |->
                  IF Walks(w, row) THEN steady[w] \ {row[2]} ELSE steady[w]]
  /\ UNCHANGED <<cache, progress, late>>

Requests(w) == Send(w) \/ Count(w) \/ Page(w) \/ PageFails(w)

Next ==
  \/ \E w \in Walkers : Start(w) \/ Requests(w)
  \/ \E row \in Writable : Enter(row) \/ Leave(row)

(* A client sends its next request and the server answers it.  Nothing is  *)
(* assumed of the start of a walk and of the writers.                      *)
Spec == Init /\ [][Next]_vars /\ \A w \in Walkers : WF_vars(Requests(w))

-----------------------------------------------------------------------------
(* A finished walk has missed no more of the rows that were there all the  *)
(* time than rows have left before its end and have entered between the    *)
(* last count and its page, which has_more does not know of.  It holds for *)
(* rows whose name no other row has: equal names may swap between pages.   *)
Unique(s) == \A other \in Slugs \ {s} : NameRank[other] # NameRank[s]
Missing(w) == {s \in steady[w] \ got[w] : Unique(s)}

MissedBounded ==
  \A w \in Walkers : pc[w] = "done" /\ limit[w] > 0 =>
    Cardinality(Missing(w)) <= left[w] + late[w]

(* Whatever other tokens have left in the cache, an answer that is taken,  *)
(* by a 304 or not, is one the server could give to this token now.        *)
AnswersAreCurrent ==
  [][\A w \in Walkers : Page(w) => taken'[w] \in Answers(w)]_vars

(* Every walk with a positive limit comes to an end.                       *)
WalkEnds ==
  \A w \in Walkers : pc[w] = "send" /\ limit[w] > 0 ~> pc[w] = "done"

-----------------------------------------------------------------------------
(* The inductive invariant behind the first two.                           *)

Walking(w) == pc[w] \in {"send", "count", "page"}

(* The rows a statement must sort before s; a walk is past s when it asks  *)
(* for an offset beyond them.                                              *)
Below(c, s) == {other \in Sees(c) : NameRank[other] < NameRank[s]}
Passed(w) == {s \in Missing(w) : Cardinality(Below(claim[w], s)) < offset[w]}

(* A walker that has begun has a token and a limit; it counts no more      *)
(* writes than there were.                                                 *)
Asks(w) ==
  /\ pc[w] = "idle" => offset[w] = 0
  /\ pc[w] # "idle" => claim[w] \in Claims /\ limit[w] \in Limits
  /\ left[w] <= writes /\ late[w] <= writes

(* What is steady is still there, what a walk is past and has not read is  *)
(* made up for by rows that left, and what it counted, by late rows.       *)
Keeps(w) ==
  /\ Walking(w) => steady[w] \subseteq Sees(claim[w])
  /\ Walking(w) /\ limit[w] > 0 => Cardinality(Passed(w)) <= left[w]
  /\ pc[w] = "page" => Cardinality(Sees(claim[w])) <= total[w] + late[w]

WalkInv == TypeOK /\ MissedBounded /\ \A w \in Walkers : Asks(w) /\ Keeps(w)

=============================================================================
