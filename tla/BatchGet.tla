------------------------------- MODULE BatchGet -------------------------------
(***************************************************************************)
(* The second half of GetList: batchGetByPK loads the rows of a page by    *)
(* their primary keys, from Redis in batches of MaxRedisBatch and from the *)
(* database in batches of MaxDBIn, and stores what Redis lacked, while     *)
(* other goroutines load pages, update and insert rows.  It knows neither  *)
(* singleflight nor L1, and looks in Redis once.                           *)
(*                                                                         *)
(* Rows are stamps as in PkCache.  A loop over a slice is the set of its   *)
(* positions still to be treated, and each round takes the first of them.  *)
(* GetByPK without L1 stores in Redis what a page of one key does.         *)
(***************************************************************************)
EXTENDS Integers, Sequences, FiniteSets

CONSTANTS
    Goroutines,
    Keys,
    InitRows,       \* the keys that have a row at the start, with stamp 1
    Pages,          \* the arguments of batchGetByPK
    MaxRedisBatch,  \* Limits.MaxRedisBatch
    MaxDBIn,        \* Limits.MaxDBIn
    MaxStamp,       \* bound: stamps of writes
    Faults          \* the faults that may occur, among FaultKinds

FaultKinds == {"redis", "db"}

ASSUME BatchGetAssumption ==
    /\ InitRows \subseteq Keys
    /\ \A p \in Pages : p \in Seq(Keys) /\ p # <<>>
    /\ MaxRedisBatch \in Nat \ {0}
    /\ MaxDBIn \in Nat \ {0}
    /\ MaxStamp \in Nat \ {0}
    /\ Faults \subseteq FaultKinds

Absent == 0         \* the row does not exist; "__null__" in Redis
Miss   == -1        \* nothing there

Stamps == 1 .. MaxStamp
Rows   == Stamps \cup {Absent}

VARIABLES
    db,         \* committed rows
    clock,      \* last stamp handed out
    history,    \* history variable: stamps each row was ever committed with
    redis,      \* redis[k]: the value of PkKey(k)
    pc,         \* where a goroutine is, "idle" between calls
    page,       \* the keys its call is about: those of batchGetByPK, or that
                \* of an update; <<>> between calls
    left,       \* positions the current loop has still to treat
    missing,    \* positions Redis had no answer for
    rows,       \* what the queries found for a key, so far
    got,        \* resultMap
    hidden,     \* history variable: keys without a row when the call began,
                \* or with "__null__" in Redis since
    excused     \* history variable: keys whose invalidation was defeated

data == <<db, clock, history>>
call == <<page, left, missing, rows, got>>
vars == <<db, clock, history, redis, pc, page, left, missing, rows, got,
          hidden, excused>>

PCs == {"idle", "mget", "query", "store", "done", "del"}

TypeOK ==
    /\ db \in [Keys -> Rows]
    /\ clock \in Stamps
    /\ history \in [Keys -> SUBSET Stamps]
    /\ redis \in [Keys -> Rows \cup {Miss}]
    /\ pc \in [Goroutines -> PCs]
    /\ page \in [Goroutines -> Seq(Keys)]
    /\ left \in [Goroutines -> SUBSET Nat]
    /\ missing \in [Goroutines -> SUBSET Nat]
    /\ \A g \in Goroutines : left[g] \cup missing[g] \subseteq DOMAIN page[g]
    /\ rows \in [Goroutines -> [Keys -> Rows]]
    /\ got \in [Goroutines -> [Keys -> Stamps \cup {Miss}]]
    /\ hidden \in [Goroutines -> SUBSET Keys]
    /\ excused \subseteq Keys

Nothing == [k \in Keys |-> Absent]
NoneYet == [k \in Keys |-> Miss]

Init ==
    /\ db = [k \in Keys |-> IF k \in InitRows THEN 1 ELSE Absent]
    /\ clock = 1
    /\ history = [k \in Keys |-> IF k \in InitRows THEN {1} ELSE {}]
    /\ redis = NoneYet
    /\ pc = [g \in Goroutines |-> "idle"]
    /\ page = [g \in Goroutines |-> <<>>]
    /\ left = [g \in Goroutines |-> {}]
    /\ missing = [g \in Goroutines |-> {}]
    /\ rows = [g \in Goroutines |-> Nothing]
    /\ got = [g \in Goroutines |-> NoneYet]
    /\ hidden = [g \in Goroutines |-> {}]
    /\ excused = {}

-----------------------------------------------------------------------------
(* Helpers *)

Goto(g, from, to) == pc[g] = from /\ pc' = [pc EXCEPT ![g] = to]

(* The first n positions of S: one round of "for i := 0; ...; i += n".     *)
FirstOf(S, n) == {p \in S : Cardinality({q \in S : q < p}) < n}

KeysAt(g, S) == {page[g][n] : n \in S}

(* A round of a loop treats the positions in chunk; after the last one     *)
(* comes the loop over the positions in rest, or the end if there are none.*)
Round(g, at, chunk, next, rest) ==
    /\ pc[g] = at
    /\ \/ /\ left[g] # chunk
          /\ left' = [left EXCEPT ![g] = @ \ chunk]
          /\ UNCHANGED pc
       \/ /\ left[g] = chunk
          /\ left' = [left EXCEPT ![g] = rest]
          /\ pc' = [pc EXCEPT ![g] = IF rest = {} THEN "done" ELSE next]

(* g holds an outdated row that it has queried and is still to store.      *)
StaleFill(g, k) ==
    /\ rows[g][k] \in Stamps /\ rows[g][k] # db[k]
    /\ \/ pc[g] = "query"
       \/ pc[g] = "store" /\ k \in KeysAt(g, left[g])

SomeStaleFill(k) == \E g \in Goroutines : StaleFill(g, k)

(* g is still to delete k from Redis.                                      *)
PendingDel(g, k) == pc[g] = "del" /\ page[g] = <<k>>

-----------------------------------------------------------------------------
(* batchGetByPK *)

StartBatch(g, p) ==
    /\ Goto(g, "idle", "mget")
    /\ page' = [page EXCEPT ![g] = p]
    /\ left' = [left EXCEPT ![g] = DOMAIN p]
    /\ missing' = [missing EXCEPT ![g] = {}]
    /\ rows' = [rows EXCEPT ![g] = Nothing]
    /\ got' = [got EXCEPT ![g] = NoneYet]
    /\ hidden' = [hidden EXCEPT ![g] =
                    {k \in Keys : db[k] = Absent \/ redis[k] = Absent}]
    /\ UNCHANGED <<data, redis, excused>>

(* A mutant: the answers of a batch are taken for those of the first keys  *)
(* of the page (pks[idx] for pks[i+idx]).                                  *)
MGet_ForgetsOffset(g) ==
    LET chunk  == FirstOf(left[g], MaxRedisBatch)
        Shift(n) == n - Cardinality(DOMAIN page[g] \ left[g])
    IN
    /\ pc[g] = "mget"
    /\ got' = [got EXCEPT ![g] = [k \in Keys |->
         IF \E n \in chunk : /\ page[g][Shift(n)] = k
                             /\ redis[page[g][n]] \in Stamps
         THEN redis[page[g][CHOOSE n \in chunk : page[g][Shift(n)] = k]]
         ELSE @[k]]]
    /\ missing' = [missing EXCEPT ![g] =
                     @ \cup {n \in chunk : redis[page[g][n]] = Miss}]
    /\ Round(g, "mget", chunk, "query", missing'[g])
    /\ UNCHANGED <<data, redis, page, rows, hidden, excused>>

(* A mutant: a batch whose MGet fails is passed over.                      *)
MGet_DropsFailedBatch(g) ==
    LET chunk == FirstOf(left[g], MaxRedisBatch) IN
    /\ \/ /\ got' = [got EXCEPT ![g] = [k \in Keys |->
                IF k \in KeysAt(g, chunk) /\ redis[k] \in Stamps
                THEN redis[k] ELSE @[k]]]
          /\ missing' = [missing EXCEPT ![g] =
                           @ \cup {n \in chunk : redis[page[g][n]] = Miss}]
       \/ "redis" \in Faults /\ UNCHANGED <<missing, got>>
    /\ Round(g, "mget", chunk, "query", missing'[g])
    /\ UNCHANGED <<data, redis, page, rows, hidden, excused>>

(* A mutant: "__null__" is decoded as if it were a row.                    *)
MGet_DecodesNull(g) ==
    LET chunk == FirstOf(left[g], MaxRedisBatch) IN
    /\ got' = [got EXCEPT ![g] = [k \in Keys |->
         IF k \in KeysAt(g, chunk) THEN redis[k] ELSE @[k]]]
    /\ missing' = [missing EXCEPT ![g] =
                     @ \cup {n \in chunk : redis[page[g][n]] = Miss}]
    /\ Round(g, "mget", chunk, "query", missing'[g])
    /\ UNCHANGED <<data, redis, page, rows, hidden, excused>>

(* One Redis batch: a row is a hit, "__null__" is passed over, the rest is *)
(* missing; all of the batch is missing when Redis fails.                  *)
MGet(g) ==
    LET chunk == FirstOf(left[g], MaxRedisBatch) IN
    /\ \/ /\ got' = [got EXCEPT ![g] = [k \in Keys |->
                IF k \in KeysAt(g, chunk) /\ redis[k] \in Stamps
                THEN redis[k] ELSE @[k]]]
          /\ missing' = [missing EXCEPT ![g] =
                           @ \cup {n \in chunk : redis[page[g][n]] = Miss}]
       \/ /\ "redis" \in Faults
          /\ missing' = [missing EXCEPT ![g] = @ \cup chunk]
          /\ UNCHANGED got
    /\ Round(g, "mget", chunk, "query", missing'[g])
    /\ UNCHANGED <<data, redis, page, rows, hidden, excused>>

(* One database batch of the missing keys.                                 *)
Query(g) ==
    LET chunk == FirstOf(left[g], MaxDBIn) IN
    /\ rows' = [rows EXCEPT ![g] = [k \in Keys |->
         IF k \in KeysAt(g, chunk) THEN db[k] ELSE @[k]]]
    /\ Round(g, "query", chunk, "store", missing[g])
    /\ UNCHANGED <<data, redis, page, missing, got, hidden, excused>>

Forget(g) ==
    /\ page' = [page EXCEPT ![g] = <<>>]
    /\ left' = [left EXCEPT ![g] = {}]
    /\ missing' = [missing EXCEPT ![g] = {}]
    /\ rows' = [rows EXCEPT ![g] = Nothing]
    /\ got' = [got EXCEPT ![g] = NoneYet]
    /\ hidden' = [hidden EXCEPT ![g] = {}]

(* A database batch fails, and with it the call.                           *)
QueryFails(g) ==
    /\ "db" \in Faults
    /\ Goto(g, "query", "idle")
    /\ Forget(g)
    /\ UNCHANGED <<data, redis, excused>>

(* The rows found are stored first, in the order of the page.              *)
NextToStore(g) ==
    LET found == {n \in left[g] : rows[g][page[g][n]] # Absent}
    IN  FirstOf(IF found # {} THEN found ELSE left[g], 1)

(* One missing key: its row joins the result and is stored in Redis, or    *)
(* "__null__" is stored; an error of Redis is ignored.                     *)
Store(g) ==
    \E n \in NextToStore(g) :
      LET k == page[g][n] IN
      /\ got' = IF rows[g][k] = Absent THEN got
                                       ELSE [got EXCEPT ![g][k] = rows[g][k]]
      /\ \/ /\ redis' = [redis EXCEPT ![k] = rows[g][k]]
            /\ hidden' = [h \in Goroutines |->
                 IF rows[g][k] = Absent /\ pc[h] \notin {"idle", "del"}
                 THEN hidden[h] \cup {k} ELSE hidden[h]]
         \/ "redis" \in Faults /\ UNCHANGED <<redis, hidden>>
      /\ Round(g, "store", {n}, "done", {})
      /\ UNCHANGED <<data, page, missing, rows, excused>>

(* The rows of resultMap are returned in the order of the page.            *)
Return(g) ==
    /\ Goto(g, "done", "idle")
    /\ Forget(g)
    /\ UNCHANGED <<data, redis, excused>>

-----------------------------------------------------------------------------
(* Writes, outside transactions, and time *)

Write(k) ==
    /\ clock < MaxStamp
    /\ clock' = clock + 1
    /\ db' = [db EXCEPT ![k] = clock + 1]
    /\ history' = [history EXCEPT ![k] = @ \cup {clock + 1}]

(* A mutant: the invalidation is forgotten.                                *)
Update_NoDel(g, k) ==
    /\ db[k] # Absent
    /\ Goto(g, "idle", "idle")
    /\ Write(k)
    /\ UNCHANGED <<redis, call, hidden, excused>>

Update(g, k) ==
    /\ db[k] # Absent
    /\ Goto(g, "idle", "del")
    /\ Write(k)
    /\ page' = [page EXCEPT ![g] = <<k>>]
    /\ UNCHANGED <<redis, left, missing, rows, got, hidden, excused>>

(* Insert deletes nothing: "__null__" may remain.                          *)
Insert(g, k) ==
    /\ db[k] = Absent
    /\ pc[g] = "idle"
    /\ Write(k)
    /\ UNCHANGED <<redis, pc, call, hidden, excused>>

(* The deletion after the write; an error of Redis is ignored.             *)
Del(g) ==
    LET k == page[g][1] IN
    /\ Goto(g, "del", "idle")
    /\ page' = [page EXCEPT ![g] = <<>>]
    /\ \/ /\ redis' = [redis EXCEPT ![k] = Miss]
          /\ excused' = IF SomeStaleFill(k) THEN excused \cup {k}
                                            ELSE excused \ {k}
       \/ "redis" \in Faults /\ excused' = excused \cup {k} /\ UNCHANGED redis
    /\ UNCHANGED <<data, left, missing, rows, got, hidden>>

(* The TTL of a Redis entry ends.                                          *)
RedisExpire(k) ==
    /\ redis[k] # Miss
    /\ redis' = [redis EXCEPT ![k] = Miss]
    /\ excused' = IF SomeStaleFill(k) THEN excused ELSE excused \ {k}
    /\ UNCHANGED <<data, pc, call, hidden>>

-----------------------------------------------------------------------------
Next ==
    \/ \E g \in Goroutines :
         \/ \E p \in Pages : StartBatch(g, p)
         \/ MGet(g) \/ Query(g) \/ QueryFails(g) \/ Store(g) \/ Return(g)
         \/ \E k \in Keys : Update(g, k) \/ Insert(g, k)
         \/ Del(g)
    \/ \E k \in Keys : RedisExpire(k)

Spec == Init /\ [][Next]_vars

-----------------------------------------------------------------------------
(* Properties *)

(* Whatever the sizes of page and batches and whichever of them fail, a    *)
(* row of the page is in the result, unless it did not exist when the call *)
(* began or was hidden behind "__null__" at some time since - as an        *)
(* inserted row is, which Insert does not uncover.                         *)
NoRowLost ==
    \A g \in Goroutines :
      pc[g] = "done" =>
        \A n \in DOMAIN page[g] :
          got[g][page[g][n]] # Miss \/ page[g][n] \in hidden[g]

(* A row of the result or of Redis was committed under that very key, and  *)
(* "__null__" is stored for no row that always existed.                    *)
RightRow ==
    \A k \in Keys :
      /\ redis[k] # Miss =>
           redis[k] \in history[k] \cup (IF k \in InitRows THEN {} ELSE {Absent})
      /\ \A g \in Goroutines : got[g][k] \in history[k] \cup {Miss}

(* Batch loads leave an outdated row in Redis in no other way than single  *)
(* ones do: its writer is still to delete it, or its deletion failed or    *)
(* was overtaken by a load that had queried before the write.              *)
StaleRowExplained ==
    \A k \in Keys :
      redis[k] \in Stamps /\ redis[k] # db[k] =>
        k \in excused \/ \E g \in Goroutines : PendingDel(g, k)

=============================================================================
