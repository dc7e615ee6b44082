---------------------------- MODULE BatchGetProofs ----------------------------
(***************************************************************************)
(* Theorems about BatchGet for any number of goroutines and keys, any      *)
(* pages and any sizes of the batches.                                     *)
(***************************************************************************)
EXTENDS BatchGet, TLAPS

InCall == {"mget", "query", "store", "done"}

(* Where the local variables of a call are when.                           *)
Control ==
    \A g \in Goroutines :
      /\ pc[g] = "mget" => rows[g] = Nothing
      /\ pc[g] \in {"query", "store"} => left[g] \subseteq missing[g]
      /\ pc[g] = "del" => \E k \in Keys : page[g] = <<k>>
      /\ pc[g] \in {"idle", "del"} => left[g] = {} /\ missing[g] = {}

TypeInv == TypeOK /\ Control

(* The positions whose query has been made, and has found what rows holds. *)
Asked(g) == CASE pc[g] = "query" -> missing[g] \ left[g]
              [] pc[g] = "store" -> left[g]
              [] OTHER           -> {}

(* A row found was committed under its key; one not found never existed    *)
(* from the start on.                                                      *)
RowInv ==
    /\ RightRow
    /\ \A k \in Keys :
         /\ db[k] \in history[k] \cup {Absent}
         /\ db[k] = Absent => history[k] = {} /\ k \notin InitRows
         /\ \A g \in Goroutines : rows[g][k] \in history[k] \cup {Absent}
    /\ \A g \in Goroutines : \A n \in Asked(g) :
         rows[g][page[g][n]] = Absent => page[g][n] \notin InitRows

(* The keys that are not hidden have a row, and Redis does not deny it.    *)
HiddenInv ==
    \A g \in Goroutines : pc[g] \in InCall =>
      \A k \in Keys \ hidden[g] : db[k] # Absent /\ redis[k] # Absent

(* Where a row of the page is while the call runs: in the result, among    *)
(* the positions still to be treated, or among the missing ones.           *)
Tracked(g, n) ==
    \/ got[g][page[g][n]] # Miss
    \/ page[g][n] \in hidden[g]
    \/ pc[g] = "mget" /\ n \in left[g] \cup missing[g]
    \/ pc[g] = "query" /\ n \in missing[g]
         /\ (n \in left[g] \/ rows[g][page[g][n]] # Absent)
    \/ pc[g] = "store" /\ n \in left[g] /\ rows[g][page[g][n]] # Absent

TrackInv ==
    \A g \in Goroutines : pc[g] \in InCall =>
      \A n \in DOMAIN page[g] : Tracked(g, n)

(* What explains an outdated row in Redis also explains one that is about  *)
(* to be stored there.                                                     *)
Explained(k) == k \in excused \/ \E g \in Goroutines : PendingDel(g, k)

ExplainInv ==
    \A k \in Keys :
      /\ redis[k] \in Stamps /\ redis[k] # db[k] => Explained(k)
      /\ SomeStaleFill(k) => Explained(k)

USE BatchGetAssumption

LEMMA Values ==
  /\ Absent \in Rows /\ Stamps \subseteq Rows /\ Rows = Stamps \cup {Absent}
  /\ Absent \notin Stamps /\ Miss \notin Rows /\ 1 \in Stamps
BY DEF Rows, Stamps, Absent, Miss

LEMMA NextStamp == TypeOK /\ clock < MaxStamp => clock + 1 \in Stamps
BY DEF TypeOK, Stamps

LEMMA FirstOfSubset == \A S, n : FirstOf(S, n) \subseteq S
BY DEF FirstOf

-----------------------------------------------------------------------------
(* Types *)

LEMMA InitTypeInv == Init => TypeInv
<1> SUFFICES ASSUME Init PROVE TypeInv
  OBVIOUS
<1>1. /\ db \in [Keys -> Rows] /\ clock \in Stamps
      /\ history \in [Keys -> SUBSET Stamps]
      /\ redis \in [Keys -> Rows \cup {Miss}]
  BY Values DEF Init, NoneYet
<1>2. /\ pc \in [Goroutines -> PCs] /\ page \in [Goroutines -> Seq(Keys)]
      /\ rows \in [Goroutines -> [Keys -> Rows]]
      /\ got \in [Goroutines -> [Keys -> Stamps \cup {Miss}]]
      /\ hidden \in [Goroutines -> SUBSET Keys] /\ excused \subseteq Keys
  BY Values DEF Init, NoneYet, Nothing, PCs
<1>3. /\ left = [g \in Goroutines |-> {}] /\ missing = [g \in Goroutines |-> {}]
      /\ pc = [g \in Goroutines |-> "idle"]
  BY DEF Init
<1> QED BY <1>1, <1>2, <1>3 DEF TypeInv, TypeOK, Control

LEMMA StartBatchTypeInv ==
  ASSUME TypeInv, NEW g \in Goroutines, NEW p \in Pages, StartBatch(g, p)
  PROVE  TypeInv'
<1> USE DEF TypeInv, TypeOK, StartBatch, Goto, data
<1>1. p \in Seq(Keys) /\ DOMAIN p \subseteq Nat
  OBVIOUS
<1>2. /\ page' \in [Goroutines -> Seq(Keys)]
      /\ left' \in [Goroutines -> SUBSET Nat]
      /\ missing' \in [Goroutines -> SUBSET Nat]
      /\ \A h \in Goroutines : left'[h] \cup missing'[h] \subseteq DOMAIN page'[h]
  BY <1>1
<1>3. /\ rows' \in [Goroutines -> [Keys -> Rows]]
      /\ got' \in [Goroutines -> [Keys -> Stamps \cup {Miss}]]
  BY Values DEF Nothing, NoneYet
<1>4. hidden' \in [Goroutines -> SUBSET Keys] /\ pc' \in [Goroutines -> PCs]
  BY DEF PCs
<1>5. Control'
  BY DEF Control
<1> QED BY <1>2, <1>3, <1>4, <1>5

(* What MGet, Query and Store share.                                       *)
LEMMA LoopTypeInv ==
  ASSUME TypeInv, NEW g \in Goroutines, NEW at \in PCs, NEW chunk, NEW next \in PCs,
         NEW rest, Round(g, at, chunk, next, rest),
         missing' \in [Goroutines -> SUBSET Nat],
         missing'[g] \subseteq DOMAIN page[g],
         \A h \in Goroutines \ {g} : missing'[h] = missing[h] /\ rows'[h] = rows[h],
         missing[g] \subseteq missing'[g], rest \subseteq missing'[g],
         at \notin {"idle", "del"}, next \notin {"idle", "del"},
         next # "mget", at = "mget" => rows'[g] = rows[g],
         UNCHANGED page
  PROVE  /\ Control'
         /\ pc' \in [Goroutines -> PCs]
         /\ left' \in [Goroutines -> SUBSET Nat]
         /\ \A h \in Goroutines : left'[h] \cup missing'[h] \subseteq DOMAIN page'[h]
<1>1. /\ left[g] \in SUBSET Nat /\ left[g] \ chunk \in SUBSET Nat
      /\ rest \in SUBSET Nat /\ left[g] \subseteq DOMAIN page[g]
  BY DEF TypeInv, TypeOK
<1>2. /\ pc[g] = at
      /\ \/ left' = [left EXCEPT ![g] = left[g] \ chunk] /\ pc' = pc
         \/ left' = [left EXCEPT ![g] = rest] /\ rest = {}
              /\ pc' = [pc EXCEPT ![g] = "done"]
         \/ left' = [left EXCEPT ![g] = rest] /\ pc' = [pc EXCEPT ![g] = next]
  BY DEF Round, TypeInv, TypeOK
<1>3. /\ pc' \in [Goroutines -> PCs]
      /\ left' \in [Goroutines -> SUBSET Nat]
      /\ left'[g] \subseteq left[g] \cup rest
      /\ pc'[g] \in {at, "done", next}
      /\ pc'[g] = at => left'[g] \subseteq left[g] \/ at = next
      /\ \A h \in Goroutines \ {g} : left'[h] = left[h] /\ pc'[h] = pc[h]
  <2>1. CASE left' = [left EXCEPT ![g] = left[g] \ chunk] /\ pc' = pc
    BY <1>1, <1>2, <2>1 DEF TypeInv, TypeOK
  <2>2. CASE /\ left' = [left EXCEPT ![g] = rest] /\ rest = {}
             /\ pc' = [pc EXCEPT ![g] = "done"]
    BY <1>1, <2>2 DEF TypeInv, TypeOK, PCs
  <2>3. CASE left' = [left EXCEPT ![g] = rest] /\ pc' = [pc EXCEPT ![g] = next]
    BY <1>1, <2>3 DEF TypeInv, TypeOK
  <2> QED BY <1>2, <2>1, <2>2, <2>3
<1>4. Control'
  BY <1>2, <1>3 DEF TypeInv, Control
<1>5. \A h \in Goroutines : left'[h] \cup missing'[h] \subseteq DOMAIN page'[h]
  BY <1>1, <1>3 DEF TypeInv, TypeOK
<1> QED BY <1>3, <1>4, <1>5

LEMMA MGetTypeInv ==
  ASSUME TypeInv, NEW g \in Goroutines, MGet(g)
  PROVE  TypeInv'
<1> DEFINE chunk == FirstOf(left[g], MaxRedisBatch)
<1>1. chunk \subseteq DOMAIN page[g] /\ DOMAIN page[g] \subseteq Nat
  BY FirstOfSubset DEF TypeInv, TypeOK
<1>2. got' \in [Goroutines -> [Keys -> Stamps \cup {Miss}]]
  <2> DEFINE hits == [k \in Keys |->
        IF k \in KeysAt(g, chunk) /\ redis[k] \in Stamps THEN redis[k] ELSE got[g][k]]
  <2>1. got' = got \/ got' = [got EXCEPT ![g] = hits]
    BY DEF MGet, TypeInv, TypeOK
  <2>2. hits \in [Keys -> Stamps \cup {Miss}]
    BY DEF TypeInv, TypeOK
  <2> HIDE DEF hits
  <2> QED BY <2>1, <2>2 DEF TypeInv, TypeOK
<1>3. /\ missing' \in [Goroutines -> SUBSET Nat]
      /\ missing'[g] \subseteq DOMAIN page[g]
      /\ missing[g] \subseteq missing'[g]
      /\ \A h \in Goroutines \ {g} : missing'[h] = missing[h]
  <2> HIDE DEF chunk
  <2>1. \E add \in SUBSET chunk : missing' = [missing EXCEPT ![g] = @ \cup add]
    BY DEF MGet, chunk
  <2> QED BY <1>1, <2>1 DEF TypeInv, TypeOK
<1>4. Round(g, "mget", chunk, "query", missing'[g])
  BY DEF MGet
<1>5. UNCHANGED <<page, rows, db, clock, history, redis, hidden, excused>>
  BY DEF MGet, data
<1> HIDE DEF chunk
<1>6. /\ Control' /\ pc' \in [Goroutines -> PCs]
      /\ left' \in [Goroutines -> SUBSET Nat]
      /\ \A h \in Goroutines : left'[h] \cup missing'[h] \subseteq DOMAIN page'[h]
  <2>1. "query" \in PCs /\ "mget" \in PCs
    BY DEF PCs
  <2>2. UNCHANGED <<page, rows>>
    BY <1>5
  <2> QED BY <1>3, <1>4, <2>1, <2>2, LoopTypeInv
<1> QED BY <1>2, <1>3, <1>5, <1>6 DEF TypeInv, TypeOK

LEMMA QueryTypeInv ==
  ASSUME TypeInv, NEW g \in Goroutines, Query(g)
  PROVE  TypeInv'
<1> DEFINE chunk == FirstOf(left[g], MaxDBIn)
           answer == [k \in Keys |-> IF k \in KeysAt(g, chunk) THEN db[k] ELSE rows[g][k]]
<1>1. rows' = [rows EXCEPT ![g] = answer]
  BY DEF Query, TypeInv, TypeOK
<1>2. answer \in [Keys -> Rows]
  BY DEF TypeInv, TypeOK
<1>3. Round(g, "query", chunk, "store", missing[g]) /\ missing' = missing
  BY DEF Query
<1>4. UNCHANGED <<page, missing, got, db, clock, history, redis, hidden, excused>>
  BY DEF Query, data
<1> HIDE DEF chunk, answer
<1>5. /\ rows' \in [Goroutines -> [Keys -> Rows]]
      /\ \A h \in Goroutines \ {g} : rows'[h] = rows[h]
  BY <1>1, <1>2 DEF TypeInv, TypeOK
<1>6. /\ missing' \in [Goroutines -> SUBSET Nat]
      /\ missing'[g] \subseteq DOMAIN page[g]
  BY <1>3 DEF TypeInv, TypeOK
<1>7. /\ Control' /\ pc' \in [Goroutines -> PCs]
      /\ left' \in [Goroutines -> SUBSET Nat]
      /\ \A h \in Goroutines : left'[h] \cup missing'[h] \subseteq DOMAIN page'[h]
  <2>1. "query" \in PCs /\ "store" \in PCs
    BY DEF PCs
  <2>2. UNCHANGED <<page, missing>>
    BY <1>4
  <2>3. /\ \A h \in Goroutines \ {g} : missing'[h] = missing[h] /\ rows'[h] = rows[h]
        /\ missing[g] \subseteq missing'[g]
    BY <1>5, <2>2
  <2>4. "query" \notin {"idle", "del"} /\ "store" \notin {"idle", "del"}
    OBVIOUS
  <2>5. "store" # "mget" /\ "query" # "mget" /\ UNCHANGED page
    BY <2>2
  <2> QED BY <1>3, <1>6, <2>1, <2>3, <2>4, <2>5, LoopTypeInv
<1> QED BY <1>4, <1>5, <1>6, <1>7 DEF TypeInv, TypeOK

LEMMA StoreTypeInv ==
  ASSUME TypeInv, NEW g \in Goroutines, Store(g)
  PROVE  TypeInv'
<1>1. PICK n \in NextToStore(g) :
        LET k == page[g][n] IN
        /\ got' = IF rows[g][k] = Absent THEN got ELSE [got EXCEPT ![g][k] = rows[g][k]]
        /\ \/ /\ redis' = [redis EXCEPT ![k] = rows[g][k]]
              /\ hidden' = [h \in Goroutines |->
                   IF rows[g][k] = Absent /\ pc[h] \notin {"idle", "del"}
                   THEN hidden[h] \cup {k} ELSE hidden[h]]
           \/ UNCHANGED <<redis, hidden>>
        /\ Round(g, "store", {n}, "done", {})
        /\ UNCHANGED <<data, page, missing, rows, excused>>
  BY DEF Store
<1>2. n \in left[g]
  BY FirstOfSubset DEF NextToStore
<1> DEFINE k == page[g][n]
<1>3. k \in Keys
  BY <1>2 DEF TypeInv, TypeOK
<1>4. rows[g][k] \in Rows
  BY <1>3 DEF TypeInv, TypeOK
<1>5. got' \in [Goroutines -> [Keys -> Stamps \cup {Miss}]]
  BY <1>1, <1>3, <1>4, Values DEF TypeInv, TypeOK
<1>6. redis' \in [Keys -> Rows \cup {Miss}] /\ hidden' \in [Goroutines -> SUBSET Keys]
  <2> HIDE DEF k
  <2>1. CASE UNCHANGED <<redis, hidden>>
    BY <2>1 DEF TypeInv, TypeOK
  <2>2. CASE /\ redis' = [redis EXCEPT ![k] = rows[g][k]]
             /\ \A h \in Goroutines : hidden'[h] \subseteq hidden[h] \cup {k}
             /\ hidden' = [h \in Goroutines |-> hidden'[h]]
    <3>1. redis' \in [Keys -> Rows \cup {Miss}]
      <4>1. redis \in [Keys -> Rows \cup {Miss}] /\ rows[g][k] \in Rows \cup {Miss}
        BY <1>4 DEF TypeInv, TypeOK
      <4> QED BY <1>3, <2>2, <4>1
    <3>2. \A h \in Goroutines : hidden'[h] \in SUBSET Keys
      BY <1>3, <2>2 DEF TypeInv, TypeOK
    <3> QED BY <2>2, <3>1, <3>2
  <2> QED BY <1>1, <2>1, <2>2 DEF k
<1>7. /\ Control' /\ pc' \in [Goroutines -> PCs]
      /\ left' \in [Goroutines -> SUBSET Nat]
      /\ \A h \in Goroutines : left'[h] \cup missing'[h] \subseteq DOMAIN page'[h]
  <2>1. Round(g, "store", {n}, "done", {}) /\ UNCHANGED <<page, missing, rows>>
    BY <1>1
  <2>2. /\ missing' \in [Goroutines -> SUBSET Nat]
        /\ missing'[g] \subseteq DOMAIN page[g]
        /\ missing[g] \subseteq missing'[g] /\ {} \subseteq missing'[g]
        /\ \A h \in Goroutines \ {g} : missing'[h] = missing[h] /\ rows'[h] = rows[h]
    BY <2>1 DEF TypeInv, TypeOK
  <2> DEFINE chunk == {n}
             rest == {}
  <2>3. Round(g, "store", chunk, "done", rest) /\ rest \subseteq missing'[g]
    BY <2>1
  <2> HIDE DEF chunk, rest
  <2>4. page' = page /\ rows' = rows
    BY <2>1
  <2>5. /\ "store" \in PCs /\ "done" \in PCs
        /\ "store" \notin {"idle", "del"} /\ "done" \notin {"idle", "del"}
        /\ "done" # "mget" /\ "store" # "mget"
    BY DEF PCs
  <2> HIDE DEF k
  <2> QED BY <2>2, <2>3, <2>4, <2>5, LoopTypeInv
<1> QED BY <1>1, <1>5, <1>6, <1>7 DEF TypeInv, TypeOK, data

LEMMA ForgetTypeInv ==
  ASSUME TypeInv, NEW g \in Goroutines, Forget(g), pc' = [pc EXCEPT ![g] = "idle"],
         UNCHANGED <<data, redis, excused>>
  PROVE  TypeInv'
<1>1. /\ page' \in [Goroutines -> Seq(Keys)]
      /\ left' \in [Goroutines -> SUBSET Nat]
      /\ missing' \in [Goroutines -> SUBSET Nat]
      /\ \A h \in Goroutines : left'[h] \cup missing'[h] \subseteq DOMAIN page'[h]
  BY DEF Forget, TypeInv, TypeOK
<1>2. /\ rows' \in [Goroutines -> [Keys -> Rows]]
      /\ got' \in [Goroutines -> [Keys -> Stamps \cup {Miss}]]
      /\ hidden' \in [Goroutines -> SUBSET Keys]
  BY Values DEF Forget, TypeInv, TypeOK, Nothing, NoneYet
<1>3. Control' /\ pc' \in [Goroutines -> PCs]
  BY DEF Forget, TypeInv, TypeOK, Control, PCs
<1> QED BY <1>1, <1>2, <1>3 DEF TypeInv, TypeOK, data

LEMMA WriteType ==
  ASSUME TypeOK, NEW k \in Keys, Write(k)
  PROVE  /\ db' \in [Keys -> Rows] /\ clock' \in Stamps
         /\ history' \in [Keys -> SUBSET Stamps]
BY NextStamp, Values DEF Write, TypeOK

LEMMA StepTypeInv == TypeInv /\ [Next]_vars => TypeInv'
<1> SUFFICES ASSUME TypeInv, [Next]_vars PROVE TypeInv'
  OBVIOUS
<1>1. ASSUME NEW g \in Goroutines, QueryFails(g) PROVE TypeInv'
  BY <1>1, ForgetTypeInv DEF QueryFails, Goto
<1>2. ASSUME NEW g \in Goroutines, Return(g) PROVE TypeInv'
  BY <1>2, ForgetTypeInv DEF Return, Goto
<1>3. ASSUME NEW g \in Goroutines, NEW k \in Keys, Update(g, k) PROVE TypeInv'
  <2>1. /\ db' \in [Keys -> Rows] /\ clock' \in Stamps
        /\ history' \in [Keys -> SUBSET Stamps]
    BY <1>3, WriteType DEF TypeInv, Update
  <2>2. /\ page' = [page EXCEPT ![g] = <<k>>] /\ <<k>> \in Seq(Keys)
        /\ pc[g] = "idle" /\ pc' = [pc EXCEPT ![g] = "del"]
        /\ UNCHANGED <<redis, left, missing, rows, got, hidden, excused>>
    BY <1>3 DEF Update, Goto
  <2>3. Control' /\ pc' \in [Goroutines -> PCs]
    BY <2>2 DEF TypeInv, TypeOK, Control, PCs
  <2>4. \A h \in Goroutines : left'[h] \cup missing'[h] \subseteq DOMAIN page'[h]
    BY <2>2 DEF TypeInv, TypeOK, Control
  <2> QED BY <2>1, <2>2, <2>3, <2>4 DEF TypeInv, TypeOK
<1>4. ASSUME NEW g \in Goroutines, NEW k \in Keys, Insert(g, k) PROVE TypeInv'
  <2>1. /\ db' \in [Keys -> Rows] /\ clock' \in Stamps
        /\ history' \in [Keys -> SUBSET Stamps]
    BY <1>4, WriteType DEF TypeInv, Insert
  <2> QED BY <1>4, <2>1 DEF TypeInv, TypeOK, Control, Insert, call
<1>5. ASSUME NEW g \in Goroutines, Del(g) PROVE TypeInv'
  <2>1. PICK k \in Keys : page[g] = <<k>>
    BY <1>5 DEF Del, Goto, TypeInv, Control
  <2>2. /\ page' = [page EXCEPT ![g] = <<>>] /\ <<>> \in Seq(Keys) /\ page[g][1] = k
        /\ pc[g] = "del" /\ pc' = [pc EXCEPT ![g] = "idle"]
        /\ UNCHANGED <<db, clock, history, left, missing, rows, got, hidden>>
    BY <1>5, <2>1 DEF Del, Goto, data
  <2>3. redis' \in [Keys -> Rows \cup {Miss}] /\ excused' \subseteq Keys
    BY <1>5, <2>2 DEF Del, TypeInv, TypeOK
  <2>4. Control' /\ pc' \in [Goroutines -> PCs] /\ page' \in [Goroutines -> Seq(Keys)]
    BY <2>2 DEF TypeInv, TypeOK, Control, PCs
  <2>5. \A h \in Goroutines : left'[h] \cup missing'[h] \subseteq DOMAIN page'[h]
    BY <2>2 DEF TypeInv, TypeOK, Control
  <2> QED BY <2>2, <2>3, <2>4, <2>5 DEF TypeInv, TypeOK
<1>6. ASSUME NEW k \in Keys, RedisExpire(k) PROVE TypeInv'
  BY <1>6 DEF RedisExpire, TypeInv, TypeOK, Control, data, call
<1>7. CASE UNCHANGED vars
  BY <1>7 DEF vars, TypeInv, TypeOK, Control
<1> QED
  BY <1>1, <1>2, <1>3, <1>4, <1>5, <1>6, <1>7, StartBatchTypeInv, MGetTypeInv,
     QueryTypeInv, StoreTypeInv
  DEF Next

(* Every variable keeps its type: no round leaves the page, and "__null__" *)
(* never becomes a row of a result.                                        *)
THEOREM TypeCorrect == Spec => []TypeOK
<1>1. TypeInv => TypeOK
  BY DEF TypeInv
<1> QED BY InitTypeInv, StepTypeInv, <1>1, PTL DEF Spec

-----------------------------------------------------------------------------
(* What a round does to the positions of its loop. *)

LEMMA RoundEffect ==
  ASSUME TypeInv, NEW g \in Goroutines, NEW at, NEW chunk, NEW next, NEW rest,
         Round(g, at, chunk, next, rest)
  PROVE  /\ pc[g] = at
         /\ \A h \in Goroutines \ {g} : left'[h] = left[h] /\ pc'[h] = pc[h]
         /\ \/ pc'[g] = at /\ left'[g] = left[g] \ chunk
            \/ pc'[g] = next /\ left'[g] = rest /\ left[g] = chunk
            \/ pc'[g] = "done" /\ rest = {} /\ left[g] = chunk
<1>1. \/ /\ left' = [left EXCEPT ![g] = left[g] \ chunk] /\ pc' = pc
      \/ /\ left[g] = chunk /\ left' = [left EXCEPT ![g] = rest]
         /\ \/ rest = {} /\ pc' = [pc EXCEPT ![g] = "done"]
            \/ pc' = [pc EXCEPT ![g] = next]
  BY DEF Round, TypeInv, TypeOK
<1> QED BY <1>1 DEF Round, TypeInv, TypeOK

-----------------------------------------------------------------------------
(* Rows of the right key *)

LEMMA InitRowInv == Init => RowInv
BY Values DEF Init, RowInv, RightRow, Asked, Nothing, NoneYet

(* A step that makes no query keeps RowInv when what it puts into results  *)
(* and Redis is right and what it commits is recorded.                     *)
LEMMA RowInvKept ==
  ASSUME RowInv, RightRow',
         \A k \in Keys : /\ history[k] \subseteq history'[k]
                         /\ db'[k] \in history'[k] \cup {Absent}
                         /\ db'[k] = Absent => db[k] = Absent /\ history'[k] = history[k],
         \A g \in Goroutines : \A k \in Keys : rows'[g][k] \in {rows[g][k], Absent},
         \A g \in Goroutines : \A n \in Asked(g)' :
            n \in Asked(g) /\ page'[g][n] = page[g][n] /\ rows'[g] = rows[g]
  PROVE  RowInv'
BY DEF RowInv

LEMMA StartBatchRowInv ==
  ASSUME TypeInv, RowInv, NEW g \in Goroutines, NEW p \in Pages, StartBatch(g, p)
  PROVE  RowInv'
<1>1. /\ \A h \in Goroutines \ {g} :
           /\ pc'[h] = pc[h] /\ page'[h] = page[h] /\ left'[h] = left[h]
           /\ missing'[h] = missing[h] /\ rows'[h] = rows[h] /\ got'[h] = got[h]
      /\ pc'[g] = "mget" /\ rows'[g] = Nothing /\ got'[g] = NoneYet
      /\ UNCHANGED <<db, history, redis>>
  BY DEF StartBatch, Goto, TypeInv, TypeOK, data
<1>2. RightRow'
  BY <1>1 DEF RowInv, RightRow, NoneYet
<1>3. \A h \in Goroutines : \A n \in Asked(h)' :
        n \in Asked(h) /\ page'[h][n] = page[h][n] /\ rows'[h] = rows[h]
  BY <1>1 DEF Asked
<1>4. \A h \in Goroutines : \A k \in Keys : rows'[h][k] \in {rows[h][k], Absent}
  BY <1>1 DEF Nothing
<1> QED BY <1>1, <1>2, <1>3, <1>4, RowInvKept DEF RowInv

LEMMA MGetRowInv ==
  ASSUME TypeInv, RowInv, NEW g \in Goroutines, MGet(g)
  PROVE  RowInv'
<1> DEFINE chunk == FirstOf(left[g], MaxRedisBatch)
           hits == [k \in Keys |->
             IF k \in KeysAt(g, chunk) /\ redis[k] \in Stamps THEN redis[k] ELSE got[g][k]]
<1>1. got' = got \/ got' = [got EXCEPT ![g] = hits]
  BY DEF MGet, TypeInv, TypeOK
<1>2. \A k \in Keys : hits[k] \in history[k] \cup {Miss}
  BY Values DEF RowInv, RightRow
<1>3. /\ UNCHANGED <<db, history, redis, page, rows>>
      /\ \A h \in Goroutines \ {g} : missing'[h] = missing[h]
  BY DEF MGet, data, TypeInv, TypeOK
<1>4. Round(g, "mget", chunk, "query", missing'[g])
  BY DEF MGet
<1> HIDE DEF chunk, hits
<1>5. RightRow'
  BY <1>1, <1>2, <1>3 DEF RowInv, RightRow, TypeInv, TypeOK
<1>6. \A h \in Goroutines : Asked(h)' \subseteq Asked(h)
  BY <1>3, <1>4, RoundEffect DEF Asked
<1> QED BY <1>3, <1>5, <1>6, RowInvKept DEF RowInv

LEMMA QueryRowInv ==
  ASSUME TypeInv, RowInv, NEW g \in Goroutines, Query(g)
  PROVE  RowInv'
<1> DEFINE chunk == FirstOf(left[g], MaxDBIn)
           answer == [k \in Keys |-> IF k \in KeysAt(g, chunk) THEN db[k] ELSE rows[g][k]]
<1>1. /\ rows' = [rows EXCEPT ![g] = answer]
      /\ UNCHANGED <<db, history, redis, page, missing, got>>
      /\ Round(g, "query", chunk, "store", missing[g])
  BY DEF Query, data, TypeInv, TypeOK
<1>2. \A k \in Keys : answer[k] = IF k \in KeysAt(g, chunk) THEN db[k] ELSE rows[g][k]
  OBVIOUS
<1> HIDE DEF answer
<1>3. rows'[g] = answer /\ \A h \in Goroutines \ {g} : rows'[h] = rows[h]
  BY <1>1 DEF TypeInv, TypeOK
<1>4. \A n \in Asked(g)' : n \in Asked(g) \cup chunk /\ n \in DOMAIN page[g]
  <2> HIDE DEF chunk
  <2>1. \A n \in Asked(g)' : n \in missing[g]
    BY <1>1, RoundEffect DEF Asked
  <2>2. \A n \in Asked(g)' : n \in chunk \/ n \notin left[g]
    BY <1>1, RoundEffect DEF Asked
  <2>3. pc[g] = "query" /\ missing[g] \subseteq DOMAIN page[g]
    BY <1>1 DEF Round, TypeInv, TypeOK
  <2> QED BY <2>1, <2>2, <2>3 DEF Asked
<1>5. \A n \in DOMAIN page[g] : page[g][n] \in Keys
  BY DEF TypeInv, TypeOK
<1>6. \A n \in Asked(g)' : rows'[g][page[g][n]] = Absent => page[g][n] \notin InitRows
  <2> SUFFICES ASSUME NEW n \in Asked(g)', rows'[g][page[g][n]] = Absent
               PROVE  page[g][n] \notin InitRows
    OBVIOUS
  <2>1. CASE page[g][n] \in KeysAt(g, chunk)
    BY <1>2, <1>3, <1>4, <1>5, <2>1 DEF RowInv
  <2>2. CASE page[g][n] \notin KeysAt(g, chunk)
    <3>1. n \notin chunk
      BY <2>2 DEF KeysAt
    <3> QED BY <1>2, <1>3, <1>4, <1>5, <2>2, <3>1 DEF RowInv
  <2> QED BY <2>1, <2>2
<1>7. \A h \in Goroutines \ {g} : Asked(h)' = Asked(h)
  BY <1>1, RoundEffect DEF Asked
<1>8. \A h \in Goroutines : \A k \in Keys : rows'[h][k] \in history[k] \cup {Absent}
  BY <1>2, <1>3 DEF RowInv
<1>9. RightRow'
  BY <1>1 DEF RowInv, RightRow
<1> HIDE DEF chunk
<1> QED BY <1>1, <1>3, <1>6, <1>7, <1>8, <1>9 DEF RowInv

(* The row stored is that of a position whose query has been made.         *)
LEMMA StoreEffect ==
  ASSUME TypeInv, NEW g \in Goroutines, Store(g)
  PROVE  \E n \in left[g] :
           /\ n \in DOMAIN page[g] /\ page[g][n] \in Keys
           /\ got' = IF rows[g][page[g][n]] = Absent THEN got
                     ELSE [got EXCEPT ![g][page[g][n]] = rows[g][page[g][n]]]
           /\ \/ /\ redis' = [redis EXCEPT ![page[g][n]] = rows[g][page[g][n]]]
                 /\ hidden' = [h \in Goroutines |->
                      IF rows[g][page[g][n]] = Absent /\ pc[h] \notin {"idle", "del"}
                      THEN hidden[h] \cup {page[g][n]} ELSE hidden[h]]
              \/ UNCHANGED <<redis, hidden>>
           /\ Round(g, "store", {n}, "done", {})
           /\ UNCHANGED <<data, page, missing, rows, excused>>
<1>1. \A n \in NextToStore(g) : n \in left[g]
  BY FirstOfSubset DEF NextToStore
<1>2. \A n \in left[g] : n \in DOMAIN page[g] /\ page[g][n] \in Keys
  BY DEF TypeInv, TypeOK
<1> QED BY <1>1, <1>2 DEF Store

LEMMA StoreRowInv ==
  ASSUME TypeInv, RowInv, NEW g \in Goroutines, Store(g)
  PROVE  RowInv'
<1>1. PICK n \in left[g] :
        /\ page[g][n] \in Keys
        /\ got' = IF rows[g][page[g][n]] = Absent THEN got
                  ELSE [got EXCEPT ![g][page[g][n]] = rows[g][page[g][n]]]
        /\ \/ redis' = [redis EXCEPT ![page[g][n]] = rows[g][page[g][n]]]
           \/ redis' = redis
        /\ Round(g, "store", {n}, "done", {})
        /\ UNCHANGED <<data, page, missing, rows>>
  BY StoreEffect
<1> DEFINE k == page[g][n]
<1>2. /\ rows[g][k] \in history[k] \cup {Absent}
      /\ rows[g][k] = Absent => k \notin InitRows
  BY <1>1, RoundEffect DEF RowInv, Asked
<1>3. \A h \in Goroutines : Asked(h)' \subseteq Asked(h)
  BY <1>1, RoundEffect DEF Asked
<1>4. UNCHANGED <<db, history, page, rows>>
  BY <1>1 DEF data
<1>5. \A j \in Keys : redis'[j] = redis[j] \/ (j = k /\ redis'[j] = rows[g][k])
  BY <1>1 DEF TypeInv, TypeOK
<1>6. \A h \in Goroutines : \A j \in Keys :
        \/ got'[h][j] = got[h][j]
        \/ j = k /\ got'[h][j] = rows[g][k] /\ rows[g][k] # Absent
  <2>1. CASE rows[g][k] = Absent
    BY <1>1, <2>1
  <2>2. CASE got' = [got EXCEPT ![g][k] = rows[g][k]] /\ rows[g][k] # Absent
    BY <1>1, <2>2 DEF TypeInv, TypeOK
  <2> QED BY <1>1, <2>1, <2>2
<1> HIDE DEF k
<1>7. RightRow'
  BY <1>2, <1>4, <1>5, <1>6 DEF RowInv, RightRow
<1> QED BY <1>3, <1>4, <1>7, RowInvKept DEF RowInv

LEMMA ForgetRowInv ==
  ASSUME TypeInv, RowInv, NEW g \in Goroutines, Forget(g), pc' = [pc EXCEPT ![g] = "idle"],
         UNCHANGED <<data, redis, excused>>
  PROVE  RowInv'
<1>1. /\ \A h \in Goroutines \ {g} :
           /\ pc'[h] = pc[h] /\ page'[h] = page[h] /\ left'[h] = left[h]
           /\ missing'[h] = missing[h] /\ rows'[h] = rows[h] /\ got'[h] = got[h]
      /\ pc'[g] = "idle" /\ rows'[g] = Nothing /\ got'[g] = NoneYet
      /\ UNCHANGED <<db, history, redis>>
  BY DEF Forget, TypeInv, TypeOK, data
<1>2. RightRow'
  BY <1>1 DEF RowInv, RightRow, NoneYet
<1>3. \A h \in Goroutines : \A n \in Asked(h)' :
        n \in Asked(h) /\ page'[h][n] = page[h][n] /\ rows'[h] = rows[h]
  BY <1>1 DEF Asked
<1>4. \A h \in Goroutines : \A k \in Keys : rows'[h][k] \in {rows[h][k], Absent}
  BY <1>1 DEF Nothing
<1> QED BY <1>1, <1>2, <1>3, <1>4, RowInvKept DEF RowInv

LEMMA WriteRows ==
  ASSUME TypeInv, NEW k \in Keys, Write(k)
  PROVE  \A j \in Keys : /\ history[j] \subseteq history'[j]
                         /\ j # k => db'[j] = db[j] /\ history'[j] = history[j]
                         /\ j = k => db'[j] \in history'[j] /\ db'[j] # Absent
<1>1. clock + 1 # Absent
  BY NextStamp, Values DEF Write, TypeInv
<1> QED BY <1>1 DEF Write, TypeInv, TypeOK

LEMMA StepRowInv == TypeInv /\ RowInv /\ [Next]_vars => RowInv'
<1> SUFFICES ASSUME TypeInv, RowInv, [Next]_vars PROVE RowInv'
  OBVIOUS
<1>1. ASSUME NEW g \in Goroutines, QueryFails(g) \/ Return(g) PROVE RowInv'
  BY <1>1, ForgetRowInv DEF QueryFails, Return, Goto
<1>2. ASSUME NEW g \in Goroutines, NEW k \in Keys, Update(g, k) \/ Insert(g, k) PROVE RowInv'
  <2>1. /\ UNCHANGED <<redis, left, missing, rows, got>>
        /\ \A h \in Goroutines \ {g} : pc'[h] = pc[h] /\ page'[h] = page[h]
        /\ pc'[g] \in {"idle", "del"} /\ Write(k)
    BY <1>2 DEF Update, Insert, Goto, call, TypeInv, TypeOK
  <2>2. RightRow'
    BY <2>1, WriteRows DEF RowInv, RightRow
  <2>3. \A h \in Goroutines : \A n \in Asked(h)' :
          n \in Asked(h) /\ page'[h][n] = page[h][n]
    BY <2>1 DEF Asked
  <2>4. \A j \in Keys : /\ history[j] \subseteq history'[j]
                        /\ db'[j] \in history'[j] \cup {Absent}
                        /\ db'[j] = Absent => db[j] = Absent /\ history'[j] = history[j]
    BY <2>1, WriteRows DEF RowInv
  <2> QED BY <2>1, <2>2, <2>3, <2>4, RowInvKept
<1>3. ASSUME NEW g \in Goroutines, Del(g) PROVE RowInv'
  <2>1. /\ UNCHANGED <<db, history, left, missing, rows, got>>
        /\ \A h \in Goroutines \ {g} : pc'[h] = pc[h] /\ page'[h] = page[h]
        /\ pc'[g] = "idle"
        /\ \A k \in Keys : redis'[k] \in {redis[k], Miss}
    BY <1>3 DEF Del, Goto, TypeInv, TypeOK, data
  <2>2. RightRow'
    BY <2>1 DEF RowInv, RightRow
  <2>3. \A h \in Goroutines : \A n \in Asked(h)' :
          n \in Asked(h) /\ page'[h][n] = page[h][n]
    BY <2>1 DEF Asked
  <2> QED BY <2>1, <2>2, <2>3, RowInvKept DEF RowInv
<1>4. ASSUME NEW k \in Keys, RedisExpire(k) PROVE RowInv'
  <2>1. /\ UNCHANGED <<db, history, pc, page, left, missing, rows, got>>
        /\ \A j \in Keys : redis'[j] \in {redis[j], Miss}
    BY <1>4 DEF RedisExpire, TypeInv, TypeOK, data, call
  <2> QED BY <2>1 DEF RowInv, RightRow, Asked
<1>5. CASE UNCHANGED vars
  BY <1>5 DEF vars, RowInv, RightRow, Asked
<1> QED
  BY <1>1, <1>2, <1>3, <1>4, <1>5, StartBatchRowInv, MGetRowInv, QueryRowInv, StoreRowInv
  DEF Next

(* Whatever the sizes of page and batches, every value of a result and of  *)
(* Redis was committed under its own key, and "__null__" stands for no row *)
(* that always existed.                                                    *)
THEOREM RowsAreRight == Spec => []RightRow
<1>1. RowInv => RightRow
  BY DEF RowInv
<1> QED BY InitTypeInv, StepTypeInv, InitRowInv, StepRowInv, <1>1, PTL DEF Spec

-----------------------------------------------------------------------------
(* No row lost *)

LostInv == HiddenInv /\ TrackInv

LEMMA InitLostInv == Init => LostInv
BY DEF Init, LostInv, HiddenInv, TrackInv, InCall

LEMMA StartBatchLostInv ==
  ASSUME TypeInv, LostInv, NEW g \in Goroutines, NEW p \in Pages, StartBatch(g, p)
  PROVE  LostInv'
<1>1. /\ \A h \in Goroutines \ {g} :
           /\ pc'[h] = pc[h] /\ page'[h] = page[h] /\ left'[h] = left[h]
           /\ missing'[h] = missing[h] /\ rows'[h] = rows[h] /\ got'[h] = got[h]
           /\ hidden'[h] = hidden[h]
      /\ pc'[g] = "mget" /\ left'[g] = DOMAIN p /\ page'[g] = p
      /\ hidden'[g] = {k \in Keys : db[k] = Absent \/ redis[k] = Absent}
      /\ UNCHANGED <<db, redis>>
  BY DEF StartBatch, Goto, TypeInv, TypeOK, data
<1>2. HiddenInv'
  BY <1>1 DEF LostInv, HiddenInv
<1>3. \A h \in Goroutines \ {g} : \A n : Tracked(h, n)' <=> Tracked(h, n)
  BY <1>1 DEF Tracked
<1>4. \A n \in DOMAIN page'[g] : Tracked(g, n)'
  BY <1>1 DEF Tracked
<1>5. TrackInv'
  BY <1>1, <1>3, <1>4 DEF LostInv, TrackInv
<1> QED BY <1>2, <1>5 DEF LostInv

LEMMA MGetLostInv ==
  ASSUME TypeInv, LostInv, NEW g \in Goroutines, MGet(g)
  PROVE  LostInv'
<1> DEFINE chunk == FirstOf(left[g], MaxRedisBatch)
           hits == [k \in Keys |->
             IF k \in KeysAt(g, chunk) /\ redis[k] \in Stamps THEN redis[k] ELSE got[g][k]]
<1>1. \/ /\ got' = [got EXCEPT ![g] = hits]
         /\ missing' = [missing EXCEPT ![g] =
              missing[g] \cup {n \in chunk : redis[page[g][n]] = Miss}]
      \/ /\ missing' = [missing EXCEPT ![g] = missing[g] \cup chunk]
         /\ got' = got
  BY DEF MGet, TypeInv, TypeOK
<1>2. /\ UNCHANGED <<db, redis, page, rows, hidden>>
      /\ Round(g, "mget", chunk, "query", missing'[g])
  BY DEF MGet, data
<1>3. \A n \in DOMAIN page[g] : page[g][n] \in Keys
  BY DEF TypeInv, TypeOK
<1>4. \A k \in Keys : got[g][k] # Miss => hits[k] # Miss
  BY Values
<1>5. \A n \in chunk : n \in DOMAIN page[g] =>
        \/ hits[page[g][n]] # Miss
        \/ redis[page[g][n]] = Miss
        \/ redis[page[g][n]] = Absent
  <2> SUFFICES ASSUME NEW n \in chunk, n \in DOMAIN page[g], redis[page[g][n]] \in Stamps
               PROVE  hits[page[g][n]] # Miss
    BY <1>3, Values DEF TypeInv, TypeOK
  <2> QED BY <1>3, Values DEF KeysAt
<1> HIDE DEF chunk, hits
<1>6. /\ \A h \in Goroutines \ {g} : missing'[h] = missing[h] /\ got'[h] = got[h]
      /\ missing[g] \subseteq missing'[g]
      /\ got'[g] = hits \/ got'[g] = got[g]
      /\ \A n \in chunk : \/ n \in missing'[g]
                          \/ got'[g] = hits /\ redis[page[g][n]] # Miss
  BY <1>1 DEF TypeInv, TypeOK
<1>7. HiddenInv'
  BY <1>2, RoundEffect DEF LostInv, HiddenInv, InCall
<1>8. \A h \in Goroutines \ {g} : /\ \A n : Tracked(h, n)' <=> Tracked(h, n)
                                  /\ pc'[h] = pc[h]
  BY <1>2, <1>6, RoundEffect DEF Tracked
<1>9. \A n \in DOMAIN page[g] : Tracked(g, n)'
  <2> SUFFICES ASSUME NEW n \in DOMAIN page[g],
                      got'[g][page[g][n]] = Miss, page[g][n] \notin hidden[g]
               PROVE  Tracked(g, n)'
    BY <1>2 DEF Tracked
  <2>1. pc[g] = "mget"
    BY <1>2 DEF Round
  <2>2. n \in left[g] \cup missing[g]
    BY <1>3, <1>4, <1>6, <2>1 DEF LostInv, TrackInv, Tracked, InCall
  <2>3. n \in chunk => n \in missing'[g]
    <3>1. redis[page[g][n]] # Absent
      BY <1>3, <2>1 DEF LostInv, HiddenInv, InCall
    <3> QED BY <1>5, <1>6, <3>1
  <2>4. n \in left[g] \ chunk \/ n \in missing'[g]
    BY <1>6, <2>2, <2>3
  <2> QED BY <1>2, <2>1, <2>4, RoundEffect DEF Tracked
<1>10. TrackInv'
  BY <1>2, <1>8, <1>9 DEF LostInv, TrackInv
<1> QED BY <1>7, <1>10 DEF LostInv

LEMMA QueryLostInv ==
  ASSUME TypeInv, LostInv, NEW g \in Goroutines, Query(g)
  PROVE  LostInv'
<1> DEFINE chunk == FirstOf(left[g], MaxDBIn)
           answer == [k \in Keys |-> IF k \in KeysAt(g, chunk) THEN db[k] ELSE rows[g][k]]
<1>1. /\ rows' = [rows EXCEPT ![g] = answer]
      /\ UNCHANGED <<db, redis, page, missing, got, hidden>>
      /\ Round(g, "query", chunk, "store", missing[g])
  BY DEF Query, data, TypeInv, TypeOK
<1>2. \A k \in Keys : answer[k] = IF k \in KeysAt(g, chunk) THEN db[k] ELSE rows[g][k]
  OBVIOUS
<1>3. \A n \in DOMAIN page[g] : page[g][n] \in Keys
  BY DEF TypeInv, TypeOK
<1>4. \A n \in chunk : page[g][n] \in KeysAt(g, chunk)
  BY DEF KeysAt
<1> HIDE DEF answer, chunk
<1>5. rows'[g] = answer /\ \A h \in Goroutines \ {g} : rows'[h] = rows[h]
  BY <1>1 DEF TypeInv, TypeOK
<1>6. HiddenInv'
  BY <1>1, RoundEffect DEF LostInv, HiddenInv, InCall
<1>7. \A h \in Goroutines \ {g} : /\ \A n : Tracked(h, n)' <=> Tracked(h, n)
                                  /\ pc'[h] = pc[h]
  BY <1>1, <1>5, RoundEffect DEF Tracked
<1>8. \A n \in DOMAIN page[g] : Tracked(g, n)'
  <2> SUFFICES ASSUME NEW n \in DOMAIN page[g],
                      got[g][page[g][n]] = Miss, page[g][n] \notin hidden[g]
               PROVE  Tracked(g, n)'
    BY <1>1 DEF Tracked
  <2>1. pc[g] = "query"
    BY <1>1 DEF Round
  <2>2. n \in missing[g] /\ (n \in left[g] \/ rows[g][page[g][n]] # Absent)
    BY <2>1 DEF LostInv, TrackInv, Tracked, InCall
  <2>3. db[page[g][n]] # Absent
    BY <1>3, <2>1 DEF LostInv, HiddenInv, InCall
  <2>4. n \in left[g] \ chunk \/ rows'[g][page[g][n]] # Absent
    BY <1>2, <1>3, <1>4, <1>5, <2>2, <2>3
  <2> QED BY <1>1, <2>1, <2>2, <2>4, RoundEffect DEF Tracked
<1>9. TrackInv'
  BY <1>1, <1>7, <1>8 DEF LostInv, TrackInv
<1> QED BY <1>6, <1>9 DEF LostInv

LEMMA StoreLostInv ==
  ASSUME TypeInv, LostInv, NEW g \in Goroutines, Store(g)
  PROVE  LostInv'
<1>1. PICK n \in left[g] :
        /\ n \in DOMAIN page[g] /\ page[g][n] \in Keys
        /\ got' = IF rows[g][page[g][n]] = Absent THEN got
                  ELSE [got EXCEPT ![g][page[g][n]] = rows[g][page[g][n]]]
        /\ \/ /\ redis' = [redis EXCEPT ![page[g][n]] = rows[g][page[g][n]]]
              /\ hidden' = [h \in Goroutines |->
                   IF rows[g][page[g][n]] = Absent /\ pc[h] \notin {"idle", "del"}
                   THEN hidden[h] \cup {page[g][n]} ELSE hidden[h]]
           \/ UNCHANGED <<redis, hidden>>
        /\ Round(g, "store", {n}, "done", {})
        /\ UNCHANGED <<data, page, missing, rows, excused>>
  BY StoreEffect
<1> DEFINE k == page[g][n]
<1>2. UNCHANGED <<db, page, missing, rows>>
  BY <1>1 DEF data
<1>3. k \in Keys /\ rows[g][k] \in Rows
  BY <1>1 DEF TypeInv, TypeOK
<1>4. \/ \A j \in Keys : redis'[j] = IF j = k THEN rows[g][k] ELSE redis[j]
      \/ redis' = redis
  BY <1>1 DEF TypeInv, TypeOK
<1>5. \A h \in Goroutines :
        /\ hidden[h] \subseteq hidden'[h]
        /\ pc[h] \in InCall /\ redis' # redis /\ rows[g][k] = Absent => k \in hidden'[h]
  BY <1>1 DEF InCall
<1>6. /\ \A h \in Goroutines \ {g} : got'[h] = got[h]
      /\ \A j \in Keys : got[g][j] # Miss => got'[g][j] # Miss
      /\ rows[g][k] # Absent => got'[g][k] # Miss
  <2>1. CASE got' = got /\ rows[g][k] = Absent
    BY <2>1
  <2>2. CASE got' = [got EXCEPT ![g][k] = rows[g][k]] /\ rows[g][k] # Absent
    BY <1>3, <2>2, Values DEF TypeInv, TypeOK
  <2> QED BY <1>1, <2>1, <2>2
<1>7. /\ pc[g] = "store" /\ pc'[g] \in {"store", "done"}
      /\ pc'[g] = "store" => left'[g] = left[g] \ {n}
      /\ pc'[g] = "done" => left[g] = {n}
      /\ \A h \in Goroutines \ {g} : pc'[h] = pc[h] /\ left'[h] = left[h]
  BY <1>1, RoundEffect
<1> HIDE DEF k
<1>8. \A h \in Goroutines : pc'[h] \in InCall => pc[h] \in InCall
  BY <1>7 DEF InCall
<1>9. HiddenInv'
  <2> SUFFICES ASSUME NEW h \in Goroutines, pc'[h] \in InCall, NEW j \in Keys,
                      j \notin hidden'[h]
               PROVE  db'[j] # Absent /\ redis'[j] # Absent
    BY DEF HiddenInv
  <2>1. db[j] # Absent /\ redis[j] # Absent
    BY <1>5, <1>8 DEF LostInv, HiddenInv
  <2> QED BY <1>2, <1>4, <1>5, <1>8, <2>1
<1>10. \A h \in Goroutines : \A m \in DOMAIN page[h] : Tracked(h, m) => Tracked(h, m)'
  <2>1. ASSUME NEW h \in Goroutines \ {g}, NEW m, Tracked(h, m) PROVE Tracked(h, m)'
    BY <1>2, <1>5, <1>6, <1>7, <2>1 DEF Tracked
  <2>2. ASSUME NEW m \in DOMAIN page[g], Tracked(g, m) PROVE Tracked(g, m)'
    <3>1. page[g][m] \in Keys
      BY DEF TypeInv, TypeOK
    <3>2. CASE got[g][page[g][m]] # Miss \/ page[g][m] \in hidden[g]
      BY <1>2, <1>5, <1>6, <3>1, <3>2 DEF Tracked
    <3>3. CASE m \in left[g] /\ rows[g][page[g][m]] # Absent
      BY <1>2, <1>6, <1>7, <3>3 DEF Tracked, k
    <3> QED BY <1>7, <2>2, <3>2, <3>3 DEF Tracked
  <2> QED BY <2>1, <2>2
<1>11. TrackInv'
  BY <1>2, <1>8, <1>10 DEF LostInv, TrackInv
<1> QED BY <1>9, <1>11 DEF LostInv

(* A step that treats no position and ends no call but those it forgets.   *)
LEMMA LostInvKept ==
  ASSUME LostInv,
         \A k \in Keys : /\ db[k] # Absent => db'[k] # Absent
                         /\ redis[k] # Absent => redis'[k] # Absent,
         \A g \in Goroutines : pc'[g] \in InCall =>
           /\ pc'[g] = pc[g] /\ page'[g] = page[g] /\ left'[g] = left[g]
           /\ missing'[g] = missing[g] /\ rows'[g] = rows[g] /\ got'[g] = got[g]
           /\ hidden'[g] = hidden[g]
  PROVE  LostInv'
<1>1. HiddenInv'
  BY DEF LostInv, HiddenInv
<1>2. \A g \in Goroutines : pc'[g] \in InCall => \A n : Tracked(g, n) => Tracked(g, n)'
  BY DEF Tracked
<1>3. TrackInv'
  BY <1>2 DEF LostInv, TrackInv
<1> QED BY <1>1, <1>3 DEF LostInv

LEMMA StepLostInv == TypeInv /\ LostInv /\ [Next]_vars => LostInv'
<1> SUFFICES ASSUME TypeInv, LostInv, [Next]_vars PROVE LostInv'
  OBVIOUS
<1>1. ASSUME NEW g \in Goroutines, QueryFails(g) \/ Return(g) PROVE LostInv'
  <2>1. /\ \A h \in Goroutines \ {g} :
             /\ pc'[h] = pc[h] /\ page'[h] = page[h] /\ left'[h] = left[h]
             /\ missing'[h] = missing[h] /\ rows'[h] = rows[h] /\ got'[h] = got[h]
             /\ hidden'[h] = hidden[h]
        /\ pc'[g] = "idle"
        /\ UNCHANGED <<db, redis>>
    BY <1>1 DEF QueryFails, Return, Forget, Goto, TypeInv, TypeOK, data
  <2> QED BY <2>1, LostInvKept DEF InCall
<1>2. ASSUME NEW g \in Goroutines, NEW k \in Keys, Update(g, k) \/ Insert(g, k) PROVE LostInv'
  <2>1. /\ UNCHANGED <<redis, left, missing, rows, got, hidden>>
        /\ \A h \in Goroutines \ {g} : pc'[h] = pc[h] /\ page'[h] = page[h]
        /\ pc'[g] \in {"idle", "del"} /\ Write(k)
    BY <1>2 DEF Update, Insert, Goto, call, TypeInv, TypeOK
  <2>2. \A j \in Keys : db[j] # Absent => db'[j] # Absent
    BY <2>1, WriteRows
  <2> QED BY <2>1, <2>2, LostInvKept DEF InCall
<1>3. ASSUME NEW g \in Goroutines, Del(g) PROVE LostInv'
  <2>1. /\ UNCHANGED <<db, left, missing, rows, got, hidden>>
        /\ \A h \in Goroutines \ {g} : pc'[h] = pc[h] /\ page'[h] = page[h]
        /\ pc'[g] = "idle"
        /\ \A k \in Keys : redis'[k] \in {redis[k], Miss}
    BY <1>3 DEF Del, Goto, TypeInv, TypeOK, data
  <2>2. \A k \in Keys : redis[k] # Absent => redis'[k] # Absent
    BY <2>1 DEF Absent, Miss
  <2> QED BY <2>1, <2>2, LostInvKept DEF InCall
<1>4. ASSUME NEW k \in Keys, RedisExpire(k) PROVE LostInv'
  <2>1. /\ UNCHANGED <<db, pc, page, left, missing, rows, got, hidden>>
        /\ \A j \in Keys : redis'[j] \in {redis[j], Miss}
    BY <1>4 DEF RedisExpire, TypeInv, TypeOK, data, call
  <2>2. \A j \in Keys : redis[j] # Absent => redis'[j] # Absent
    BY <2>1 DEF Absent, Miss
  <2> QED BY <2>1, <2>2, LostInvKept
<1>5. CASE UNCHANGED vars
  <2>1. UNCHANGED <<db, redis, pc, page, left, missing, rows, got, hidden>>
    BY <1>5 DEF vars
  <2> QED BY <2>1, LostInvKept
<1> QED
  BY <1>1, <1>2, <1>3, <1>4, <1>5, StartBatchLostInv, MGetLostInv, QueryLostInv, StoreLostInv
  DEF Next

(* No row of a page is lost between the batches, whichever of them fail:   *)
(* it is in the result unless it was absent or denied during the call.     *)
THEOREM NoRowIsLost == Spec => []NoRowLost
<1>1. LostInv => NoRowLost
  BY DEF LostInv, TrackInv, Tracked, InCall, NoRowLost
<1> QED BY InitTypeInv, StepTypeInv, InitLostInv, StepLostInv, <1>1, PTL DEF Spec

-----------------------------------------------------------------------------
(* Outdated rows *)

LEMMA InitExplainInv == Init => ExplainInv
BY Values DEF Init, ExplainInv, SomeStaleFill, StaleFill, NoneYet, Nothing

(* A step that writes no row, stores none and deletes none.                *)
LEMMA ExplainInvKept ==
  ASSUME ExplainInv,
         UNCHANGED <<db, redis, excused>>,
         \A g \in Goroutines : \A k \in Keys :
            /\ StaleFill(g, k)' => StaleFill(g, k)
            /\ PendingDel(g, k) => PendingDel(g, k)'
  PROVE  ExplainInv'
<1>1. \A k \in Keys : SomeStaleFill(k)' => SomeStaleFill(k)
  BY DEF SomeStaleFill
<1>2. \A k \in Keys : Explained(k) => Explained(k)'
  BY DEF Explained
<1> QED BY <1>1, <1>2 DEF ExplainInv

LEMMA StartBatchExplainInv ==
  ASSUME TypeInv, ExplainInv, NEW g \in Goroutines, NEW p \in Pages, StartBatch(g, p)
  PROVE  ExplainInv'
<1>1. /\ \A h \in Goroutines \ {g} :
           pc'[h] = pc[h] /\ page'[h] = page[h] /\ left'[h] = left[h] /\ rows'[h] = rows[h]
      /\ pc[g] = "idle" /\ pc'[g] = "mget"
      /\ UNCHANGED <<db, redis, excused>>
  BY DEF StartBatch, Goto, TypeInv, TypeOK, data
<1>2. \A h \in Goroutines : \A k \in Keys :
        /\ StaleFill(h, k)' => StaleFill(h, k)
        /\ PendingDel(h, k) => PendingDel(h, k)'
  BY <1>1 DEF StaleFill, PendingDel, KeysAt
<1> QED BY <1>1, <1>2, ExplainInvKept

LEMMA MGetExplainInv ==
  ASSUME TypeInv, ExplainInv, NEW g \in Goroutines, MGet(g)
  PROVE  ExplainInv'
<1> DEFINE chunk == FirstOf(left[g], MaxRedisBatch)
<1>1. /\ UNCHANGED <<db, redis, excused, page, rows>>
      /\ Round(g, "mget", chunk, "query", missing'[g])
  BY DEF MGet, data
<1> HIDE DEF chunk
<1>2. /\ pc[g] = "mget" /\ rows[g] = Nothing /\ pc'[g] # "del"
      /\ \A h \in Goroutines \ {g} : pc'[h] = pc[h] /\ left'[h] = left[h]
  BY <1>1, RoundEffect DEF TypeInv, Control
<1>3. \A h \in Goroutines : \A k \in Keys :
        /\ StaleFill(h, k)' => StaleFill(h, k)
        /\ PendingDel(h, k) => PendingDel(h, k)'
  BY <1>1, <1>2, Values DEF StaleFill, PendingDel, KeysAt, Nothing
<1> QED BY <1>1, <1>3, ExplainInvKept

LEMMA QueryExplainInv ==
  ASSUME TypeInv, ExplainInv, NEW g \in Goroutines, Query(g)
  PROVE  ExplainInv'
<1> DEFINE chunk == FirstOf(left[g], MaxDBIn)
           answer == [k \in Keys |-> IF k \in KeysAt(g, chunk) THEN db[k] ELSE rows[g][k]]
<1>1. /\ rows' = [rows EXCEPT ![g] = answer]
      /\ UNCHANGED <<db, redis, excused, page>>
      /\ Round(g, "query", chunk, "store", missing[g])
  BY DEF Query, data, TypeInv, TypeOK
<1>2. \A k \in Keys : answer[k] \in {db[k], rows[g][k]}
  OBVIOUS
<1> HIDE DEF chunk, answer
<1>3. /\ rows'[g] = answer /\ pc[g] = "query"
      /\ \A h \in Goroutines \ {g} :
           rows'[h] = rows[h] /\ pc'[h] = pc[h] /\ left'[h] = left[h]
  BY <1>1, RoundEffect DEF TypeInv, TypeOK
<1>4. \A h \in Goroutines : \A k \in Keys :
        /\ StaleFill(h, k)' => StaleFill(h, k)
        /\ PendingDel(h, k) => PendingDel(h, k)'
  BY <1>1, <1>2, <1>3 DEF StaleFill, PendingDel, KeysAt
<1> QED BY <1>1, <1>4, ExplainInvKept

LEMMA StoreExplainInv ==
  ASSUME TypeInv, ExplainInv, NEW g \in Goroutines, Store(g)
  PROVE  ExplainInv'
<1>1. PICK n \in left[g] :
        /\ page[g][n] \in Keys
        /\ \/ redis' = [redis EXCEPT ![page[g][n]] = rows[g][page[g][n]]]
           \/ redis' = redis
        /\ Round(g, "store", {n}, "done", {})
        /\ UNCHANGED <<data, page, missing, rows, excused>>
  BY StoreEffect
<1> DEFINE k == page[g][n]
<1>2. UNCHANGED <<db, page, rows, excused>>
  BY <1>1 DEF data
<1>3. \A j \in Keys : redis'[j] = redis[j] \/ (j = k /\ redis'[j] = rows[g][k])
  BY <1>1 DEF TypeInv, TypeOK
<1>4. /\ pc[g] = "store" /\ pc'[g] \in {"store", "done"}
      /\ pc'[g] = "store" => left'[g] \subseteq left[g]
      /\ \A h \in Goroutines \ {g} : pc'[h] = pc[h] /\ left'[h] = left[h]
  BY <1>1, RoundEffect
<1>5. k \in KeysAt(g, left[g])
  BY DEF KeysAt
<1> HIDE DEF k
<1>6. \A j \in Keys : SomeStaleFill(j)' => SomeStaleFill(j)
  BY <1>2, <1>4 DEF SomeStaleFill, StaleFill, KeysAt
<1>7. \A j \in Keys : Explained(j) => Explained(j)'
  BY <1>2, <1>4 DEF Explained, PendingDel
<1>8. \A j \in Keys : redis'[j] \in Stamps /\ redis'[j] # db[j] =>
        redis[j] = redis'[j] \/ SomeStaleFill(j)
  BY <1>3, <1>4, <1>5 DEF SomeStaleFill, StaleFill
<1> QED BY <1>2, <1>6, <1>7, <1>8 DEF ExplainInv

LEMMA UpdateExplainInv ==
  ASSUME TypeInv, ExplainInv, NEW g \in Goroutines, NEW k \in Keys, Update(g, k)
  PROVE  ExplainInv'
<1>1. /\ UNCHANGED <<redis, left, rows, excused>>
      /\ \A h \in Goroutines \ {g} : pc'[h] = pc[h] /\ page'[h] = page[h]
      /\ pc[g] = "idle" /\ pc'[g] = "del" /\ page'[g] = <<k>> /\ Write(k)
  BY DEF Update, Goto, TypeInv, TypeOK
<1>2. Explained(k)'
  BY <1>1 DEF Explained, PendingDel
<1>3. \A j \in Keys \ {k} : /\ Explained(j) => Explained(j)'
                            /\ SomeStaleFill(j)' => SomeStaleFill(j)
                            /\ db'[j] = db[j]
  BY <1>1, WriteRows DEF Explained, PendingDel, SomeStaleFill, StaleFill, KeysAt
<1> QED BY <1>1, <1>2, <1>3 DEF ExplainInv

(* Nobody has found or stored a row that is only now inserted.             *)
LEMMA InsertExplainInv ==
  ASSUME TypeInv, RowInv, ExplainInv, NEW g \in Goroutines, NEW k \in Keys, Insert(g, k)
  PROVE  ExplainInv'
<1>1. /\ UNCHANGED <<redis, pc, page, left, rows, excused>>
      /\ db[k] = Absent /\ Write(k)
  BY DEF Insert, call
<1>2. /\ redis[k] \notin Stamps
      /\ \A h \in Goroutines : rows[h][k] \notin Stamps
  BY <1>1, Values DEF RowInv, RightRow
<1>3. \A j \in Keys \ {k} : /\ Explained(j) => Explained(j)'
                            /\ SomeStaleFill(j)' => SomeStaleFill(j)
                            /\ db'[j] = db[j]
  BY <1>1, WriteRows DEF Explained, PendingDel, SomeStaleFill, StaleFill, KeysAt
<1>4. ~SomeStaleFill(k)'
  BY <1>1, <1>2 DEF SomeStaleFill, StaleFill
<1> QED BY <1>1, <1>2, <1>3, <1>4 DEF ExplainInv

LEMMA DelExplainInv ==
  ASSUME TypeInv, ExplainInv, NEW g \in Goroutines, Del(g)
  PROVE  ExplainInv'
<1>1. PICK k \in Keys : page[g] = <<k>>
  BY DEF Del, Goto, TypeInv, Control
<1>2. page[g][1] = k /\ \A j \in Keys : page[g] = <<j>> => j = k
  BY <1>1
<1>3. /\ UNCHANGED <<db, left, rows>>
      /\ \A h \in Goroutines \ {g} : pc'[h] = pc[h] /\ page'[h] = page[h]
      /\ pc[g] = "del" /\ pc'[g] = "idle"
  BY DEF Del, Goto, TypeInv, TypeOK, data
<1>4. \A j \in Keys : SomeStaleFill(j)' => SomeStaleFill(j)
  BY <1>3 DEF SomeStaleFill, StaleFill, KeysAt
<1>5. \/ /\ redis' = [redis EXCEPT ![k] = Miss]
         /\ excused' = IF SomeStaleFill(k) THEN excused \cup {k} ELSE excused \ {k}
      \/ excused' = excused \cup {k} /\ redis' = redis
  BY <1>2 DEF Del
<1>6. \A j \in Keys \ {k} : /\ Explained(j) => Explained(j)'
                            /\ redis'[j] = redis[j]
  BY <1>2, <1>3, <1>5 DEF Explained, PendingDel, TypeInv, TypeOK
<1>7. /\ redis'[k] \in Stamps /\ redis'[k] # db'[k] => k \in excused'
      /\ SomeStaleFill(k)' => k \in excused'
  BY <1>4, <1>5, Values DEF TypeInv, TypeOK
<1> QED BY <1>3, <1>4, <1>6, <1>7 DEF ExplainInv, Explained

LEMMA RedisExpireExplainInv ==
  ASSUME TypeInv, ExplainInv, NEW k \in Keys, RedisExpire(k)
  PROVE  ExplainInv'
<1>1. /\ UNCHANGED <<db, pc, page, left, rows>>
      /\ redis' = [redis EXCEPT ![k] = Miss]
      /\ excused' = IF SomeStaleFill(k) THEN excused ELSE excused \ {k}
  BY DEF RedisExpire, data, call
<1>2. \A j \in Keys : /\ SomeStaleFill(j)' = SomeStaleFill(j)
                      /\ \A g \in Goroutines : PendingDel(g, j)' = PendingDel(g, j)
  BY <1>1 DEF SomeStaleFill, StaleFill, KeysAt, PendingDel
<1>3. \A j \in Keys \ {k} : redis'[j] = redis[j] /\ (j \in excused => j \in excused')
  BY <1>1 DEF TypeInv, TypeOK
<1>4. redis'[k] \notin Stamps /\ (SomeStaleFill(k) /\ k \in excused => k \in excused')
  BY <1>1, Values DEF TypeInv, TypeOK
<1> QED BY <1>1, <1>2, <1>3, <1>4 DEF ExplainInv, Explained

LEMMA StepExplainInv == TypeInv /\ RowInv /\ ExplainInv /\ [Next]_vars => ExplainInv'
<1> SUFFICES ASSUME TypeInv, RowInv, ExplainInv, [Next]_vars PROVE ExplainInv'
  OBVIOUS
<1>1. ASSUME NEW g \in Goroutines, QueryFails(g) \/ Return(g) PROVE ExplainInv'
  <2>1. /\ \A h \in Goroutines \ {g} :
             pc'[h] = pc[h] /\ page'[h] = page[h] /\ left'[h] = left[h] /\ rows'[h] = rows[h]
        /\ pc[g] \in {"query", "done"} /\ pc'[g] = "idle"
        /\ UNCHANGED <<db, redis, excused>>
    BY <1>1 DEF QueryFails, Return, Forget, Goto, TypeInv, TypeOK, data
  <2>2. \A h \in Goroutines : \A k \in Keys :
          /\ StaleFill(h, k)' => StaleFill(h, k)
          /\ PendingDel(h, k) => PendingDel(h, k)'
    BY <2>1 DEF StaleFill, PendingDel, KeysAt
  <2> QED BY <2>1, <2>2, ExplainInvKept
<1>2. CASE UNCHANGED vars
  <2>1. UNCHANGED <<db, redis, pc, page, left, rows, excused>>
    BY <1>2 DEF vars
  <2> QED BY <2>1, ExplainInvKept DEF StaleFill, PendingDel, KeysAt
<1> QED
  BY <1>1, <1>2, StartBatchExplainInv, MGetExplainInv, QueryExplainInv, StoreExplainInv,
     UpdateExplainInv, InsertExplainInv, DelExplainInv, RedisExpireExplainInv
  DEF Next

(* An outdated row in Redis is always one whose deletion is still to come, *)
(* failed, or was overtaken by a load that had queried before the write.   *)
THEOREM StaleRowsExplained == Spec => []StaleRowExplained
<1>1. ExplainInv => StaleRowExplained
  BY DEF ExplainInv, Explained, StaleRowExplained
<1> QED
  BY InitTypeInv, StepTypeInv, InitRowInv, StepRowInv, InitExplainInv, StepExplainInv,
     <1>1, PTL DEF Spec

=============================================================================
