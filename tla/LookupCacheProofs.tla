-------------------------- MODULE LookupCacheProofs --------------------------
(***************************************************************************)
(* Theorems about LookupCache for any goroutines, rows and lookup keys,    *)
(* any number of writes and any faults.                                    *)
(***************************************************************************)
EXTENDS LookupCache, TLAPS

InLookup == {"get", "query", "set", "done"}

TypeInv ==
    /\ TypeOK
    /\ \A g \in Goroutines : pc[g] \in InLookup => key[g] \in Keys

USE LookupCacheAssumption

LEMMA AnswersType ==
  ASSUME NEW t, NEW k PROVE Answers(t, k) \subseteq Rows \cup {None}
BY DEF Answers, Matching

(* What Answers depends on.                                                *)
LEMMA SameAnswers ==
  ASSUME NEW t, NEW k, ~Changed(t, k) PROVE Answers(t, k) = Answers(table, k)
BY DEF Changed, Answers

LEMMA ViewType ==
  ASSUME TypeOK, NEW g \in Goroutines PROVE View(g) \in Tables
BY DEF TypeOK, View, Tables

LEMMA InitTypeInv == Init => TypeInv
<1> SUFFICES ASSUME Init PROVE TypeInv
  OBVIOUS
<1>1. truths \in [Keys -> SUBSET (Rows \cup {None, Failed})]
  BY AnswersType DEF Init
<1>2. pc \in [Goroutines -> PCs]
  BY DEF Init, PCs
<1>3. writes \in 0 .. MaxWrites
  BY DEF Init
<1> QED BY <1>1, <1>2, <1>3 DEF Init, TypeInv, TypeOK, InLookup

-----------------------------------------------------------------------------
(* Types *)

LEMMA PublishType ==
  ASSUME TypeOK, NEW t \in Tables, NEW D, Publish(t, D)
  PROVE  /\ table' \in Tables
         /\ truths' \in [Keys -> SUBSET (Rows \cup {None, Failed})]
         /\ overtaken' \in [Goroutines -> BOOLEAN]
         /\ excused' \subseteq Keys
<1>1. table' \in Tables
  BY DEF Publish
<1>2. truths' \in [Keys -> SUBSET (Rows \cup {None, Failed})]
  BY AnswersType DEF Publish, TypeOK
<1>3. overtaken' \in [Goroutines -> BOOLEAN]
  BY Zenon DEF Publish, TypeOK, Changed
<1>4. excused' \subseteq Keys
  BY DEF Publish, TypeOK
<1> QED BY <1>1, <1>2, <1>3, <1>4

LEMMA TakeType ==
  ASSUME TypeInv, NEW g \in Goroutines, NEW from, NEW to \in {"query", "set", "done"},
         NEW a \in Rows \cup {None, Miss, Failed}, Take(g, from, to, a),
         pc[g] \in InLookup
  PROVE  TypeInv'
BY DEF Take, Goto, TypeInv, TypeOK, txs, PCs, InLookup

LEMMA QueryType ==
  ASSUME TypeInv, NEW g \in Goroutines, NEW ks, NEW store \in {"set", "done"},
         Query(g, ks, store)
  PROVE  TypeInv'
<1>1. PICK a \in Rows \cup {None, Miss, Failed} : Take(g, "query", store, a)
  BY AnswersType DEF Query
<1>2. pc[g] \in InLookup
  BY <1>1 DEF Take, Goto, InLookup
<1> QED BY <1>1, <1>2, TakeType

LEMMA PutType ==
  ASSUME TypeInv, NEW g \in Goroutines, NEW m \in Rows \cup {None}, Put(g, m)
  PROVE  TypeInv'
<1>1. pc[g] = "set" /\ key[g] \in Keys
  BY DEF Put, Goto, TypeInv, InLookup
<1>2. /\ maps' \in [Keys -> Rows \cup {None, Miss}]
      /\ excused' \subseteq Keys /\ nulls' \subseteq Keys
  <2>1. maps' = [maps EXCEPT ![key[g]] = m] \/ UNCHANGED maps
    BY DEF Put
  <2>2. maps' \in [Keys -> Rows \cup {None, Miss}]
    BY <1>1, <2>1 DEF TypeInv, TypeOK
  <2>3. \/ excused' = excused \cup {key[g]} \/ excused' = excused \ {key[g]}
        \/ excused' = excused
    BY DEF Put
  <2>4. excused' \subseteq Keys
    BY <1>1, <2>3 DEF TypeInv, TypeOK
  <2>5. nulls' = nulls \cup {key[g]} \/ nulls' = nulls \ {key[g]} \/ nulls' = nulls
    BY DEF Put
  <2>6. nulls' \subseteq Keys
    BY <1>1, <2>5 DEF TypeInv, TypeOK
  <2> QED BY <2>2, <2>4, <2>6
<1>3. truths' \in [Keys -> SUBSET (Rows \cup {None, Failed})]
  <2>1. truths' = [truths EXCEPT ![key[g]] = @ \cup {Failed}] \/ UNCHANGED truths
    BY DEF Put
  <2> QED BY <1>1, <2>1 DEF TypeInv, TypeOK
<1> QED BY <1>1, <1>2, <1>3 DEF Put, Goto, TypeInv, TypeOK, call, txs, PCs, InLookup

LEMMA ExecType ==
  ASSUME TypeInv, NEW g \in Goroutines, NEW p \in Rows, NEW c \in Contents,
         NEW D \in SUBSET Conditions, Exec(g, p, c, D)
  PROVE  TypeInv'
<1>1. writes' \in 0 .. MaxWrites
  BY DEF Exec, TypeInv, TypeOK
<1>2. dels' \in [Goroutines -> SUBSET Conditions]
  BY DEF Exec, TypeInv, TypeOK
<1>3. /\ pc' \in [Goroutines -> PCs]
      /\ \A h \in Goroutines : pc'[h] \in InLookup => pc[h] \in InLookup
  <2>1. \E to \in {"idle", "del"} : Goto(g, "idle", to)
    BY DEF Exec
  <2> QED BY <2>1 DEF Goto, TypeInv, TypeOK, PCs, InLookup
<1>4. /\ table' \in Tables /\ own' \in [Goroutines -> [Rows -> Contents \cup {Miss}]]
      /\ truths' \in [Keys -> SUBSET (Rows \cup {None, Failed})]
      /\ overtaken' \in [Goroutines -> BOOLEAN] /\ excused' \subseteq Keys
  <2>1. CASE own' = [own EXCEPT ![g][p] = c] /\ UNCHANGED <<table, truths, overtaken, excused>>
    BY <2>1 DEF TypeInv, TypeOK
  <2>2. CASE Publish([table EXCEPT ![p] = c], D) /\ UNCHANGED own
    <3>1. [table EXCEPT ![p] = c] \in Tables
      BY DEF TypeInv, TypeOK, Tables
    <3> QED BY <2>2, <3>1, PublishType DEF TypeInv, TypeOK
  <2> QED BY <2>1, <2>2 DEF Exec
<1> QED BY <1>1, <1>2, <1>3, <1>4 DEF Exec, TypeInv, TypeOK

LEMMA ForgetType ==
  ASSUME TypeOK, NEW g \in Goroutines, Forget(g)
  PROVE  /\ key' \in [Goroutines -> Keys \cup {None}]
         /\ found' \in [Goroutines -> Rows \cup {None, Miss, Failed}]
         /\ overtaken' \in [Goroutines -> BOOLEAN]
         /\ \A h \in Goroutines \ {g} : key'[h] = key[h]
BY DEF TypeOK, Forget

LEMMA EndTxType ==
  ASSUME TypeInv, NEW g \in Goroutines, EndTx(g), pc[g] = "idle",
         pc' \in [Goroutines -> PCs], pc'[g] \notin InLookup,
         \A h \in Goroutines \ {g} : pc'[h] = pc[h],
         dels' \in [Goroutines -> SUBSET Conditions],
         \/ \E D : Publish(View(g), D)
         \/ UNCHANGED <<table, truths, overtaken, excused>>
  PROVE  TypeInv'
<1>1. /\ table' \in Tables
      /\ truths' \in [Keys -> SUBSET (Rows \cup {None, Failed})]
      /\ overtaken' \in [Goroutines -> BOOLEAN] /\ excused' \subseteq Keys
  BY PublishType, ViewType DEF TypeInv, TypeOK
<1>2. open' \in [Goroutines -> BOOLEAN] /\ own' \in [Goroutines -> [Rows -> Contents \cup {Miss}]]
  BY DEF EndTx, TypeInv, TypeOK
<1> QED BY <1>1, <1>2 DEF EndTx, TypeInv, TypeOK

LEMMA StepTypeInv == TypeInv /\ [Next]_vars => TypeInv'
<1> SUFFICES ASSUME TypeInv, [Next]_vars PROVE TypeInv'
  OBVIOUS
<1>1. ASSUME NEW g \in Goroutines, NEW k \in Keys, LookUp(g, k) PROVE TypeInv'
  <2>1. pc' \in [Goroutines -> PCs] /\ key' \in [Goroutines -> Keys \cup {None}]
    <3>1. \E to \in {"query", "get"} : Goto(g, "idle", to)
      BY <1>1 DEF LookUp
    <3>2. pc' \in [Goroutines -> PCs]
      BY <3>1 DEF Goto, TypeInv, TypeOK, PCs
    <3>3. key' \in [Goroutines -> Keys \cup {None}]
      BY <1>1 DEF LookUp, TypeInv, TypeOK
    <3> QED BY <3>2, <3>3
  <2>2. \A h \in Goroutines : pc'[h] \in InLookup => key'[h] \in Keys
    BY <1>1 DEF LookUp, Goto, TypeInv, TypeOK
  <2> QED BY <1>1, <2>1, <2>2 DEF LookUp, TypeInv, TypeOK, txs
<1>2. ASSUME NEW g \in Goroutines, GetMapping(g) PROVE TypeInv'
  <2>1. pc[g] \in InLookup /\ maps[key[g]] \in Rows \cup {None, Miss}
    BY <1>2 DEF GetMapping, TypeInv, TypeOK, InLookup
  <2>2. \E to \in {"query", "set", "done"}, a \in Rows \cup {None, Miss, Failed} :
          Take(g, "get", to, a)
    BY <1>2, <2>1 DEF GetMapping
  <2> QED BY <2>1, <2>2, TakeType
<1>3. ASSUME NEW g \in Goroutines, QueryUnique(g) \/ getPKByConditions(g) PROVE TypeInv'
  <2>1. AfterQuery(g) \in {"set", "done"}
    BY DEF AfterQuery
  <2> QED BY <1>3, <2>1, QueryType DEF QueryUnique, getPKByConditions
<1>4. ASSUME NEW g \in Goroutines, StoreMapping(g) \/ StoreNull(g) PROVE TypeInv'
  <2>1. \E m \in Rows \cup {None} : Put(g, m)
    BY <1>4 DEF StoreMapping, StoreNull
  <2> QED BY <2>1, PutType
<1>5. ASSUME NEW g \in Goroutines, Return(g) PROVE TypeInv'
  <2>1. pc' = [pc EXCEPT ![g] = "idle"]
    BY <1>5 DEF Return, Goto
  <2> QED BY <1>5, <2>1, ForgetType DEF Return, TypeInv, TypeOK, txs, PCs, InLookup
<1>6. ASSUME NEW g \in Goroutines, NEW p \in Rows, NEW c \in Contents,
             NEW D \in SUBSET Conditions, Exec(g, p, c, D)
      PROVE  TypeInv'
  BY <1>6, ExecType
<1>7. ASSUME NEW g \in Goroutines, Begin(g) PROVE TypeInv'
  BY <1>7 DEF Begin, Goto, TypeInv, TypeOK, call, InLookup
<1>8. ASSUME NEW g \in Goroutines, Commit(g) PROVE TypeInv'
  <2>1. /\ pc[g] = "idle" /\ pc' \in [Goroutines -> PCs] /\ pc'[g] \notin InLookup
        /\ \A h \in Goroutines \ {g} : pc'[h] = pc[h]
    BY <1>8 DEF Commit, Goto, TypeInv, TypeOK, PCs, InLookup
  <2>2. EndTx(g) /\ Publish(View(g), dels[g]) /\ dels' \in [Goroutines -> SUBSET Conditions]
    BY <1>8 DEF Commit, TypeInv, TypeOK
  <2> QED BY <2>1, <2>2, EndTxType
<1>9. ASSUME NEW g \in Goroutines, Rollback(g) PROVE TypeInv'
  <2>1. /\ pc[g] = "idle" /\ pc' \in [Goroutines -> PCs] /\ pc'[g] \notin InLookup
        /\ \A h \in Goroutines \ {g} : pc'[h] = pc[h]
    BY <1>9 DEF Rollback, Goto, TypeInv, TypeOK, PCs, InLookup
  <2>2. /\ EndTx(g) /\ dels' \in [Goroutines -> SUBSET Conditions]
        /\ \/ UNCHANGED <<table, truths, overtaken, excused>>
           \/ Publish(View(g), {})
    BY <1>9 DEF Rollback, TypeInv, TypeOK
  <2> QED BY <2>1, <2>2, EndTxType
<1>10. ASSUME NEW g \in Goroutines, delCondCache(g) PROVE TypeInv'
  <2>1. PICK k \in dels[g] :
          /\ Goto(g, "del", IF dels[g] = {k} THEN "idle" ELSE "del")
          /\ dels' = [dels EXCEPT ![g] = @ \ {k}]
          /\ \/ /\ maps' = [maps EXCEPT ![k] = Miss]
                /\ excused' = excused \ {k} /\ nulls' = nulls \ {k}
             \/ excused' = excused \cup {k} /\ UNCHANGED <<maps, nulls>>
          /\ UNCHANGED <<table, writes, call, open, own, truths>>
    BY <1>10 DEF delCondCache
  <2>2. k \in Keys
    BY DEF TypeInv, TypeOK, Keys
  <2>3. /\ maps' \in [Keys -> Rows \cup {None, Miss}]
        /\ excused' \subseteq Keys /\ nulls' \subseteq Keys
    BY <2>1, <2>2 DEF TypeInv, TypeOK
  <2> QED BY <2>1, <2>3 DEF Goto, TypeInv, TypeOK, call, PCs, InLookup
<1>11. ASSUME NEW k \in Keys, Expire(k) PROVE TypeInv'
  BY <1>11 DEF Expire, TypeInv, TypeOK, call, txs
<1>12. ASSUME NEW g \in Goroutines, Crash(g) PROVE TypeInv'
  <2>1. pc' = [pc EXCEPT ![g] = "idle"] /\ excused' \subseteq Keys
    BY <1>12 DEF Crash, TypeInv, TypeOK, Keys
  <2> QED BY <1>12, <2>1, ForgetType DEF Crash, TypeInv, TypeOK, PCs, InLookup
<1>13. CASE UNCHANGED vars
  BY <1>13 DEF vars, TypeInv, TypeOK
<1>14. ASSUME NEW g \in Goroutines, Update(g) \/ UpdateUnacked(g) \/ Insert(g)
       PROVE  TypeInv'
  <2>1. \E p \in Rows, c \in Contents, D \in SUBSET Conditions : Exec(g, p, c, D)
    BY <1>14 DEF Update, UpdateUnacked, Insert
  <2> QED BY <2>1, <1>6
<1>15. ASSUME NEW g \in Goroutines, GetByUnique(g) \/ GetByConditions(g) PROVE TypeInv'
  BY <1>1, <1>15 DEF GetByUnique, GetByConditions, Keys
<1> QED
  BY <1>2, <1>3, <1>4, <1>5, <1>7, <1>8, <1>9, <1>10, <1>11, <1>12, <1>13, <1>14,
     <1>15
  DEF Next, Step, Start

(* Every variable keeps its type: in particular a query that failed never  *)
(* becomes a mapping other than "__null__".                                *)
THEOREM TypeCorrect == Spec => []TypeOK
<1>1. TypeInv => TypeOK
  BY DEF TypeInv
<1> QED BY InitTypeInv, StepTypeInv, <1>1, PTL DEF Spec

-----------------------------------------------------------------------------
(* Committed mappings *)

(* What outlives a goroutine's transaction: nothing of it is left once it  *)
(* is over, except the hooks that a commit has left to run.                *)
TxInv ==
    \A g \in Goroutines :
      /\ ~open[g] => \A p \in Rows : own[g][p] = Miss
      /\ open[g] => pc[g] \notin {"set", "del"}
      /\ ~open[g] /\ pc[g] # "del" => dels[g] = {}

(* A call waits to store only what was once a right answer, or a failure.  *)
CommittedInv ==
    /\ MappingWasCommitted
    /\ \A k \in Keys : Answers(table, k) \subseteq truths[k]
    /\ \A g \in Goroutines :
         pc[g] = "set" => found[g] \in truths[key[g]] \cup {Failed}

(* ... and as long as no commit has overtaken the call, it is still right. *)
RightInv ==
    \A g \in Goroutines :
      pc[g] = "set" /\ ~overtaken[g] /\ found[g] # Failed =>
        found[g] \in Answers(table, key[g])

IInv == TypeInv /\ TxInv /\ CommittedInv /\ RightInv /\ WrongMappingExplained

LEMMA InitIInv == Init => IInv
<1> SUFFICES ASSUME Init PROVE IInv
  OBVIOUS
<1>1. TypeInv
  BY InitTypeInv
<1>2. TxInv /\ RightInv
  BY DEF Init, TxInv, RightInv
<1>3. CommittedInv
  BY DEF Init, CommittedInv, MappingWasCommitted
<1>4. WrongMappingExplained
  BY DEF Init, WrongMappingExplained, Right
<1> QED BY <1>1, <1>2, <1>3, <1>4 DEF IInv

(* A goroutine without a transaction sees the committed table.             *)
LEMMA ViewOutside ==
  ASSUME TypeOK, TxInv, NEW g \in Goroutines, ~open[g] PROVE View(g) = table
BY DEF TypeOK, TxInv, View, Tables

(* Steps that leave the table alone keep what is known of a call, unless   *)
(* it is the call that moves.                                              *)
LEMMA OthersRight ==
  ASSUME RightInv, CommittedInv, UNCHANGED table, NEW g \in Goroutines,
         \A k \in Keys : truths[k] \subseteq truths'[k],
         \A h \in Goroutines \ {g} : /\ pc'[h] = pc[h] /\ found'[h] = found[h]
                                     /\ key'[h] = key[h] /\ overtaken'[h] = overtaken[h],
         TypeInv,
         pc'[g] = "set" =>
           /\ found'[g] \in truths'[key'[g]] \cup {Failed}
           /\ ~overtaken'[g] /\ found'[g] # Failed => found'[g] \in Answers(table, key'[g]),
         \A k \in Keys : maps'[k] \in {maps[k], Miss}
  PROVE  RightInv' /\ CommittedInv'
<1>1. \A h \in Goroutines \ {g} : pc[h] = "set" => key[h] \in Keys
  BY DEF TypeInv, InLookup
<1>2. \A k \in Keys : Answers(table, k)' = Answers(table, k)
  BY DEF Answers, Matching
<1>3. RightInv'
  <2>1. ASSUME NEW h \in Goroutines, h # g,
               pc'[h] = "set", ~overtaken'[h], found'[h] # Failed
        PROVE  found'[h] \in Answers(table', key'[h])
    <3>1. key[h] \in Keys /\ found[h] \in Answers(table, key[h])
      BY <1>1, <2>1 DEF RightInv
    <3> QED BY <1>2, <2>1, <3>1
  <2>2. pc'[g] = "set" /\ ~overtaken'[g] /\ found'[g] # Failed =>
          found'[g] \in Answers(table', key'[g])
    OBVIOUS
  <2> QED BY <2>1, <2>2 DEF RightInv
<1>4. MappingWasCommitted'
  BY DEF CommittedInv, MappingWasCommitted
<1>5. \A h \in Goroutines : pc'[h] = "set" => found'[h] \in truths'[key'[h]] \cup {Failed}
  BY <1>1 DEF CommittedInv
<1> QED BY <1>2, <1>3, <1>4, <1>5 DEF CommittedInv

LEMMA SameExplained ==
  ASSUME TypeInv, WrongMappingExplained, UNCHANGED table,
         \A k \in Keys : maps'[k] \in {maps[k], Miss},
         \A k \in Keys : maps'[k] = maps[k] /\ k \in excused => k \in excused',
         \A k \in Keys : \A g \in Goroutines :
           ~open[g] /\ k \in dels[g] /\ maps'[k] = maps[k] =>
             (~open'[g] /\ k \in dels'[g]) \/ k \in excused'
  PROVE  WrongMappingExplained'
<1> SUFFICES ASSUME NEW k \in Keys, ~Right(k)'
             PROVE  k \in excused' \/ \E g \in Goroutines : ~open'[g] /\ k \in dels'[g]
  BY DEF WrongMappingExplained
<1>1. maps'[k] = maps[k] /\ ~Right(k)
  BY DEF Right, Answers, Matching
<1> QED BY <1>1 DEF WrongMappingExplained

(* A commit by g of table t.                                               *)
LEMMA PublishInv ==
  ASSUME IInv, NEW g \in Goroutines, NEW t, NEW D, Publish(t, D),
         UNCHANGED <<maps, key, found>>,
         pc'[g] # "set", \A h \in Goroutines \ {g} : pc'[h] = pc[h],
         \A k \in D : ~open'[g] /\ k \in dels'[g],
         \A h \in Goroutines : \A k \in Keys :
           ~open[h] /\ k \in dels[h] => ~open'[h] /\ k \in dels'[h]
  PROVE  CommittedInv' /\ RightInv' /\ WrongMappingExplained'
<1> USE DEF IInv
<1>1. table' = t /\ \A k \in Keys : Answers(table, k)' = Answers(t, k)
  BY DEF Publish, Answers, Matching
<1>2. \A k \in Keys : truths'[k] = truths[k] \cup Answers(t, k)
  BY DEF Publish
<1>3. \A h \in Goroutines : pc'[h] = "set" => pc[h] = "set" /\ key[h] \in Keys
  BY DEF TypeInv, InLookup
<1>4. CommittedInv'
  <2>1. MappingWasCommitted'
    BY <1>2 DEF CommittedInv, MappingWasCommitted
  <2>2. \A k \in Keys : Answers(table, k)' \subseteq truths'[k]
    BY <1>1, <1>2
  <2>3. \A h \in Goroutines : pc'[h] = "set" => found'[h] \in truths'[key'[h]] \cup {Failed}
    BY <1>2, <1>3 DEF CommittedInv
  <2> QED BY <2>1, <2>2, <2>3 DEF CommittedInv
<1>5. RightInv'
  <2> SUFFICES ASSUME NEW h \in Goroutines, pc'[h] = "set", ~overtaken'[h], found'[h] # Failed
               PROVE  found'[h] \in Answers(table, key[h])'
    BY DEF RightInv
  <2>1. ~overtaken[h] /\ ~Changed(t, key[h])
    BY <1>3 DEF Publish
  <2>2. Answers(t, key[h]) = Answers(table, key[h])
    BY <2>1, SameAnswers
  <2> QED BY <1>1, <1>3, <2>1, <2>2 DEF RightInv
<1>6. WrongMappingExplained'
  <2> SUFFICES ASSUME NEW k \in Keys, ~Right(k)'
               PROVE  k \in excused' \/ \E h \in Goroutines : ~open'[h] /\ k \in dels'[h]
    BY DEF WrongMappingExplained
  <2>1. maps[k] # Miss /\ maps[k] \notin Answers(t, k)
    BY <1>1 DEF Right
  <2>2. CASE Changed(t, k)
    BY <2>1, <2>2 DEF Publish
  <2>3. CASE ~Changed(t, k)
    <3>1. ~Right(k)
      BY <2>1, <2>3, SameAnswers DEF Right
    <3> QED BY <3>1 DEF WrongMappingExplained, Publish
  <2> QED BY <2>2, <2>3
<1> QED BY <1>4, <1>5, <1>6

LEMMA StepTxInv == TypeInv /\ TxInv /\ [Next]_vars => TxInv'
<1> SUFFICES ASSUME TypeInv, TxInv, [Next]_vars PROVE TxInv'
  OBVIOUS
<1> USE DEF TypeInv, TypeOK, TxInv, Goto
<1>1. ASSUME NEW g \in Goroutines, NEW k \in Keys, LookUp(g, k) PROVE TxInv'
  BY <1>1 DEF LookUp, txs
<1>2. ASSUME NEW g \in Goroutines, NEW from \in InLookup, NEW to, NEW a,
             Take(g, from, to, a), to = "set" => ~open[g], to # "del"
      PROVE  TxInv'
  BY <1>2 DEF Take, txs, InLookup
<1>3. ASSUME NEW g \in Goroutines, GetMapping(g) PROVE TxInv'
  <2>1. PICK to \in {"query", "done"} : \E a : Take(g, "get", to, a)
    BY <1>3 DEF GetMapping
  <2> QED BY <1>2, <2>1 DEF InLookup
<1>4. ASSUME NEW g \in Goroutines, QueryUnique(g) \/ getPKByConditions(g) PROVE TxInv'
  BY <1>2, <1>4 DEF QueryUnique, getPKByConditions, Query, AfterQuery, InLookup
<1>5. ASSUME NEW g \in Goroutines, StoreMapping(g) \/ StoreNull(g) \/ Return(g)
      PROVE  TxInv'
  BY <1>5 DEF StoreMapping, StoreNull, Put, Return, txs
<1>6. ASSUME NEW g \in Goroutines, NEW p \in Rows, NEW c \in Contents,
             NEW D \in SUBSET Conditions, Exec(g, p, c, D)
      PROVE  TxInv'
  <2>1. CASE open[g] /\ Goto(g, "idle", "idle") /\ own' = [own EXCEPT ![g][p] = c]
    BY <1>6, <2>1 DEF Exec
  <2>2. CASE ~open[g] /\ Goto(g, "idle", IF D = {} THEN "idle" ELSE "del") /\ UNCHANGED own
    <3>1. dels[g] = {} /\ pc[g] = "idle"
      BY <2>2
    <3> QED BY <1>6, <2>2, <3>1 DEF Exec
  <2> QED BY <1>6, <2>1, <2>2 DEF Exec
<1>7. ASSUME NEW g \in Goroutines, Update(g) \/ UpdateUnacked(g) \/ Insert(g)
      PROVE  TxInv'
  <2>1. CASE Update(g)
    <3>1. PICK p \in Rows, c \in Contents :
            Exec(g, p, c, {}) \/ \E k \in Conditions : Exec(g, p, c, {k})
      BY <2>1 DEF Update
    <3>2. {} \in SUBSET Conditions /\ \A k \in Conditions : {k} \in SUBSET Conditions
      OBVIOUS
    <3> HIDE DEF TypeInv, TypeOK, TxInv, Goto
    <3> QED BY <3>1, <3>2, <1>6
  <2>2. CASE UpdateUnacked(g) \/ Insert(g)
    <3>1. PICK p \in Rows, c \in Contents : Exec(g, p, c, {})
      BY <2>2 DEF UpdateUnacked, Insert
    <3> QED BY <3>1, <1>6
  <2> QED BY <1>7, <2>1, <2>2
<1>8. ASSUME NEW g \in Goroutines, Begin(g) PROVE TxInv'
  BY <1>8 DEF Begin, call
<1>9. ASSUME NEW g \in Goroutines, Commit(g) PROVE TxInv'
  BY <1>9 DEF Commit, EndTx
<1>10. ASSUME NEW g \in Goroutines, Rollback(g) PROVE TxInv'
  BY <1>10 DEF Rollback, EndTx
<1>11. ASSUME NEW g \in Goroutines, delCondCache(g) PROVE TxInv'
  BY <1>11 DEF delCondCache, call
<1>12. ASSUME NEW k \in Keys, Expire(k) PROVE TxInv'
  BY <1>12 DEF Expire, call, txs
<1>13. ASSUME NEW g \in Goroutines, Crash(g) PROVE TxInv'
  BY <1>13 DEF Crash
<1>14. CASE UNCHANGED vars
  BY <1>14 DEF vars
<1>15. ASSUME NEW g \in Goroutines, GetByUnique(g) \/ GetByConditions(g) PROVE TxInv'
  BY <1>1, <1>15 DEF GetByUnique, GetByConditions, Keys
<1> QED
  BY <1>3, <1>4, <1>5, <1>7, <1>8, <1>9, <1>10, <1>11, <1>12, <1>13, <1>14, <1>15
  DEF Next, Step, Start

MapsInv == CommittedInv /\ RightInv /\ WrongMappingExplained

LEMMA LookUpInv ==
  ASSUME IInv, NEW g \in Goroutines, NEW k \in Keys, LookUp(g, k) PROVE MapsInv'
<1>1. /\ UNCHANGED <<table, maps, truths, excused, open, dels, found, overtaken>>
      /\ pc'[g] # "set"
      /\ \A h \in Goroutines \ {g} : pc'[h] = pc[h] /\ key'[h] = key[h]
  BY DEF LookUp, Goto, txs, IInv, TypeInv, TypeOK
<1>2. RightInv' /\ CommittedInv'
  BY <1>1, OthersRight DEF IInv
<1>3. WrongMappingExplained'
  BY <1>1, SameExplained DEF IInv
<1> QED BY <1>2, <1>3 DEF MapsInv

LEMMA TakeInv ==
  ASSUME IInv, NEW g \in Goroutines, NEW from, NEW to, NEW a, Take(g, from, to, a),
         to = "set" => from = "query" /\ a \in Answers(table, key[g]) \cup {Failed}
  PROVE  MapsInv'
<1>1. /\ UNCHANGED <<table, maps, truths, excused, open, dels, key>>
      /\ pc[g] = from /\ pc'[g] = to /\ found'[g] = a
      /\ \A h \in Goroutines \ {g} : /\ pc'[h] = pc[h] /\ found'[h] = found[h]
                                     /\ overtaken'[h] = overtaken[h]
  BY DEF Take, Goto, txs, IInv, TypeInv, TypeOK
<1>2. to = "set" => a \in truths[key[g]] \cup {Failed}
  <2>1. from = "query" => key[g] \in Keys
    BY <1>1 DEF IInv, TypeInv, InLookup
  <2> QED BY <2>1 DEF IInv, CommittedInv
<1>3. RightInv' /\ CommittedInv'
  BY <1>1, <1>2, OthersRight DEF IInv
<1>4. WrongMappingExplained'
  BY <1>1, SameExplained DEF IInv
<1> QED BY <1>3, <1>4 DEF MapsInv

LEMMA QueryInv ==
  ASSUME IInv, NEW g \in Goroutines, NEW ks, Query(g, ks, AfterQuery(g))
  PROVE  MapsInv'
<1>1. ~open[g] => View(g) = table
  BY ViewOutside DEF IInv, TypeInv
<1>2. PICK a \in Answers(View(g), key[g]) \cup {Failed} : Take(g, "query", AfterQuery(g), a)
  BY DEF Query
<1>3. AfterQuery(g) = "set" => ~open[g]
  BY DEF AfterQuery
<1> QED BY <1>1, <1>2, <1>3, TakeInv

(* Storing the answer of a call, or the "__null__" of a failed one.        *)
LEMMA PutInv ==
  ASSUME IInv, NEW g \in Goroutines, NEW m, Put(g, m),
         m = found[g] \/ (found[g] = Failed /\ m = None), m # Failed
  PROVE  MapsInv'
<1> USE DEF IInv
<1>1. pc[g] = "set" /\ key[g] \in Keys
  BY DEF Put, Goto, TypeInv, InLookup
<1>2. /\ UNCHANGED <<table, open, dels, key, found, overtaken>>
      /\ pc'[g] # "set" /\ \A h \in Goroutines \ {g} : pc'[h] = pc[h]
  BY DEF Put, Goto, call, txs, TypeInv, TypeOK
<1>3. CASE UNCHANGED <<maps, excused, truths>>
  <2>1. RightInv' /\ CommittedInv'
    BY <1>2, <1>3, OthersRight
  <2>2. WrongMappingExplained'
    BY <1>2, <1>3, SameExplained
  <2> QED BY <2>1, <2>2 DEF MapsInv
<1>4. CASE /\ maps' = [maps EXCEPT ![key[g]] = m]
           /\ excused' = IF overtaken[g] \/ found[g] = Failed
                         THEN excused \cup {key[g]} ELSE excused \ {key[g]}
           /\ truths' = IF found[g] = Failed
                        THEN [truths EXCEPT ![key[g]] = @ \cup {Failed}] ELSE truths
  <2>1. /\ \A k \in Keys : truths[k] \subseteq truths'[k]
        /\ found[g] = Failed => Failed \in truths'[key[g]]
    BY <1>1, <1>4 DEF TypeInv, TypeOK
  <2>2. \A k \in Keys : maps'[k] = IF k = key[g] THEN m ELSE maps[k]
    BY <1>4 DEF TypeInv, TypeOK
  <2>3. \A k \in Keys : Answers(table, k)' = Answers(table, k)
    BY <1>2 DEF Answers, Matching
  <2>4. MappingWasCommitted'
    BY <1>1, <2>1, <2>2 DEF CommittedInv, MappingWasCommitted
  <2>5. \A h \in Goroutines : pc'[h] = "set" => pc[h] = "set" /\ key[h] \in Keys
    BY <1>2 DEF TypeInv, InLookup
  <2>6. RightInv'
    BY <1>2, <2>3, <2>5 DEF RightInv
  <2>7. CommittedInv'
    BY <1>2, <2>1, <2>3, <2>4, <2>5 DEF CommittedInv
  <2>8. WrongMappingExplained'
    <3> SUFFICES ASSUME NEW k \in Keys, ~Right(k)'
                 PROVE  k \in excused' \/ \E h \in Goroutines : ~open'[h] /\ k \in dels'[h]
      BY DEF WrongMappingExplained
    <3>1. CASE k = key[g]
      <4>1. overtaken[g] \/ found[g] = Failed
        BY <1>1, <2>2, <2>3, <3>1 DEF RightInv, Right
      <4> QED BY <1>4, <3>1, <4>1
    <3>2. CASE k # key[g]
      <4>1. ~Right(k)
        BY <2>2, <2>3, <3>2 DEF Right
      <4> QED BY <1>2, <1>4, <3>2, <4>1 DEF WrongMappingExplained
    <3> QED BY <3>1, <3>2
  <2> QED BY <2>6, <2>7, <2>8 DEF MapsInv
<1> QED BY <1>3, <1>4 DEF Put

LEMMA ExecInv ==
  ASSUME IInv, NEW g \in Goroutines, NEW p \in Rows, NEW c \in Contents,
         NEW D \in SUBSET Conditions, Exec(g, p, c, D)
  PROVE  MapsInv'
<1> USE DEF IInv
<1>1. /\ UNCHANGED <<maps, key, found, open>> /\ pc[g] = "idle" /\ pc'[g] # "set"
      /\ \A h \in Goroutines \ {g} : pc'[h] = pc[h] /\ dels'[h] = dels[h]
      /\ dels'[g] = dels[g] \cup D
  BY DEF Exec, Goto, TypeInv, TypeOK
<1>2. CASE open[g] /\ UNCHANGED <<table, truths, overtaken, excused>>
  <2>1. RightInv' /\ CommittedInv'
    BY <1>1, <1>2, OthersRight
  <2>2. WrongMappingExplained'
    BY <1>1, <1>2, SameExplained
  <2> QED BY <2>1, <2>2 DEF MapsInv
<1>3. CASE ~open[g] /\ Publish([table EXCEPT ![p] = c], D)
  <2>1. /\ \A k \in D : ~open'[g] /\ k \in dels'[g]
        /\ \A h \in Goroutines : \A k \in Keys :
             ~open[h] /\ k \in dels[h] => ~open'[h] /\ k \in dels'[h]
    BY <1>1, <1>3
  <2> QED BY <1>1, <1>3, <2>1, PublishInv DEF MapsInv
<1> QED BY <1>2, <1>3 DEF Exec

LEMMA EndTxInv ==
  ASSUME IInv, NEW g \in Goroutines, Commit(g) \/ Rollback(g) PROVE MapsInv'
<1> USE DEF IInv
<1>1. /\ UNCHANGED <<maps, key, found>> /\ open[g] /\ pc'[g] # "set" /\ ~open'[g]
      /\ \A h \in Goroutines \ {g} :
           pc'[h] = pc[h] /\ dels'[h] = dels[h] /\ open'[h] = open[h]
  BY DEF Commit, Rollback, EndTx, Goto, TypeInv, TypeOK
<1>2. CASE UNCHANGED <<table, truths, overtaken, excused>>
  <2>1. RightInv' /\ CommittedInv'
    BY <1>1, <1>2, OthersRight
  <2>2. WrongMappingExplained'
    BY <1>1, <1>2, SameExplained
  <2> QED BY <2>1, <2>2 DEF MapsInv
<1>3. ASSUME NEW D, Publish(View(g), D), \A k \in D : k \in dels'[g] PROVE MapsInv'
  <2>1. \A h \in Goroutines : \A k \in Keys :
          ~open[h] /\ k \in dels[h] => ~open'[h] /\ k \in dels'[h]
    BY <1>1
  <2> QED BY <1>1, <1>3, <2>1, PublishInv DEF MapsInv
<1>4. CASE Commit(g)
  BY <1>3, <1>4 DEF Commit
<1>5. CASE Rollback(g)
  BY <1>2, <1>3, <1>5 DEF Rollback
<1> QED BY <1>4, <1>5

LEMMA DelInv == ASSUME IInv, NEW g \in Goroutines, delCondCache(g) PROVE MapsInv'
<1> USE DEF IInv
<1>1. PICK k \in dels[g] :
        /\ Goto(g, "del", IF dels[g] = {k} THEN "idle" ELSE "del")
        /\ dels' = [dels EXCEPT ![g] = @ \ {k}]
        /\ \/ /\ maps' = [maps EXCEPT ![k] = Miss]
              /\ excused' = excused \ {k} /\ nulls' = nulls \ {k}
           \/ excused' = excused \cup {k} /\ UNCHANGED <<maps, nulls>>
        /\ UNCHANGED <<table, writes, call, open, own, truths>>
  BY DEF delCondCache
<1>2. /\ UNCHANGED <<table, truths, key, found, overtaken, open>> /\ pc'[g] # "set"
      /\ \A h \in Goroutines \ {g} : pc'[h] = pc[h] /\ dels'[h] = dels[h]
      /\ dels'[g] = dels[g] \ {k}
  BY <1>1 DEF Goto, call, TypeInv, TypeOK
<1>3. k \in Keys
  BY DEF TypeInv, TypeOK, Keys
<1>4. \A j \in Keys : maps'[j] \in {maps[j], Miss}
  BY <1>1, <1>3 DEF TypeInv, TypeOK
<1>5. RightInv' /\ CommittedInv'
  BY <1>2, <1>4, OthersRight
<1>6. WrongMappingExplained'
  <2>1. CASE excused' = excused \cup {k} /\ UNCHANGED maps
    BY <1>2, <2>1, SameExplained
  <2>2. CASE maps' = [maps EXCEPT ![k] = Miss] /\ excused' = excused \ {k}
    <3> SUFFICES ASSUME NEW j \in Keys, ~Right(j)'
                 PROVE  j \in excused' \/ \E h \in Goroutines : ~open'[h] /\ j \in dels'[h]
      BY DEF WrongMappingExplained
    <3>1. maps'[k] = Miss /\ \A i \in Keys \ {k} : maps'[i] = maps[i]
      BY <1>3, <2>2 DEF TypeInv, TypeOK
    <3>2. j # k /\ ~Right(j)
      BY <1>2, <3>1 DEF Right, Answers, Matching
    <3> QED BY <1>2, <2>2, <3>2 DEF WrongMappingExplained
  <2> QED BY <1>1, <2>1, <2>2
<1> QED BY <1>5, <1>6 DEF MapsInv

LEMMA CrashInv == ASSUME IInv, NEW g \in Goroutines, Crash(g) PROVE MapsInv'
<1> USE DEF IInv
<1>1. /\ UNCHANGED <<table, truths, maps>> /\ pc'[g] # "set"
      /\ \A h \in Goroutines \ {g} :
           /\ pc'[h] = pc[h] /\ dels'[h] = dels[h] /\ open'[h] = open[h]
           /\ key'[h] = key[h] /\ found'[h] = found[h] /\ overtaken'[h] = overtaken[h]
      /\ excused \subseteq excused' /\ (~open[g] => dels[g] \subseteq excused')
  BY DEF Crash, Forget, TypeInv, TypeOK
<1>2. RightInv' /\ CommittedInv'
  BY <1>1, OthersRight
<1>3. \A k \in Keys : \A h \in Goroutines :
        ~open[h] /\ k \in dels[h] => (~open'[h] /\ k \in dels'[h]) \/ k \in excused'
  BY <1>1
<1>4. WrongMappingExplained'
  BY <1>1, <1>3, SameExplained
<1> QED BY <1>2, <1>4 DEF MapsInv

LEMMA StepMapsInv == IInv /\ [Next]_vars => MapsInv'
<1> SUFFICES ASSUME IInv, [Next]_vars PROVE MapsInv'
  OBVIOUS
<1> USE DEF IInv
<1>1. ASSUME NEW g \in Goroutines, GetByUnique(g) \/ GetByConditions(g) PROVE MapsInv'
  BY <1>1, LookUpInv DEF GetByUnique, GetByConditions, Keys
<1>2. ASSUME NEW g \in Goroutines, GetMapping(g) PROVE MapsInv'
  BY <1>2, TakeInv DEF GetMapping
<1>3. ASSUME NEW g \in Goroutines, QueryUnique(g) \/ getPKByConditions(g) PROVE MapsInv'
  BY <1>3, QueryInv DEF QueryUnique, getPKByConditions
<1>4. ASSUME NEW g \in Goroutines, StoreMapping(g) PROVE MapsInv'
  <2>1. found[g] # Failed
    BY <1>4 DEF StoreMapping
  <2> QED BY <1>4, <2>1, PutInv DEF StoreMapping
<1>5. ASSUME NEW g \in Goroutines, StoreNull(g) PROVE MapsInv'
  <2>1. None # Failed
    OBVIOUS
  <2> QED BY <1>5, <2>1, PutInv DEF StoreNull
<1>6. ASSUME NEW g \in Goroutines, Return(g) \/ Begin(g) PROVE MapsInv'
  <2>1. /\ UNCHANGED <<table, maps, truths, excused, dels>> /\ pc'[g] # "set"
        /\ \A h \in Goroutines \ {g} :
             /\ pc'[h] = pc[h] /\ open'[h] = open[h] /\ key'[h] = key[h]
             /\ found'[h] = found[h] /\ overtaken'[h] = overtaken[h]
    BY <1>6 DEF Return, Begin, Forget, Goto, call, txs, TypeInv, TypeOK
  <2>2. open'[g] = open[g] \/ dels[g] = {}
    BY <1>6 DEF Return, Begin, Goto, txs, TxInv
  <2>3. RightInv' /\ CommittedInv'
    BY <2>1, OthersRight
  <2>4. WrongMappingExplained'
    BY <2>1, <2>2, SameExplained
  <2> QED BY <2>3, <2>4 DEF MapsInv
<1>7. ASSUME NEW g \in Goroutines, Update(g) \/ UpdateUnacked(g) \/ Insert(g)
      PROVE  MapsInv'
  <2>1. \E p \in Rows, c \in Contents, D \in SUBSET Conditions : Exec(g, p, c, D)
    BY <1>7 DEF Update, UpdateUnacked, Insert
  <2> QED BY <2>1, ExecInv
<1>8. ASSUME NEW k \in Keys, Expire(k) PROVE MapsInv'
  <2>1. /\ UNCHANGED <<table, truths, pc, key, found, overtaken, open, dels>>
        /\ maps'[k] = Miss /\ excused' = excused \ {k}
        /\ \A j \in Keys \ {k} : maps'[j] = maps[j]
    BY <1>8 DEF Expire, call, txs, TypeInv, TypeOK
  <2>2. \A j \in Keys : Answers(table, j)' = Answers(table, j)
    BY <2>1 DEF Answers, Matching
  <2>3. \A g \in Goroutines : pc[g] = "set" => key[g] \in Keys
    BY DEF TypeInv, InLookup
  <2>4. RightInv' /\ CommittedInv'
    BY <2>1, <2>2, <2>3 DEF RightInv, CommittedInv, MappingWasCommitted
  <2>5. WrongMappingExplained'
    BY <2>1, <2>2 DEF WrongMappingExplained, Right
  <2> QED BY <2>4, <2>5 DEF MapsInv
<1>9. CASE UNCHANGED vars
  BY <1>9 DEF vars, MapsInv, RightInv, CommittedInv, MappingWasCommitted,
              WrongMappingExplained, Right, Answers, Matching
<1> QED
  BY <1>1, <1>2, <1>3, <1>4, <1>5, <1>6, <1>7, <1>8, <1>9, EndTxInv, DelInv, CrashInv
  DEF Next, Step, Start

LEMMA StepIInv == IInv /\ [Next]_vars => IInv'
BY StepTypeInv, StepTxInv, StepMapsInv DEF IInv, MapsInv

(* No uncommitted or invented mapping is ever cached: what Redis holds for *)
(* a unique value or for conditions was an answer of the committed table,  *)
(* or is the "__null__" of a query that failed.                            *)
THEOREM MappingsCommitted == Spec => []MappingWasCommitted
<1>1. IInv => MappingWasCommitted
  BY DEF IInv, CommittedInv
<1> QED BY InitIInv, StepIInv, <1>1, PTL DEF Spec

(* A mapping goes wrong only for the reasons that excused records, or for  *)
(* as long as the hook of an update with its conditions is pending.        *)
THEOREM WrongMappingsExplained == Spec => []WrongMappingExplained
<1>1. IInv => WrongMappingExplained
  BY DEF IInv
<1> QED BY InitIInv, StepIInv, <1>1, PTL DEF Spec

-----------------------------------------------------------------------------
(* What a lookup answers *)

AnswerWasTrue(g) ==
    \/ found[g] \in truths[key[g]] \cup {Failed}
    \/ found[g] = None /\ Failed \in truths[key[g]]

SeesOwnWrites(g) ==
    \A p \in Rows : own[g][p] # Miss =>
      /\ found[g] = p => own[g][p] \in Selected[key[g]]
      /\ found[g] = None => own[g][p] \notin Selected[key[g]]

(* The answer of a call depends on whether it is in a transaction, and in  *)
(* one no call asks Redis.                                                 *)
AnswerInv ==
    \A g \in Goroutines :
      /\ pc[g] = "done" /\ ~open[g] => AnswerWasTrue(g)
      /\ pc[g] = "done" /\ open[g] => SeesOwnWrites(g)
      /\ open[g] => pc[g] # "get"

LEMMA InitAnswerInv == Init => AnswerInv
BY DEF Init, AnswerInv

LEMMA TruthsGrow ==
  ASSUME TypeInv, [Next]_vars, NEW k \in Keys PROVE truths[k] \subseteq truths'[k]
<1>1. ASSUME NEW t, NEW D, Publish(t, D) PROVE truths[k] \subseteq truths'[k]
  BY <1>1 DEF Publish
<1>2. ASSUME NEW g \in Goroutines, NEW m, Put(g, m) PROVE truths[k] \subseteq truths'[k]
  <2>1. key[g] \in Keys
    BY <1>2 DEF Put, Goto, TypeInv, InLookup
  <2> QED BY <1>2, <2>1 DEF Put, TypeInv, TypeOK
<1>3. ASSUME NEW g \in Goroutines, Step(g) PROVE truths[k] \subseteq truths'[k]
  BY <1>2, <1>3 DEF Step, GetMapping, QueryUnique, getPKByConditions, Query, Take,
                    StoreMapping, StoreNull, Return, delCondCache
<1>4. ASSUME NEW g \in Goroutines, Start(g) PROVE truths[k] \subseteq truths'[k]
  BY <1>1, <1>4 DEF Start, GetByUnique, GetByConditions, LookUp, Update, UpdateUnacked, Insert, Exec,
                    Begin, Commit, Rollback
<1>5. (\E g \in Goroutines : Crash(g)) \/ (\E j \in Keys : Expire(j)) \/ UNCHANGED vars
        => truths[k] \subseteq truths'[k]
  BY DEF Crash, Expire, vars
<1> QED BY <1>3, <1>4, <1>5 DEF Next

(* A step of g after which its call, if it has an answer, has a good one.  *)
LEMMA KeepAnswers ==
  ASSUME TypeInv, AnswerInv, [Next]_vars, NEW g \in Goroutines,
         \A h \in Goroutines \ {g} :
           /\ pc'[h] = pc[h] /\ found'[h] = found[h] /\ key'[h] = key[h]
           /\ open'[h] = open[h] /\ own'[h] = own[h],
         open'[g] => pc'[g] # "get",
         pc'[g] = "done" => /\ ~open'[g] => AnswerWasTrue(g)'
                            /\ open'[g] => SeesOwnWrites(g)'
  PROVE  AnswerInv'
<1> SUFFICES ASSUME NEW h \in Goroutines \ {g}
             PROVE  /\ pc'[h] = "done" /\ ~open'[h] => AnswerWasTrue(h)'
                    /\ pc'[h] = "done" /\ open'[h] => SeesOwnWrites(h)'
                    /\ open'[h] => pc'[h] # "get"
  BY DEF AnswerInv
<1>1. ASSUME pc[h] = "done" PROVE truths[key[h]] \subseteq truths'[key[h]]
  BY <1>1, TruthsGrow DEF TypeInv, InLookup
<1>2. pc'[h] = "done" /\ ~open'[h] => AnswerWasTrue(h)'
  BY <1>1 DEF AnswerInv, AnswerWasTrue
<1>3. pc'[h] = "done" /\ open'[h] => SeesOwnWrites(h)'
  BY DEF AnswerInv, SeesOwnWrites
<1> QED BY <1>2, <1>3 DEF AnswerInv

LEMMA StepAnswerInv == IInv /\ AnswerInv /\ [Next]_vars => AnswerInv'
<1> SUFFICES ASSUME IInv, AnswerInv, [Next]_vars PROVE AnswerInv'
  OBVIOUS
<1> USE DEF IInv, Goto
<1>1. ASSUME NEW g \in Goroutines, NEW from, NEW to, NEW a, Take(g, from, to, a),
             to \in {"query", "set", "done"},
             to = "done" /\ ~open[g] =>
               \/ a \in truths[key[g]] \cup {Failed}
               \/ a = None /\ Failed \in truths[key[g]],
             to = "done" /\ open[g] => a \in Answers(View(g), key[g]) \cup {Failed}
      PROVE  AnswerInv'
  <2>1. /\ UNCHANGED <<truths, key, open, own>> /\ pc'[g] = to /\ found'[g] = a
        /\ \A h \in Goroutines \ {g} : pc'[h] = pc[h] /\ found'[h] = found[h]
    BY <1>1 DEF Take, txs, TypeInv, TypeOK
  <2>2. ASSUME to = "done", ~open[g] PROVE AnswerWasTrue(g)'
    BY <1>1, <2>1, <2>2 DEF AnswerWasTrue
  <2>3. ASSUME to = "done", open[g] PROVE SeesOwnWrites(g)'
    <3> SUFFICES ASSUME NEW p \in Rows, own[g][p] # Miss
                 PROVE  /\ a = p => own[g][p] \in Selected[key[g]]
                        /\ a = None => own[g][p] \notin Selected[key[g]]
      BY <2>1 DEF SeesOwnWrites
    <3>1. View(g)[p] = own[g][p]
      BY DEF View
    <3>2. p # Failed /\ p # None /\ None # Failed
      OBVIOUS
    <3>3. a \in Answers(View(g), key[g]) \cup {Failed}
      BY <1>1, <2>3
    <3> QED BY <3>1, <3>2, <3>3 DEF Answers, Matching
  <2>4. open'[g] => pc'[g] # "get"
    BY <1>1, <2>1
  <2> QED BY <2>1, <2>2, <2>3, <2>4, KeepAnswers
<1>2. ASSUME NEW g \in Goroutines, GetMapping(g) PROVE AnswerInv'
  <2>1. pc[g] = "get" /\ ~open[g] /\ key[g] \in Keys
    BY <1>2 DEF GetMapping, AnswerInv, TypeInv, InLookup
  <2>2. CASE maps[key[g]] # Miss /\ Take(g, "get", "done", maps[key[g]])
    <3>1. \/ maps[key[g]] \in truths[key[g]]
          \/ maps[key[g]] = None /\ Failed \in truths[key[g]]
      BY <2>1, <2>2 DEF CommittedInv, MappingWasCommitted
    <3> QED BY <1>1, <2>1, <2>2, <3>1
  <2>3. CASE Take(g, "get", "query", Miss)
    BY <1>1, <2>3
  <2>4. CASE Take(g, "get", "done", Failed)
    BY <1>1, <2>1, <2>4
  <2> QED BY <1>2, <2>2, <2>3, <2>4 DEF GetMapping
<1>3. ASSUME NEW g \in Goroutines, QueryUnique(g) \/ getPKByConditions(g) PROVE AnswerInv'
  <2>1. PICK a \in Answers(View(g), key[g]) \cup {Failed} : Take(g, "query", AfterQuery(g), a)
    BY <1>3 DEF QueryUnique, getPKByConditions, Query
  <2>2. AfterQuery(g) \in {"set", "done"} /\ (AfterQuery(g) = "done" => open[g])
    BY DEF AfterQuery
  <2> QED BY <1>1, <2>1, <2>2
<1>4. ASSUME NEW g \in Goroutines, StoreMapping(g) \/ StoreNull(g) PROVE AnswerInv'
  <2>1. /\ UNCHANGED <<key, found, open, own>> /\ pc[g] = "set" /\ pc'[g] = "done"
        /\ \A h \in Goroutines \ {g} : pc'[h] = pc[h]
    BY <1>4 DEF StoreMapping, StoreNull, Put, call, txs, TypeInv, TypeOK
  <2>2. key[g] \in Keys /\ ~open[g] /\ found[g] \in truths[key[g]] \cup {Failed}
    BY <2>1 DEF TypeInv, InLookup, TxInv, CommittedInv
  <2>3. AnswerWasTrue(g)'
    BY <2>1, <2>2, TruthsGrow DEF AnswerWasTrue
  <2> QED BY <2>1, <2>2, <2>3, KeepAnswers
<1>5. ASSUME NEW g \in Goroutines, NEW p \in Rows, NEW c \in Contents, NEW D,
             Exec(g, p, c, D)
      PROVE  AnswerInv'
  <2>1. /\ UNCHANGED <<key, found, open>> /\ pc'[g] \in {"idle", "del"}
        /\ \A h \in Goroutines \ {g} : pc'[h] = pc[h] /\ own'[h] = own[h]
    BY <1>5 DEF Exec, TypeInv, TypeOK
  <2> QED BY <2>1, KeepAnswers
<1>6. ASSUME NEW g \in Goroutines, Update(g) \/ UpdateUnacked(g) \/ Insert(g)
      PROVE  AnswerInv'
  <2>1. \E p \in Rows, c \in Contents, D \in SUBSET Conditions : Exec(g, p, c, D)
    BY <1>6 DEF Update, UpdateUnacked, Insert
  <2> QED BY <1>5, <2>1
<1>7. ASSUME NEW g \in Goroutines,
             \/ GetByUnique(g) \/ GetByConditions(g) \/ Return(g) \/ Begin(g)
             \/ Commit(g) \/ Rollback(g) \/ delCondCache(g) \/ Crash(g)
      PROVE  AnswerInv'
  <2>1. /\ \A h \in Goroutines \ {g} :
             /\ pc'[h] = pc[h] /\ found'[h] = found[h] /\ key'[h] = key[h]
             /\ open'[h] = open[h] /\ own'[h] = own[h]
        /\ pc'[g] # "done" /\ (open'[g] => pc'[g] # "get")
    BY <1>7 DEF GetByUnique, GetByConditions, LookUp, Return, Begin, Commit, Rollback,
                EndTx, delCondCache, Crash, Forget, txs, call, TypeInv, TypeOK
  <2> QED BY <2>1, KeepAnswers
<1>8. ASSUME (\E k \in Keys : Expire(k)) \/ UNCHANGED vars PROVE AnswerInv'
  <2>1. UNCHANGED <<pc, key, found, open, own, truths>>
    BY <1>8 DEF Expire, vars, call, txs
  <2> QED BY <2>1 DEF AnswerInv, AnswerWasTrue, SeesOwnWrites
<1> QED
  BY <1>2, <1>3, <1>4, <1>6, <1>7, <1>8 DEF Next, Step, Start

LEMMA AnswersInvariant == Spec => [](IInv /\ AnswerInv)
<1>1. Init => IInv /\ AnswerInv
  BY InitIInv, InitAnswerInv
<1>2. IInv /\ AnswerInv /\ [Next]_vars => (IInv /\ AnswerInv)'
  BY StepIInv, StepAnswerInv
<1> QED BY <1>1, <1>2, PTL DEF Spec

(* GetByUnique and GetByConditions (cache_get.go 163-310) tell a caller    *)
(* outside transactions nothing that was not committed, whatever failed    *)
(* and whoever has transactions.                                           *)
THEOREM LookupsTellCommitted == Spec => []AnswersWereTrue
<1>1. AnswerInv => AnswersWereTrue
  BY DEF AnswerInv, AnswerWasTrue, AnswersWereTrue
<1> QED BY <1>1, AnswersInvariant, PTL

(* What a lookup in a transaction, which goes to the database at once      *)
(* (cache_get.go 168 and 251), hands to GetByPK (182 and 260), a primary   *)
(* key or none, agrees with all the transaction has written, for any       *)
(* writes in any order.  Nothing is said of the row that GetByPK, which    *)
(* asks L1 first (51), then reads.                                         *)
THEOREM LookupsReadOwnWrites == Spec => []LookupsSeeOwnWrites
<1>1. AnswerInv => LookupsSeeOwnWrites
  BY DEF AnswerInv, SeesOwnWrites, LookupsSeeOwnWrites
<1> QED BY <1>1, AnswersInvariant, PTL

=============================================================================
