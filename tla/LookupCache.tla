----------------------------- MODULE LookupCache -----------------------------
(***************************************************************************)
(* Lookups by something other than the primary key: GetByUnique and        *)
(* GetByConditions, the entries of Redis that map a unique value or a list *)
(* of conditions to a primary key, and what Update does to them.  Only     *)
(* Update deletes a mapping, and only the one of its own conditions.       *)
(*                                                                         *)
(* A row is abstracted to its content, the columns that lookups look at;   *)
(* a lookup key selects some contents.  Two lists of the same conditions   *)
(* in another order are two keys that select the same.  A lookup that      *)
(* finds a primary key goes on to GetByPK, in a transaction too, and what  *)
(* the caller is given is what that reads, L1 first: that is module        *)
(* PkCache.  Here a lookup ends with the primary key it hands over.        *)
(***************************************************************************)
EXTENDS Integers, FiniteSets

CONSTANTS
    Goroutines,
    TxClients,      \* the goroutines that open transactions
    Rows,           \* primary keys of the table
    Contents,
    Uniques,        \* the keys of GetByUnique: a field and a value
    Conditions,     \* the keys of GetByConditions: conditions in their order
    Selected,       \* Selected[k]: the contents that key k selects
    InitTables,     \* the tables to start from
    MaxWrites,      \* bound: rows written
    Faults,         \* the faults that may occur, among FaultKinds
    None,           \* no row: a content, an answer, and "__null__" in Redis
    Miss,           \* no entry; a row the transaction has not written
    Failed          \* the query failed

Keys == Uniques \cup Conditions

FaultKinds == {"redis", "db", "commit", "crash"}

Tables == [Rows -> Contents \cup {None}]

ASSUME LookupCacheAssumption ==
    /\ TxClients \subseteq Goroutines
    /\ Selected \in [Keys -> SUBSET Contents]
    /\ InitTables \subseteq Tables
    /\ MaxWrites \in Nat
    /\ Faults \subseteq FaultKinds
    /\ None \notin Rows \cup Contents \cup Keys
    /\ Miss \notin Rows \cup Contents \cup {None}
    /\ Failed \notin Rows \cup {None, Miss}

VARIABLES
    table,      \* the committed rows
    writes,     \* how many rows have been written
    maps,       \* maps[k]: the entry under UkKey or CompositeKey k
    nulls,      \* history variable: keys whose "__null__" a failed query left
    pc,         \* where a goroutine is, "idle" between calls
    key,        \* the key of its lookup, or None
    found,      \* what the lookup has found
    open,       \* the goroutine's context carries a transaction
    own,        \* the rows as written by its open transaction
    dels,       \* the conditions that the hooks left to run will delete
    truths,     \* history variable: the right answers a key has had
    overtaken,  \* history variable: a commit has changed the lookup's answer
    excused     \* history variable: keys whose mapping may be wrong

txs  == <<open, own, dels>>
call == <<key, found, overtaken>>
vars == <<table, writes, maps, nulls, pc, key, found, open, own, dels, truths,
          overtaken, excused>>

PCs == {"idle", "get", "query", "set", "done", "del"}

TypeOK ==
    /\ table \in Tables
    /\ writes \in 0 .. MaxWrites
    /\ maps \in [Keys -> Rows \cup {None, Miss}]
    /\ nulls \subseteq Keys
    /\ pc \in [Goroutines -> PCs]
    /\ key \in [Goroutines -> Keys \cup {None}]
    /\ found \in [Goroutines -> Rows \cup {None, Miss, Failed}]
    /\ open \in [Goroutines -> BOOLEAN]
    /\ own \in [Goroutines -> [Rows -> Contents \cup {Miss}]]
    /\ dels \in [Goroutines -> SUBSET Conditions]
    /\ truths \in [Keys -> SUBSET (Rows \cup {None, Failed})]
    /\ overtaken \in [Goroutines -> BOOLEAN]
    /\ excused \subseteq Keys

-----------------------------------------------------------------------------
(* What a query finds *)

Matching(t, k) == {p \in Rows : t[p] \in Selected[k]}

(* Any matching row may be the one a query for key k returns.              *)
Answers(t, k) == IF Matching(t, k) = {} THEN {None} ELSE Matching(t, k)

(* A statement of g sees its own writes, else the committed rows.          *)
View(g) == [p \in Rows |-> IF own[g][p] # Miss THEN own[g][p] ELSE table[p]]

(* The unique indexes admit content c in row p.                            *)
Admits(t, p, c) ==
    \A k \in Uniques : c \in Selected[k] => Matching(t, k) \subseteq {p}

(* No other transaction has written the row, or an index entry that the    *)
(* statement needs.                                                        *)
Unlocked(g, p, c) ==
    \A h \in Goroutines \ {g} :
      own[h][p] = Miss /\ Admits([View(h) EXCEPT ![p] = None], p, c)

Init ==
    /\ table \in InitTables
    /\ writes = 0
    /\ maps = [k \in Keys |-> Miss]
    /\ nulls = {}
    /\ pc = [g \in Goroutines |-> "idle"]
    /\ key = [g \in Goroutines |-> None]
    /\ found = [g \in Goroutines |-> Miss]
    /\ open = [g \in Goroutines |-> FALSE]
    /\ own = [g \in Goroutines |-> [p \in Rows |-> Miss]]
    /\ dels = [g \in Goroutines |-> {}]
    /\ truths = [k \in Keys |-> Answers(table, k)]
    /\ overtaken = [g \in Goroutines |-> FALSE]
    /\ excused = {}

Goto(g, from, to) == pc[g] = from /\ pc' = [pc EXCEPT ![g] = to]

(* The variables of g's lookup are gone.                                   *)
Forget(g) ==
    /\ key' = [key EXCEPT ![g] = None]
    /\ found' = [found EXCEPT ![g] = Miss]
    /\ overtaken' = [overtaken EXCEPT ![g] = FALSE]

-----------------------------------------------------------------------------
(* GetByUnique and GetByConditions *)

(* A mutant: a lookup in a transaction asks Redis first, like the others.  *)
LookUp_RedisFirst(g, k) ==
    /\ Goto(g, "idle", "get")
    /\ key' = [key EXCEPT ![g] = k]
    /\ UNCHANGED <<table, writes, maps, nulls, found, txs, truths, overtaken,
                   excused>>

(* A lookup in a transaction goes to the database at once.                 *)
LookUp(g, k) ==
    /\ \/ open[g] /\ Goto(g, "idle", "query")
       \/ ~open[g] /\ Goto(g, "idle", "get")
    /\ key' = [key EXCEPT ![g] = k]
    /\ UNCHANGED <<table, writes, maps, nulls, found, txs, truths, overtaken,
                   excused>>

GetByUnique(g) == \E k \in Uniques : LookUp(g, k)

GetByConditions(g) == \E k \in Conditions : LookUp(g, k)

(* A step of a lookup that gives it an answer.                             *)
Take(g, from, to, a) ==
    /\ Goto(g, from, to)
    /\ found' = [found EXCEPT ![g] = a]
    /\ overtaken' = [overtaken EXCEPT ![g] = FALSE]
    /\ UNCHANGED <<table, writes, maps, nulls, key, txs, truths, excused>>

(* Redis: a primary key or "__null__" is the answer, an error of Redis is  *)
(* the caller's, and a miss leads to the query.                            *)
GetMapping(g) ==
    /\ pc[g] = "get"
    /\ \/ maps[key[g]] # Miss /\ Take(g, "get", "done", maps[key[g]])
       \/ maps[key[g]] = Miss /\ Take(g, "get", "query", Miss)
       \/ "redis" \in Faults /\ Take(g, "get", "done", Failed)

(* The query for the primary key, whose answer is stored unless the call   *)
(* is in a transaction.                                                    *)
Query(g, ks, store) ==
    /\ key[g] \in ks
    /\ \/ \E a \in Answers(View(g), key[g]) : Take(g, "query", store, a)
       \/ "db" \in Faults /\ Take(g, "query", store, Failed)

AfterQuery(g) == IF open[g] THEN "done" ELSE "set"

(* A mutant: the answer of a query in a transaction is stored too.         *)
QueryUnique_StoresInTx(g) == Query(g, Uniques, "set")

QueryUnique(g) == Query(g, Uniques, AfterQuery(g))

getPKByConditions(g) == Query(g, Conditions, AfterQuery(g))

(* Cache.Set, whose error is ignored.  A commit since the query, or the    *)
(* failure of the query, makes what is stored a guess.                     *)
Put(g, m) ==
    /\ Goto(g, "set", "done")
    /\ \/ /\ maps' = [maps EXCEPT ![key[g]] = m]
          /\ excused' = IF overtaken[g] \/ found[g] = Failed
                        THEN excused \cup {key[g]} ELSE excused \ {key[g]}
          /\ truths' = IF found[g] = Failed
                       THEN [truths EXCEPT ![key[g]] = @ \cup {Failed}] ELSE truths
          /\ nulls' = IF found[g] = Failed
                      THEN nulls \cup {key[g]} ELSE nulls \ {key[g]}
       \/ "redis" \in Faults /\ UNCHANGED <<maps, nulls, excused, truths>>
    /\ UNCHANGED <<table, writes, call, txs>>

(* A mutant: there is no early return after a query that failed.           *)
StoreMapping_Unchecked(g) == Put(g, found[g])

StoreMapping(g) == found[g] \in Rows /\ Put(g, found[g])

(* "__null__" is stored when there is no row and when the query failed.    *)
StoreNull(g) == found[g] \in {None, Failed} /\ Put(g, None)

(* The lookup proper ends, with an error or "not found", or it goes on to  *)
(* GetByPK of what it found.                                               *)
Return(g) ==
    /\ Goto(g, "done", "idle")
    /\ Forget(g)
    /\ UNCHANGED <<table, writes, maps, nulls, txs, truths, excused>>

-----------------------------------------------------------------------------
(* Writes *)

Changed(t, k) == Matching(t, k) # Matching(table, k)

(* Table t is committed, and hooks will delete the mappings of D.          *)
Publish(t, D) ==
    /\ table' = t
    /\ truths' = [k \in Keys |-> truths[k] \cup Answers(t, k)]
    /\ overtaken' = [g \in Goroutines |->
         overtaken[g] \/ (pc[g] = "set" /\ Changed(t, key[g]))]
    /\ excused' = excused \cup
         {k \in Keys \ D : maps[k] # Miss /\ Changed(t, k)}

(* A statement of g gives row p content c: committed at once, or kept in   *)
(* the transaction.  D is what AfterCommit is to delete: registered in a   *)
(* transaction, run at once outside.                                       *)
Exec(g, p, c, D) ==
    /\ writes < MaxWrites
    /\ Unlocked(g, p, c) /\ Admits(View(g), p, c)
    /\ writes' = writes + 1
    /\ dels' = [dels EXCEPT ![g] = @ \cup D]
    /\ \/ /\ open[g] /\ Goto(g, "idle", "idle")
          /\ own' = [own EXCEPT ![g][p] = c]
          /\ UNCHANGED <<table, truths, overtaken, excused>>
       \/ /\ ~open[g] /\ Goto(g, "idle", IF D = {} THEN "idle" ELSE "del")
          /\ Publish([table EXCEPT ![p] = c], D)
          /\ UNCHANGED own
    /\ UNCHANGED <<maps, nulls, key, found, open>>

(* Update, without conditions or with some that the row meets.             *)
Update(g) ==
    \E p \in Rows, c \in Contents :
      /\ View(g)[p] \notin {None, c}
      /\ \/ Exec(g, p, c, {})
         \/ \E k \in Conditions :
              View(g)[p] \in Selected[k] /\ Exec(g, p, c, {k})

(* Outside a transaction the database commits a write whose answer is      *)
(* lost: the caller gets an error, and the conditions' mapping is not      *)
(* deleted.                                                                *)
UpdateUnacked(g) ==
    /\ "commit" \in Faults /\ ~open[g]
    /\ \E p \in Rows, c \in Contents :
         View(g)[p] \notin {None, c} /\ Exec(g, p, c, {})

(* Insert, whose hook deletes no mapping: not even a "__null__".           *)
Insert(g) ==
    \E p \in Rows, c \in Contents :
      View(g)[p] = None /\ Exec(g, p, c, {})

-----------------------------------------------------------------------------
(* Transaction *)

Begin(g) ==
    /\ g \in TxClients /\ ~open[g] /\ Goto(g, "idle", "idle")
    /\ open' = [open EXCEPT ![g] = TRUE]
    /\ UNCHANGED <<table, writes, maps, nulls, call, own, dels, truths, excused>>

EndTx(g) ==
    /\ open[g]
    /\ open' = [open EXCEPT ![g] = FALSE]
    /\ own' = [own EXCEPT ![g] = [p \in Rows |-> Miss]]
    /\ UNCHANGED <<writes, maps, nulls, key, found>>

Commit(g) ==
    /\ EndTx(g)
    /\ Goto(g, "idle", IF dels[g] = {} THEN "idle" ELSE "del")
    /\ Publish(View(g), dels[g])
    /\ UNCHANGED dels

(* Rollback, or a Commit that failed: no hook runs.                        *)
Rollback(g) ==
    /\ EndTx(g)
    /\ Goto(g, "idle", "idle")
    /\ dels' = [dels EXCEPT ![g] = {}]
    /\ \/ UNCHANGED <<table, truths, overtaken, excused>>
       \/ "commit" \in Faults /\ Publish(View(g), {})

(* A mutant: the key is built with the conditions sorted, so that nothing  *)
(* is under it.                                                            *)
delCondCache_SortsKey(g) ==
    \E k \in dels[g] :
      /\ Goto(g, "del", IF dels[g] = {k} THEN "idle" ELSE "del")
      /\ dels' = [dels EXCEPT ![g] = @ \ {k}]
      /\ excused' = excused \ {k}
      /\ UNCHANGED <<table, writes, maps, nulls, call, open, own, truths>>

(* One hook deletes the mapping of its conditions; errors are ignored.     *)
(* (In the code the hooks run in their order, here in any.)                *)
delCondCache(g) ==
    \E k \in dels[g] :
      /\ Goto(g, "del", IF dels[g] = {k} THEN "idle" ELSE "del")
      /\ dels' = [dels EXCEPT ![g] = @ \ {k}]
      /\ \/ /\ maps' = [maps EXCEPT ![k] = Miss]
            /\ excused' = excused \ {k} /\ nulls' = nulls \ {k}
         \/ /\ "redis" \in Faults
            /\ excused' = excused \cup {k} /\ UNCHANGED <<maps, nulls>>
      /\ UNCHANGED <<table, writes, call, open, own, truths>>

-----------------------------------------------------------------------------
(* Time and failures *)

(* A mutant: "__null__" is stored without a TTL.                           *)
Expire_RowsOnly(k) ==
    /\ maps[k] \in Rows
    /\ maps' = [maps EXCEPT ![k] = Miss]
    /\ nulls' = nulls \ {k}
    /\ excused' = excused \ {k}
    /\ UNCHANGED <<table, writes, pc, call, txs, truths>>

(* The TTL of a mapping ends.                                              *)
Expire(k) ==
    /\ maps[k] # Miss
    /\ maps' = [maps EXCEPT ![k] = Miss]
    /\ nulls' = nulls \ {k}
    /\ excused' = excused \ {k}
    /\ UNCHANGED <<table, writes, pc, call, txs, truths>>

(* The process of g dies, with its transaction and the hooks left.         *)
Crash(g) ==
    /\ "crash" \in Faults
    /\ pc[g] # "idle" \/ open[g]
    /\ pc' = [pc EXCEPT ![g] = "idle"]
    /\ Forget(g)
    /\ open' = [open EXCEPT ![g] = FALSE]
    /\ own' = [own EXCEPT ![g] = [p \in Rows |-> Miss]]
    /\ dels' = [dels EXCEPT ![g] = {}]
    /\ excused' = IF open[g] THEN excused ELSE excused \cup dels[g]
    /\ UNCHANGED <<table, writes, maps, nulls, truths>>

-----------------------------------------------------------------------------
Step(g) ==
    \/ GetMapping(g) \/ QueryUnique(g) \/ getPKByConditions(g)
    \/ StoreMapping(g) \/ StoreNull(g) \/ Return(g) \/ delCondCache(g)

Start(g) ==
    \/ GetByUnique(g) \/ GetByConditions(g) \/ Update(g) \/ UpdateUnacked(g)
    \/ Insert(g) \/ Begin(g) \/ Commit(g) \/ Rollback(g)

Next ==
    \/ \E g \in Goroutines : Step(g) \/ Start(g) \/ Crash(g)
    \/ \E k \in Keys : Expire(k)

Spec == Init /\ [][Next]_vars

(* The Go scheduler runs calls in progress, and TTLs end.                  *)
Fairness ==
    /\ \A g \in Goroutines : WF_vars(Step(g))
    /\ \A k \in Keys : WF_vars(Expire(k))

FairSpec == Spec /\ Fairness

-----------------------------------------------------------------------------
(* Properties *)

Right(k) == maps[k] # Miss => maps[k] \in Answers(table, k)

(* A mapping was once true of the committed table: a lookup in a           *)
(* transaction stores nothing of the transaction's own writes.  The one    *)
(* exception is the "__null__" that a failed query leaves (cache_get.go    *)
(* lines 215 and 288).                                                     *)
MappingWasCommitted ==
    \A k \in Keys :
      \/ maps[k] \in truths[k] \cup {Miss}
      \/ maps[k] = None /\ Failed \in truths[k]

(* A mapping that is not what a query would answer now has an explanation: *)
(* the hook of an update with these very conditions is still to delete it, *)
(* or the write that made it wrong had other conditions or none, or the    *)
(* deletion failed, or the entry was stored by a query that failed or that *)
(* a commit has overtaken.  So an update does protect the lookups by its   *)
(* own conditions, and nothing else does.                                  *)
WrongMappingExplained ==
    \A k \in Keys :
      \/ Right(k)
      \/ k \in excused
      \/ \E g \in Goroutines : ~open[g] /\ k \in dels[g]

(* A lookup outside transactions answers with what once was true of the    *)
(* committed table, or with an error, or with the "not found" that a       *)
(* failed query has left: these lookups share no flight, so unlike GetByPK *)
(* they show nothing that another goroutine has not committed.             *)
AnswersWereTrue ==
    \A g \in Goroutines :
      pc[g] = "done" /\ ~open[g] =>
        \/ found[g] \in truths[key[g]] \cup {Failed}
        \/ found[g] = None /\ Failed \in truths[key[g]]

(* The primary key that a lookup in a transaction hands to GetByPK (lines  *)
(* 182 and 260) agrees with the transaction's own writes: it is of no row  *)
(* that they took out of the selection, and there is one if they put a row *)
(* there.  This is less than README.md 432 says of the whole lookup: the   *)
(* row under that key is read by GetByPK, which asks L1 first (line 51).   *)
LookupsSeeOwnWrites ==
    \A g \in Goroutines, p \in Rows :
      pc[g] = "done" /\ open[g] /\ own[g][p] # Miss =>
        /\ found[g] = p => own[g][p] \in Selected[key[g]]
        /\ found[g] = None => own[g][p] \notin Selected[key[g]]

(* Whatever made mappings wrong, their TTL ends it: once writes stop, a    *)
(* mapping to a row is to a row that matches, for good, and so is the      *)
(* "__null__" of a query that found nothing, before an insert or an update *)
(* made a row match.  The "__null__" over a matching row that remains      *)
(* possible is one that a failed query left (lines 215 and 288), for a     *)
(* database that goes on failing leaves it again and again.                *)
EventuallyRight ==
    <>[](\A k \in Keys : Right(k) \/ (maps[k] = None /\ k \in nulls))

=============================================================================
