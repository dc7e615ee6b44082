------------------------------- MODULE PkCache -------------------------------
(***************************************************************************)
(* One table of rows read by primary key through gorm-cachex: GetByPK,     *)
(* Update, UpdateByPKWithTx, Insert and Transaction, over the per-process  *)
(* L1 cache, the per-process singleflight group, the shared Redis and the  *)
(* database.  Every call to Redis, to the database, to L1 or to the flight *)
(* is a step of its own, so all goroutines of all instances interleave     *)
(* there.                                                                  *)
(*                                                                         *)
(* A row is abstracted to the stamp of the write that produced it: stamps  *)
(* are handed out once, so two contents of a row are equal exactly when    *)
(* their stamps are.  Stamp 0 is "no such row", which the caches store as  *)
(* "__null__".                                                             *)
(***************************************************************************)
EXTENDS Integers, Sequences, FiniteSets

CONSTANTS
    Instances,      \* processes, each with one CacheDB (its l1 and its sf)
    Goroutines,     \* callers; each runs one call of the library at a time
    InstanceOf,     \* the process a goroutine runs in
    Writers,        \* the goroutines that insert, update or open transactions
    TxClients,      \* those of them that open transactions
    Keys,           \* primary keys of the table
    InitRows,       \* the keys that have a row at the start, with stamp 1
    EnableL1Cache,  \* CacheDB.EnableL1Cache
    MaxOpenConns,   \* size of the database connection pool
    MaxStamp,       \* bound: stamps of writes
    MaxHooks,       \* bound: writes registered in one transaction
    Faults,         \* the faults that may occur, among FaultKinds
    None            \* no goroutine

FaultKinds == {"redis", "db", "commit", "crash"}

ASSUME PkCacheAssumption ==
    /\ InstanceOf \in [Goroutines -> Instances]
    /\ TxClients \subseteq Writers
    /\ Writers \subseteq Goroutines
    /\ InitRows \subseteq Keys
    /\ EnableL1Cache \in BOOLEAN
    /\ MaxOpenConns \in Nat
    /\ MaxStamp \in Nat \ {0}
    /\ MaxHooks \in Nat \ {0}
    /\ Faults \subseteq FaultKinds
    /\ None \notin Goroutines

Absent == 0         \* the row does not exist; "__null__" in a cache
Miss   == -1        \* the cache has no entry; the transaction wrote nothing
Failed == -2        \* the call returned an error other than "not found"

Stamps == 1 .. MaxStamp
Rows   == Stamps \cup {Absent}

VARIABLES
    db,         \* committed rows
    clock,      \* last stamp handed out
    history,    \* history variable: stamps each row was ever committed with
    redis,      \* redis[k]: the value of PkKey(k)
    l1,         \* l1[i][k]: the value in the L1Cache of instance i
    leader,     \* leader[i][k]: the goroutine running sf.Do's function, or None
    pc,         \* where a goroutine is, "idle" between calls
    key,        \* the key of its last GetByPK, or of the write at "lock"
    val,        \* the value its GetByPK holds, and returns at "done"
    floor,      \* history variable: the stamp its GetByPK may not fall behind
    open,       \* the goroutine's context carries a transaction
    own,        \* own[g][k]: the row as written by g's open transaction
    hooks,      \* TxContext.AfterCommit, or what is left of it to run
    excused     \* history variable: keys whose invalidation was defeated

data   == <<db, clock, history>>
caches == <<redis, l1>>
call   == <<key, val, floor>>
txs    == <<open, own, hooks>>
vars   == <<db, clock, history, redis, l1, leader, pc, key, val, floor,
            open, own, hooks, excused>>

PCs == {"idle", "redis", "fillL1", "sf", "wait", "recheck", "load", "setRedis",
        "setL1", "share", "done", "lock", "delRedis", "delL1"}

TypeOK ==
    /\ db \in [Keys -> Rows]
    /\ clock \in Stamps
    /\ history \in [Keys -> SUBSET Stamps]
    /\ redis \in [Keys -> Rows \cup {Miss}]
    /\ l1 \in [Instances -> [Keys -> Rows \cup {Miss}]]
    /\ leader \in [Instances -> [Keys -> Goroutines \cup {None}]]
    /\ pc \in [Goroutines -> PCs]
    /\ key \in [Goroutines -> Keys]
    /\ val \in [Goroutines -> Rows \cup {Miss, Failed}]
    /\ floor \in [Goroutines -> Rows]
    /\ open \in [Goroutines -> BOOLEAN]
    /\ own \in [Goroutines -> [Keys -> Stamps \cup {Miss}]]
    /\ hooks \in [Goroutines -> Seq(Keys)]
    /\ excused \subseteq Keys

Init ==
    /\ db = [k \in Keys |-> IF k \in InitRows THEN 1 ELSE Absent]
    /\ clock = 1
    /\ history = [k \in Keys |-> IF k \in InitRows THEN {1} ELSE {}]
    /\ redis = [k \in Keys |-> Miss]
    /\ l1 = [i \in Instances |-> [k \in Keys |-> Miss]]
    /\ leader = [i \in Instances |-> [k \in Keys |-> None]]
    /\ pc = [g \in Goroutines |-> "idle"]
    /\ key \in [Goroutines -> Keys]
    /\ val = [g \in Goroutines |-> Miss]
    /\ floor = [g \in Goroutines |-> Absent]
    /\ open = [g \in Goroutines |-> FALSE]
    /\ own = [g \in Goroutines |-> [k \in Keys |-> Miss]]
    /\ hooks = [g \in Goroutines |-> <<>>]
    /\ excused = {}

-----------------------------------------------------------------------------
(* Helpers *)

Goto(g, from, to) == pc[g] = from /\ pc' = [pc EXCEPT ![g] = to]

(* A statement outside a transaction takes a connection of the pool and    *)
(* keeps it while it waits for a lock; a transaction keeps its own from    *)
(* Begin to Commit or Rollback.                                            *)
Holders  == {h \in Goroutines : open[h] \/ pc[h] = "lock"}
FreeConn == Cardinality(Holders) < MaxOpenConns

(* What a statement of g sees of a row: its own writes, else the committed *)
(* row (read committed).                                                   *)
View(g, k) == IF own[g][k] # Miss THEN own[g][k] ELSE db[k]

(* No other transaction holds the lock of the row.                         *)
RowFree(g, k) == \A h \in Goroutines \ {g} : own[h][k] = Miss

(* g is committed to deleting k from Redis, and has not done it yet.       *)
PendingDel(g, k) ==
    /\ ~open[g]
    /\ \E n \in 1 .. Len(hooks[g]) :
         hooks[g][n] = k /\ (n = 1 => pc[g] = "delRedis")

(* g is still to delete k somewhere: the call that wrote has not returned. *)
Outstanding(g, k) == ~open[g] /\ \E n \in 1 .. Len(hooks[g]) : hooks[g][n] = k

(* g is about to write to Redis a row that is not the committed one.       *)
StaleFill(g, k) ==
    pc[g] = "setRedis" /\ key[g] = k /\ val[g] \in Stamps /\ val[g] # db[k]

SomeStaleFill(k) == \E g \in Goroutines : StaleFill(g, k)

(* L1Cache.Set and L1Cache.Delete of g's process; both do nothing when L1  *)
(* is disabled.                                                            *)
PutL1(g, k, v) ==
    l1' = IF EnableL1Cache THEN [l1 EXCEPT ![InstanceOf[g]][k] = v] ELSE l1

DelFromL1(g, k) == PutL1(g, k, Miss)

-----------------------------------------------------------------------------
(* GetByPK *)

(* A GetByPK begins.  The L1 lookup comes before the transaction test.     *)
StartGet(g, k, next) ==
    /\ Goto(g, "idle", next)
    /\ key' = [key EXCEPT ![g] = k]
    /\ floor' = [floor EXCEPT ![g] =
         IF \E h \in Goroutines : Outstanding(h, k) THEN Absent ELSE db[k]]
    /\ UNCHANGED <<data, caches, leader, txs, excused>>

HitL1(g, k) ==
    /\ l1[InstanceOf[g]][k] # Miss
    /\ StartGet(g, k, "done")
    /\ val' = [val EXCEPT ![g] = l1[InstanceOf[g]][k]]

MissL1(g, k) ==
    /\ l1[InstanceOf[g]][k] = Miss
    /\ \/ open[g] /\ StartGet(g, k, "sf")
       \/ ~open[g] /\ StartGet(g, k, "redis")
    /\ UNCHANGED val

GetByPK(g, k) == HitL1(g, k) \/ MissL1(g, k)

(* A step of GetByPK that gives it a value.                                *)
Take(g, from, to, v) ==
    /\ Goto(g, from, to)
    /\ val' = [val EXCEPT ![g] = v]
    /\ UNCHANGED <<data, caches, leader, key, floor, txs, excused>>

(* A step of GetByPK that changes nothing but where it is.                 *)
Skip(g, from, to) ==
    /\ Goto(g, from, to)
    /\ UNCHANGED <<data, caches, leader, call, txs, excused>>

(* The first Redis lookup.  An error of Redis is the caller's error.       *)
GetRedis(g) ==
    \/ redis[key[g]] # Miss /\ Take(g, "redis", "fillL1", redis[key[g]])
    \/ redis[key[g]] = Miss /\ Skip(g, "redis", "sf")
    \/ "redis" \in Faults /\ Take(g, "redis", "done", Failed)

FillL1(g) ==
    /\ Goto(g, "fillL1", "done")
    /\ PutL1(g, key[g], val[g])
    /\ UNCHANGED <<data, redis, leader, call, txs, excused>>

Lead(g, next) ==
    /\ Goto(g, "sf", next)
    /\ leader[InstanceOf[g]][key[g]] = None
    /\ leader' = [leader EXCEPT ![InstanceOf[g]][key[g]] = g]
    /\ UNCHANGED <<data, caches, call, txs, excused>>

Follow(g) == leader[InstanceOf[g]][key[g]] # None /\ Skip(g, "sf", "wait")

(* A mutant: sf.Do runs the function without the second lookup.            *)
SfDo_NoRecheck(g) == Lead(g, "load") \/ Follow(g)

(* sf.Do: the first caller of a key runs the function, the others of the   *)
(* same process wait for its result, in a transaction or not.              *)
SfDo(g) ==
    \/ open[g] /\ Lead(g, "load")
    \/ ~open[g] /\ Lead(g, "recheck")
    \/ Follow(g)

(* A mutant: after a second miss GetByPK is called again, inside the flight.*)
Recheck_Restarts(g) ==
    \/ redis[key[g]] # Miss /\ Take(g, "recheck", "share", redis[key[g]])
    \/ (redis[key[g]] = Miss \/ "redis" \in Faults) /\ Skip(g, "recheck", "redis")

(* The second Redis lookup, whose errors fall through to the database and  *)
(* whose hit is not copied to L1.                                          *)
Recheck(g) ==
    \/ redis[key[g]] # Miss /\ Take(g, "recheck", "share", redis[key[g]])
    \/ (redis[key[g]] = Miss \/ "redis" \in Faults) /\ Skip(g, "recheck", "load")

(* A mutant: the result of a transaction's own query is cached too.        *)
Load_CachesInTx(g) ==
    (open[g] \/ FreeConn) /\ Take(g, "load", "setRedis", View(g, key[g]))

(* A mutant: no early return on an error, what the query left is cached.   *)
Load_CachesErrors(g) ==
    \/ open[g] /\ Take(g, "load", "share", View(g, key[g]))
    \/ ~open[g] /\ FreeConn /\ Take(g, "load", "setRedis", View(g, key[g]))
    \/ "db" \in Faults /\ Take(g, "load", "setRedis", Failed)

(* The query: a row or "not found" goes on to be cached, unless the call   *)
(* is in a transaction; any other error is only shared.                    *)
Load(g) ==
    \/ open[g] /\ Take(g, "load", "share", View(g, key[g]))
    \/ ~open[g] /\ FreeConn /\ Take(g, "load", "setRedis", View(g, key[g]))
    \/ "db" \in Faults /\ Take(g, "load", "share", Failed)

(* Cache.Set of the row or of "__null__"; its error is ignored.            *)
SetRedis(g) ==
    \/ /\ Goto(g, "setRedis", "setL1")
       /\ redis' = [redis EXCEPT ![key[g]] = val[g]]
       /\ UNCHANGED <<data, l1, leader, call, txs, excused>>
    \/ "redis" \in Faults /\ Skip(g, "setRedis", "setL1")

SetL1(g) ==
    /\ Goto(g, "setL1", "share")
    /\ PutL1(g, key[g], val[g])
    /\ UNCHANGED <<data, redis, leader, call, txs, excused>>

Served(g) ==
    {g} \cup {h \in Goroutines : /\ pc[h] = "wait"
                                 /\ InstanceOf[h] = InstanceOf[g]
                                 /\ key[h] = key[g]}

(* The function returns: singleflight forgets the flight and gives the     *)
(* result to the leader and to everyone who waits.                         *)
Share(g) ==
    /\ pc[g] = "share"
    /\ pc' = [h \in Goroutines |-> IF h \in Served(g) THEN "done" ELSE pc[h]]
    /\ val' = [h \in Goroutines |-> IF h \in Served(g) THEN val[g] ELSE val[h]]
    /\ leader' = [leader EXCEPT ![InstanceOf[g]][key[g]] = None]
    /\ UNCHANGED <<data, caches, key, floor, txs, excused>>

(* The call returns, and its variables are gone.                           *)
Return(g) ==
    /\ Goto(g, "done", "idle")
    /\ val' = [val EXCEPT ![g] = Miss]
    /\ floor' = [floor EXCEPT ![g] = Absent]
    /\ UNCHANGED <<data, caches, leader, key, txs, excused>>

-----------------------------------------------------------------------------
(* Writes *)

(* A write outside transactions of a row that a transaction has locked     *)
(* waits in the database, with its connection.                             *)
AwaitLock(g, k) ==
    /\ g \in Writers /\ ~open[g]
    /\ FreeConn /\ ~RowFree(g, k)
    /\ Goto(g, "idle", "lock")
    /\ key' = [key EXCEPT ![g] = k]
    /\ UNCHANGED <<data, caches, leader, val, floor, txs, excused>>

(* The statement of g on row k is made: at once, or when the lock is free. *)
Ready(g, k) ==
    /\ g \in Writers
    /\ \/ pc[g] = "idle" /\ (open[g] \/ FreeConn)
       \/ pc[g] = "lock" /\ key[g] = k /\ RowFree(g, k)

(* The wait ends with no change: there is no row to update, or one already *)
(* where it was to be inserted, or the database gives up.                  *)
LockEnds(g) ==
    /\ RowFree(g, key[g]) \/ "db" \in Faults
    /\ Skip(g, "lock", "idle")

(* A statement of g gives row k the next stamp: committed at once, or kept *)
(* in g's transaction, where it holds the row's lock.                      *)
Exec(g, k) ==
    /\ Ready(g, k)
    /\ RowFree(g, k)
    /\ clock < MaxStamp
    /\ clock' = clock + 1
    /\ \/ /\ open[g]
          /\ own' = [own EXCEPT ![g][k] = clock + 1]
          /\ UNCHANGED <<db, history>>
       \/ /\ ~open[g]
          /\ db' = [db EXCEPT ![k] = clock + 1]
          /\ history' = [history EXCEPT ![k] = @ \cup {clock + 1}]
          /\ UNCHANGED own

(* A mutant: inside a transaction the invalidation is run at once.         *)
AfterCommit_Eager(g, k) ==
    \/ open[g] /\ UNCHANGED <<hooks, pc>> /\ redis' = [redis EXCEPT ![k] = Miss]
    \/ /\ ~open[g] /\ pc' = [pc EXCEPT ![g] = "delRedis"]
       /\ hooks' = [hooks EXCEPT ![g] = <<k>>]
       /\ UNCHANGED redis

(* TxManager.AfterCommit of the invalidation of k: registered when g is in *)
(* a transaction, run at once otherwise.                                   *)
AfterCommit(g, k) ==
    /\ Len(hooks[g]) < MaxHooks
    /\ hooks' = [hooks EXCEPT ![g] = Append(@, k)]
    /\ \/ open[g] /\ UNCHANGED pc
       \/ ~open[g] /\ pc' = [pc EXCEPT ![g] = "delRedis"]
    /\ UNCHANGED redis

(* Update or UpdateByPKWithTx, changing a row.                             *)
Update(g, k) ==
    /\ View(g, k) # Absent
    /\ Exec(g, k)
    /\ AfterCommit(g, k)
    /\ UNCHANGED <<l1, leader, call, open, excused>>

(* The same outside transactions, applied and answered with an error: the  *)
(* caller returns before AfterCommit.                                      *)
UpdateUnacked(g, k) ==
    /\ "commit" \in Faults /\ ~open[g]
    /\ View(g, k) # Absent
    /\ Exec(g, k)
    /\ pc' = [pc EXCEPT ![g] = "idle"]
    /\ excused' = excused \cup {k}
    /\ UNCHANGED <<caches, leader, call, open, hooks>>

(* UpdateByPKWithTx matching no row, which registers the invalidation all  *)
(* the same.  (Update returns errors.RowsAffected and changes nothing.)    *)
UpdateNoRow(g, k) ==
    /\ View(g, k) = Absent
    /\ Ready(g, k)
    /\ AfterCommit(g, k)
    /\ UNCHANGED <<data, l1, leader, call, open, own, excused>>

(* Insert of a row that does not exist, whether its answer arrives or not: *)
(* its hook bumps the list version (module ListCache) and touches no entry *)
(* of this module.                                                         *)
Insert(g, k) ==
    /\ View(g, k) = Absent
    /\ Exec(g, k)
    /\ pc' = [pc EXCEPT ![g] = "idle"]
    /\ UNCHANGED <<caches, leader, call, open, hooks, excused>>

-----------------------------------------------------------------------------
(* Transaction *)

Begin(g) ==
    /\ pc[g] = "idle" /\ ~open[g] /\ g \in TxClients
    /\ FreeConn
    /\ open' = [open EXCEPT ![g] = TRUE]
    /\ UNCHANGED <<data, caches, leader, pc, call, own, hooks, excused>>

EndTx(g) ==
    /\ pc[g] = "idle" /\ open[g]
    /\ open' = [open EXCEPT ![g] = FALSE]
    /\ own' = [own EXCEPT ![g] = [k \in Keys |-> Miss]]
    /\ UNCHANGED <<clock, caches, leader, call>>

(* The database makes the writes of g's transaction visible.               *)
Apply(g) ==
    /\ db' = [k \in Keys |-> View(g, k)]
    /\ history' = [k \in Keys |-> history[k] \cup ({own[g][k]} \ {Miss})]

(* The commit succeeds, and the registered hooks start to run in order.    *)
Commit(g) ==
    /\ EndTx(g)
    /\ Apply(g)
    /\ \/ hooks[g] = <<>> /\ UNCHANGED pc
       \/ hooks[g] # <<>> /\ Goto(g, "idle", "delRedis")
    /\ UNCHANGED <<hooks, excused>>

(* Commit returns an error, and no hook runs: the transaction was aborted, *)
(* or the database applied it and its answer was lost.                     *)
CommitFails(g) ==
    /\ "commit" \in Faults
    /\ EndTx(g)
    /\ \/ UNCHANGED <<db, history, excused>>
       \/ /\ Apply(g)
          /\ excused' = excused \cup {k \in Keys : own[g][k] # Miss}
    /\ hooks' = [hooks EXCEPT ![g] = <<>>]
    /\ UNCHANGED pc

(* fn returned an error.                                                   *)
Rollback(g) ==
    /\ EndTx(g)
    /\ hooks' = [hooks EXCEPT ![g] = <<>>]
    /\ UNCHANGED <<db, history, pc, excused>>

-----------------------------------------------------------------------------
(* The invalidation of one key, run after commit *)

(* Cache.Del, whose error is ignored.  A fill that holds an older row when *)
(* the deletion happens will defeat it.                                    *)
DelRedis(g) ==
    LET k == Head(hooks[g]) IN
    /\ Goto(g, "delRedis", "delL1")
    /\ \/ /\ redis' = [redis EXCEPT ![k] = Miss]
          /\ excused' = IF SomeStaleFill(k) THEN excused \cup {k}
                                            ELSE excused \ {k}
       \/ /\ "redis" \in Faults
          /\ excused' = excused \cup {k} /\ UNCHANGED redis
    /\ UNCHANGED <<data, l1, leader, call, txs>>

(* L1Cache.Delete in the writer's process, and on to the next hook.        *)
DelL1(g) ==
    /\ \/ Goto(g, "delL1", "idle") /\ Tail(hooks[g]) = <<>>
       \/ Goto(g, "delL1", "delRedis") /\ Tail(hooks[g]) # <<>>
    /\ DelFromL1(g, Head(hooks[g]))
    /\ hooks' = [hooks EXCEPT ![g] = Tail(@)]
    /\ UNCHANGED <<data, redis, leader, call, open, own, excused>>

-----------------------------------------------------------------------------
(* Time and failures *)

(* The TTL of a Redis entry ends.                                          *)
RedisExpire(k) ==
    /\ redis[k] # Miss
    /\ redis' = [redis EXCEPT ![k] = Miss]
    /\ excused' = IF SomeStaleFill(k) THEN excused ELSE excused \ {k}
    /\ UNCHANGED <<data, l1, leader, pc, call, txs>>

(* A mutant: the expiry is only looked at for "__null__".                  *)
L1Expire_NullOnly(i, k) ==
    /\ l1[i][k] = Absent
    /\ l1' = [l1 EXCEPT ![i][k] = Miss]
    /\ UNCHANGED <<data, redis, leader, pc, call, txs, excused>>

(* The TTL of an L1 entry ends: L1Cache.Get treats it as missing.          *)
L1Expire(i, k) ==
    /\ l1[i][k] # Miss
    /\ l1' = [l1 EXCEPT ![i][k] = Miss]
    /\ UNCHANGED <<data, redis, leader, pc, call, txs, excused>>

(* The process dies: its L1, its flights and its transactions are gone,    *)
(* with the invalidations it had not executed.                             *)
Crash(i) ==
    LET dead == {g \in Goroutines : InstanceOf[g] = i}
        Reset(f, v) == [g \in Goroutines |-> IF g \in dead THEN v ELSE f[g]]
    IN
    /\ "crash" \in Faults
    /\ excused' = excused \cup {k \in Keys : \E g \in dead : PendingDel(g, k)}
    /\ l1' = [l1 EXCEPT ![i] = [k \in Keys |-> Miss]]
    /\ leader' = [leader EXCEPT ![i] = [k \in Keys |-> None]]
    /\ pc' = Reset(pc, "idle")
    /\ val' = Reset(val, Miss)
    /\ floor' = Reset(floor, Absent)
    /\ open' = Reset(open, FALSE)
    /\ own' = Reset(own, [k \in Keys |-> Miss])
    /\ hooks' = Reset(hooks, <<>>)
    /\ UNCHANGED <<data, redis, key>>

-----------------------------------------------------------------------------
(* The steps of a call in progress, which the Go scheduler runs; starting  *)
(* calls and ending transactions, and so how long locks are held, is up to *)
(* the application.                                                        *)
Step(g) ==
    \/ GetRedis(g) \/ FillL1(g) \/ SfDo(g) \/ Recheck(g) \/ Load(g)
    \/ SetRedis(g) \/ SetL1(g) \/ Share(g) \/ Return(g)
    \/ DelRedis(g) \/ DelL1(g)

Start(g) ==
    \/ \E k \in Keys : \/ GetByPK(g, k) \/ AwaitLock(g, k) \/ Update(g, k)
                       \/ UpdateUnacked(g, k) \/ UpdateNoRow(g, k) \/ Insert(g, k)
    \/ LockEnds(g)
    \/ Begin(g) \/ Commit(g) \/ CommitFails(g) \/ Rollback(g)

Expire ==
    \/ \E k \in Keys : RedisExpire(k)
    \/ \E i \in Instances, k \in Keys : L1Expire(i, k)

Next ==
    \/ \E g \in Goroutines : Step(g) \/ Start(g)
    \/ Expire
    \/ \E i \in Instances : Crash(i)

Spec == Init /\ [][Next]_vars

Fairness ==
    /\ \A g \in Goroutines : WF_vars(Step(g))
    /\ \A k \in Keys : WF_vars(RedisExpire(k))
    /\ \A i \in Instances, k \in Keys : WF_vars(L1Expire(i, k))

FairSpec == Spec /\ Fairness

-----------------------------------------------------------------------------
(* Properties *)

(* What row k has ever been, as far as committed: one of its rows, or      *)
(* "no such row" when it did not exist at the start.                       *)
EverCommitted(k) == history[k] \cup (IF k \in InitRows THEN {} ELSE {Absent})

(* A cache only ever holds what was committed: no row of a transaction     *)
(* that is open or rolled back, and no "__null__" for a row that always    *)
(* existed (GetByPK caches nothing in a transaction, cache_get.go 113 and  *)
(* 125, and no error but "not found").                                     *)
CachedWasCommitted ==
    \A k \in Keys :
      /\ redis[k] # Miss => redis[k] \in EverCommitted(k)
      /\ \A i \in Instances : l1[i][k] # Miss => l1[i][k] \in EverCommitted(k)

(* An outdated row in Redis has an explanation: a committed write that is  *)
(* still to delete it, or an invalidation that was defeated - by a fill    *)
(* that had queried the database before the write and stored after the     *)
(* deletion, by an error of Redis or of the commit, or by a crash.  The    *)
(* order "database, then Redis, after commit" of Update, UpdateByPKWithTx  *)
(* and Commit leaves no other window.                                      *)
StaleRowExplained ==
    \A k \in Keys :
      redis[k] \in Stamps /\ redis[k] # db[k] =>
        k \in excused \/ \E g \in Goroutines : PendingDel(g, k)

(* With one process and no failing Redis the second lookup of sf.Do makes  *)
(* every query of the database (outside transactions) answer a real miss:  *)
(* however many goroutines ask, a row is loaded once per absence of its    *)
(* Redis entry, up to the moment it is stored.                             *)
OneProcess == \A i, j \in Instances : i = j

LoadsOnlyOnMiss ==
    OneProcess /\ "redis" \notin Faults =>
      \A g \in Goroutines :
        pc[g] \in {"load", "setRedis"} /\ ~open[g] => redis[key[g]] = Miss

(* Once the application stops writing, TTLs and the calls in progress      *)
(* bring every cache to the committed rows, for good: neither a fill in    *)
(* flight nor a copy from Redis to L1 keeps an old row alive.              *)
Coherent ==
    \A k \in Keys :
      /\ redis[k] \in {Miss, db[k]}
      /\ \A i \in Instances : l1[i][k] \in {Miss, db[k]}

EventuallyCoherent == <>[]Coherent

(* The pool is larger than the number of goroutines that may hold one of   *)
(* its connections while they wait: in a transaction, or for a lock.       *)
PoolSuffices == IsFiniteSet(Writers) /\ Cardinality(Writers) < MaxOpenConns

(* A GetByPK, or the invalidation of a write, returns, whatever it joins,  *)
(* when the pool suffices: otherwise a transaction may wait in             *)
(* singleflight for a caller that needs a connection, and others for the   *)
(* locks of that transaction with the connections that are left.           *)
ReadsReturn ==
    PoolSuffices =>
      \A g \in Goroutines : pc[g] \notin {"idle", "lock"} ~> pc[g] \in {"idle", "lock"}

(* Running the function given to sf.Do.                                    *)
FlightPCs == {"recheck", "load", "setRedis", "setL1", "share"}

(* Why nobody waits for ever: a flight that singleflight knows of, or that *)
(* somebody waits for, has a goroutine which runs its function in the same *)
(* process for the same key, does not wait in singleflight itself, and has *)
(* a connection when it needs one.  No error, crash or late follower       *)
(* leaves a flight without its leader.                                     *)
AwaitedFlights(i) ==
    {k \in Keys : leader[i][k] # None} \cup
    {key[g] : g \in {h \in Goroutines : pc[h] = "wait" /\ InstanceOf[h] = i}}

FlightsProceed ==
    PoolSuffices =>
      \A i \in Instances : \A k \in AwaitedFlights(i) : \E h \in Goroutines :
        /\ InstanceOf[h] = i /\ key[h] = k
        /\ pc[h] \in FlightPCs
        /\ pc[h] = "load" => open[h] \/ FreeConn

(* What a transaction has not committed leaves its process by no way: a    *)
(* read outside transactions returns nothing but what was committed, an    *)
(* error, or what it got in its own process from a goroutine with          *)
(* transactions (whose flight it can only have joined, cache_get.go 85).   *)
DirtyReadsStayLocal ==
    \A g \in Goroutines :
      pc[g] = "done" /\ ~open[g] /\ val[g] \notin EverCommitted(key[g]) \cup {Failed}
        => \E h \in TxClients \ {g} : InstanceOf[h] = InstanceOf[g]

-----------------------------------------------------------------------------
(* Statements of the repository that the code does not keep *)

(* README.md 432: a query inside a transaction neither reads nor writes a  *)
(* cache, so that it reads what the transaction wrote.                     *)
TxReadsOwnWrites ==
    \A g \in Goroutines :
      pc[g] = "done" /\ open[g] /\ own[g][key[g]] # Miss /\ val[g] # Failed
        => val[g] = own[g][key[g]]

(* README.md 68: nothing of an uncommitted transaction is seen outside it  *)
(* ("avoid dirty reads").                                                  *)
NoDirtyRead ==
    \A g \in Goroutines :
      pc[g] = "done" /\ ~open[g] /\ val[g] \in Stamps
        => val[g] \in history[key[g]]

(* README.md 431: with L1 disabled reads are strongly consistent.  A read  *)
(* that begins when no write of its row is in progress returns that row or *)
(* a later one.                                                            *)
ReadsAreFresh ==
    ~EnableL1Cache =>
      \A g \in Goroutines :
        pc[g] = "done" /\ val[g] # Failed => val[g] >= floor[g]

=============================================================================
