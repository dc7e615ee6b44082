# gorm-cachex in TLA+

TLA+ modules, TLC runs and TLAPS proofs for `gorm-cachex`, a Go library that
puts a per-process L1 cache and a shared Redis in front of a GORM database.
Paths below are relative to the repository.

## 1. The system

| component | code | state | operations |
|---|---|---|---|
| CacheDB | `cachex/cache/cache_db.go` | `l1`, `sf`, handles of Redis, database, transaction manager, router, hooks | `NewCacheDb`, `getListVersion`, `Call*` |
| L1 cache | `cachex/cache/local_cache.go` | a `sync.Map` of items with an expiry | `Get`, `Set`, `Delete` |
| Redis client | `cachex/cache/redis.go` | (in Redis) entries with a TTL; the list version has none | `Get`, `Set`, `Del`, `Incr`, `MGet` |
| primary-key reads and writes | `cache_get.go`, `cache_update.go`, `cache_insert.go` | entries `t:pk:k` in Redis and L1 | `GetByPK`, `Update`, `UpdateByPKWithTx`, `Insert` |
| lookups by other fields | `cache_get.go`, `condition.go` | mapping entries `t:uk:..`, `t:ck:..` | `GetByUnique`, `GetByConditions`, `delCondCache` |
| paged lists | `cache_list.go`, `list_db.go`, `batch_get.go` | `t:list:version`, list entries | `GetList`, `batchGetByPK` |
| transactions | `transaction.go`, `tx/gorm_tx.go` | `TxContext{DB, AfterCommit}` in the context | `Transaction`, `Begin`, `Commit`, `Rollback`, `AfterCommit`, `InTx` |
| model and routing | `base_model.go`, `router/route.go`, `hash_ring/hash_ring.go` | a model's `ctx`, `Db`, `table`, `shardKey` | `WithContext`, setters, `getDB`, `Route` |
| hooks | `cachex/hook` | two counters in `MetricsHook` | callbacks around queries |
| request ids | `log/` | id per goroutine, counter per parent id | `BindCtx`, `GoSafe`, ... |

How they interact. Callers are goroutines of several processes. Within a process
they share L1 and one `singleflight.Group`; all processes share Redis and the
database. A read goes L1, Redis, singleflight, Redis again, database, and stores
what it found on the way back. A write goes to the database first; the deletion
of the cache entries and the increment of the list version are closures that run
at once outside a transaction and after the commit inside one
(`TxManager.AfterCommit`). Every one of these accesses is a separate remote or
shared-memory operation, nothing locks across two of them, and Redis errors on
the write path are ignored. That makes the hard behaviours: fills racing
invalidations, flights shared between callers in and outside a transaction,
invalidations lost to errors and crashes, a connection pool that transactions
and leaders compete for, and a version counter initialised by Get-then-Set.

What each part must keep:

- primary-key cache: only committed rows are cached; an outdated entry is a
  known race and not a lost case; one load per miss; reads return; everything
  heals when the TTLs end;
- list cache: once a write is invalidated, neither the list under the current
  version nor a later read shows the time before it;
- transactions: hooks run after the commit of their transaction, in order and at
  most once; every committed write is invalidated, or there is a reason why not;
  a statement in a transaction goes to the transaction; none is left open;
- batch loads: a row of the page is not lost or mixed up between the batches,
  and they leave outdated rows behind in no way that single loads do not;
- mappings: a mapping was once true; a wrong one has a known cause, and ends;
- model context: a goroutine's write and its invalidation belong to the same
  transaction and table, as long as the goroutine has its model to itself;
- routers: a key always has a database, and keeps it when another is added;
- request ids: a goroutine logs under the id of its own request.

`PROJECT.json` lists all components with their status and the hazards by line.

## 2. The modules

| module | content |
|---|---|
| `PkCache` | one table read by primary key: reads, writes, transactions, caches, faults |
| `MCPkCache` | its instances: which goroutine is in which process |
| `PkCacheProofs` | type correctness, five safety invariants and two theorems on restricted use, proved |
| `ListCache` | the list version and the list entries of one query |
| `MCListCache` | its instances and the symmetry of goroutines |
| `ListCacheProofs` | type correctness and freshness, and what a caller that is alone reads, proved |
| `BatchGet` | loading the rows of a page by primary key, in batches |
| `MCBatchGet` | its instance: one page of two batches |
| `BatchGetProofs` | type correctness and its three safety invariants, proved |
| `LookupCache` | lookups by unique field and by conditions, and the mappings they store |
| `MCLookupCache` | its instance: an email looked up in both ways |
| `LookupCacheProofs` | type correctness and its four safety invariants, proved |
| `TxContract` | what is promised of the hooks of a transaction (abstract) |
| `Transactions` | requests, goroutines, models, `Transaction` and `AfterCommit`; implements `TxContract` |
| `RequestIds` | the request ids of goroutines; `Transactions` instantiates it |
| `MCTransactions` | the instance of `Transactions`: who shares a model, routing, limits |
| `TransactionsProofs` | type correctness and `NoOpenTxLeft`, proved |
| `TransactionsContract` | the refinement of `TxContract`, proved |
| `TransactionsSafety` | the other safety invariants of `Transactions`, proved |
| `Routing` | `HashRing`, `ModRouter`, `TimeRouter` as functions of the shard key |
| `MCRouting` | `Routing` compared with the loops and the binary search of the code |
| `RoutingProofs` | three theorems about the routers |

Operators named `X_Something` are deliberately wrong variants of the operator
`X`; substituting one for `X` makes a property fail, which shows that the
property depends on the code and not on the shape of the model. No specification
uses them.

### PkCache

A row is the *stamp* of the write that made it, so two contents are equal exactly
when their stamps are; stamp 0 (`Absent`) is "no such row", cached as
`"__null__"`, `Miss` is "no entry" and `Failed` an error.

| variable | code |
|---|---|
| `db`, `clock`, `history` | committed rows, next stamp, and every stamp ever committed (history variable) |
| `redis`, `l1` | the entries under `PkKey` in Redis and in each process's `L1Cache` |
| `leader` | the flight of `sf` for a key of a process |
| `pc`, `key`, `val` | where a goroutine's call is, its argument, the value it holds |
| `open`, `own`, `hooks` | `TxContext`: open or not, uncommitted rows, `AfterCommit` |
| `floor`, `excused` | history variables of the properties |

| action | code |
|---|---|
| `GetByPK` = `HitL1` or `MissL1` | start of `GetByPK` and the L1 lookup |
| `GetRedis`, `FillL1` | the first Redis lookup and the copy of its hit to L1 |
| `SfDo` = lead or `Follow` | `sf.Do` |
| `Recheck`, `Load`, `SetRedis`, `SetL1` | the function given to `sf.Do` |
| `Share`, `Return` | its result goes to leader and followers, who return |
| `Update`, `UpdateNoRow`, `Insert` | the statement, then `AfterCommit` of the closure |
| `AwaitLock`, `LockEnds` | a write outside transactions waits for the row's lock; it goes on, or fails |
| `UpdateUnacked` | an `Update` outside transactions is applied, but answered with an error |
| `Begin`, `Commit`, `CommitFails`, `Rollback` | `Transaction` and `DefaultTxManager` |
| `DelRedis`, `DelL1` | the closure of `Update` and `UpdateByPKWithTx`, key by key |
| `RedisExpire`, `L1Expire`, `Crash` | TTLs, process death |

Decisions:

- A read in a transaction skips both Redis lookups and caches nothing, but looks
  in L1 first and goes through singleflight, exactly as in the code.
- A hit of the second lookup is returned without being copied to L1.
- The first lookup's Redis error is the caller's error; the second's falls
  through to the database; those of `Set` and `Del` are ignored.
- The database is read committed with row locks held to the end of the
  transaction. With snapshot reads only a transaction's own queries would differ,
  and what they return is not cached. The database and the connection pool are
  external: a statement outside a transaction needs one of
  `MaxOpenConns` connections, and a write has it while it waits for a row's lock; a
  transaction holds one (`Holders`). Only `Writers` write.
- `Insert`'s closure increments the list version only, so it is invisible here.
  The library has no delete operation.
- The optimistic lock and the extra conditions of `Update` decide only whether a
  row changes; an update that changes none returns without any effect.
  `UpdateByPKWithTx` registers its closure even then (`UpdateNoRow`).
- Faults: `"redis"` any Redis call fails, `"db"` the query fails, `"commit"` the
  commit, or a statement outside transactions, returns an error though it may have
  been applied, `"crash"` a process dies.
- `Share` is one step because singleflight forgets the call and publishes the
  result under its mutex. A follower stays one until then.
- An expired L1 item is one that is not there.
- Each goroutine uses a `BaseModel` of its own; `Transactions` has shared ones.

### ListCache

The table is a stamp that each committed write increments; a query result is the
stamp it saw, and count and page are two queries. `lists[w]` is the entry whose
key contains version `w`; entries are never deleted, only left behind and
expired. `GetList`, `ReadVersion`, `InitVersion`, `GetEntry`, `Count`,
`SelectPKs`, `SetEntry` are `GetList` with `ListKey` and `getListVersion` in
their order; `Commit` is any committed write or transaction with the number of
its hooks; `Incr` is one hook. Fault `"evict"` is Redis losing the version key,
which has no TTL. Uncacheable conditions and reads in transactions only query
the database and are left out. A count of 0 and an empty page end the call
without caching (`Count`, `SelectPKs` going to `"done"`). In the model's `Crash`
each goroutine is a process of its own, which allows more than the code does.

### BatchGet

`batchGetByPK` and `batchGetByPKFromDB`, the second half of `GetList`. The loops
over slices of the page are sets of positions still to be treated (`left`), from
which each round takes the first ones (`FirstOf`, `Round`): `MGet` is a round of
Redis, `Query` one of the database, `Store` the storing of one missing key, found
rows first. `missing`, `rows` and `got` are `missing`, the `resultMap` of the
queries and the `resultMap` of the call. `hidden` is a history variable: the keys
without a row when the call began, or with `"__null__"` in Redis since. A failed
Redis batch makes all its keys missing, a failed query ends the call, an error of
`Set` is ignored. Updates and inserts are those of `PkCache` without transactions
and without L1, which `batchGetByPK` does not know. An entry that cannot be
decoded is left out, since the library writes none.

The modules share no variable: primary-key entries and list entries have
different Redis keys, and the closure touches them one after the other. The
entries of `PkCache` and `BatchGet` are the same ones; a `GetByPK` without L1
fills them as a page of one key does, and `StaleRowExplained` is the same
statement in both. What a list shows of a row that is newer than its page would be
their composition (section 5).

### LookupCache

`GetByUnique`, `GetByConditions` and the entries `t:uk:..` and `t:ck:..`, which map
a lookup key to a primary key or to `"__null__"` (`None`). A row is its content as
far as lookups see it; `Selected[k]` are the contents that key `k` selects, so the
same conditions in another order are another key that selects the same.

| variable | code |
|---|---|
| `table`, `own` | committed rows, and those of an open transaction |
| `maps` | the mapping entries in Redis |
| `pc`, `key`, `found` | a goroutine's lookup, its key and its answer so far |
| `open`, `dels` | `TxContext`, and the conditions its hooks will delete |
| `truths`, `overtaken`, `excused`, `nulls` | history variables of the properties; `nulls` are the keys whose `"__null__"` a failed query left |

| action | code |
|---|---|
| `GetByUnique`, `GetByConditions` | start of the lookup; in a transaction straight to the query |
| `GetMapping` | the Redis lookup: a hit, a miss, or an error for the caller |
| `QueryUnique`, `getPKByConditions` | the query for the primary key |
| `StoreMapping`, `StoreNull` | `Cache.Set` of the answer; `"__null__"` also after a failed query |
| `Return` | the lookup hands its primary key to `GetByPK`, where the model ends |
| `Update`, `Insert`, `Begin`, `Commit`, `Rollback` | as in `PkCache`, with what they delete of the mappings |
| `UpdateUnacked` | as in `PkCache` |
| `delCondCache` | the hook of `Update` with conditions |
| `Expire`, `Crash` | the TTL of a mapping, process death |

There is no singleflight and no L1 in these lookups. The row itself is fetched by
`GetByPK` (`cache_get.go:182`, `260`), which `PkCache` models and which asks L1
first in a transaction too, so that this module speaks of primary keys only.
`Update` deletes only the mapping of the very conditions it was given, `Insert` and
`UpdateByPKWithTx` none, so that a wrong mapping is normal; `WrongMappingExplained`
says which ones are not possible. Unique indexes hold in the database (`Admits`),
also for rows that open transactions have written (`Unlocked`). The hooks delete in
any order. The model's `Crash` is that of one goroutine, as in `ListCache`.

### Transactions, RequestIds, TxContract

A server that uses the library: workers take requests, call `Transaction`, start
goroutines with `log.Go` that use the same context, and read and write through a
`BaseModel`. A table is the number of suffixes that routing has added to the
model's table name; the content of rows and caches does not appear.

| variable | code |
|---|---|
| `phase`, `hooks` | the database's transactions, and `TxContext.AfterCommit` |
| `mctx`, `mdb`, `mtable` | `ctx` (its transaction), `Db` and `table` of a `BaseModel` |
| `modelOf`, `routed`, `limit` | the setup: who uses which model, what its router returns, bounds |
| `pc`, `req`, `base`, `stack`, `child` | a goroutine, its context and its nested calls of `Transaction` |
| `cur`, `loaded`, `queue` | the local variables of `AfterCommit`'s append and of the loop over hooks |
| `ids`, `children` | `reqIdMap` and `childCounters` |
| `writes`, `log`, `last`, `crossed`, `shared`, `panicked`, `unacked`, `left` | history variables |

| action | code |
|---|---|
| `Serve`, `End`, `GoSafe` | the server's goroutine, `log.Go` with its deferred clean-up |
| `Transaction`, `BeginFails` | `BindCtx` and `Begin` in `CacheDB.Transaction` |
| `Rollback`, `Commit`, `CommitFails`, `FnPanics` | what follows `fn` |
| `RangeHooks`, `runAfterCommit`, `HookPanics`, `CommitReturns` | the loop over the hooks |
| `Update`, `getDB`, `Exec`, `ExecFails` | `WithContext`, `getDB` and the statement of a write |
| `ExecUnacked` | a statement outside transactions is applied, but answered with an error |
| `AfterCommit`, `AppendHook` | running or registering the invalidation: load the slice, store it extended |
| `InlineHookPanics` | a hook of the application panics in an invalidation that runs at once |
| `Read` | `GetByPK`, in one step: only what it leaves in the model and its `BindCtx` matter |

Decisions:

- The model object is written in `WithContext` and `getDB` and read again by the
  statement, by `AfterCommit` and by the invalidation. These are separate steps,
  because nothing locks the model. Fields that nobody reads before they are
  written again are set to `NoTx` (`Leaves`, `EndUse`), which only merges states.
- `append` to `AfterCommit` is a load and a store, because goroutines that share a
  transaction do it without a lock. `range` reads the slice once. The store is that of
  a copy: Go's `append` allocates while the list has fewer than three elements (its
  capacities are 1, 2, 4), and later writes into the spare capacity, which nobody can
  tell from a copy as long as one goroutine appends. A transaction with hooks of
  several goroutines has therefore at most `MaxShared` of them, an assumption of the
  module (at most 3) and not only a bound of the run. What happens beyond - an append
  that overwrites an element of a list that is being run - is not modelled, nor is
  a slice header that is read while it is written.
- `GetByPK` binds the request id of its context before it asks whether it is in a
  transaction (`cache_get.go:47`, `62`), and the lookups end in it. A goroutine that a
  nested `Transaction` or `log.Go` has left without an id thereby gets that of the
  request, and nobody clears it (`left`).
- Failures are part of a setup (`limit.faults`), since they do not all concern the
  same setups.
- A nested `Transaction` begins an independent one, and its release clears the
  request id that the outer call has bound. A panic runs only the deferred release.
- A router that returns a database replaces the transaction's connection.
- A goroutine started in `fn` may outlive it: its statement then fails, or its hook
  is registered when nobody will run it.
- `TxContract` makes no promise that a hook runs, since panics, failed commits and
  lost appends prevent it. `InvalidationsDone` says exactly when one may be missing.
- The comment at `base_model.go:60` calls `WithContext` a shallow copy that is safe
  for concurrent use. The code returns the same object. `crossed` marks the uses of
  a model that overlap another's; `StatementsStayInTx` and `NothingInvalidatedEarly`
  except them, and are violated without that exception.

### Routing

The routers are functions; `HashRing` gives the empty key (`NoKey`) no database and
leaves the table alone. `hashKeys` and `hashMap` are a ring as a set and a function
where the code has a sorted list with duplicates and a map; `MCRouting` writes out
the loops and `sort.Search` and has TLC compare both for every ring of three
databases with hashes up to 2. `Points` stands for crc32, any hash function. A key
that cannot be parsed becomes 0 (`ModRouter`) or January of year 1 (`TimeRouter`).
`MCTransactions` extends `MCRouting`, so its run evaluates this.

## 3. The runs

| run | instance | shows |
|---|---|---|
| `PkCacheSafety` | 1 process, 3 goroutines of which 2 write and 1 has transactions, pool of 3, 1 row, L1, query errors | `TypeOK`, `CachedWasCommitted`, `StaleRowExplained`, `LoadsOnlyOnMiss`, `FlightsProceed` |
| `PkCacheFaults` | 2 processes, 2 keys of which one has no row, pool of 1, all faults, no L1 | `CachedWasCommitted`, `StaleRowExplained`, `DirtyReadsStayLocal` |
| `PkCacheLiveness` | 1 process, 2 goroutines, a row that is inserted and then updated, pool of 3, L1, all faults, fairness | `EventuallyCoherent`, `ReadsReturn` |
| `ListWarm` | 3 goroutines, version 1 present, errors of queries and commits, crashes | `TypeOK`, `ListFresh`, `ListReadsFresh` |
| `ListFaults` | 2 goroutines, empty Redis, all faults, fairness | `EventuallyFresh` |
| `BatchLoads` | 2 goroutines, 3 keys of which one has no row, one page of all, batches of 2, errors | `TypeOK`, `NoRowLost`, `RightRow`, `StaleRowExplained` |
| `Lookups` | 2 goroutines, 1 in transactions, 2 rows of which one is missing, a unique key and conditions for the same rows, all faults, fairness | `TypeOK`, `MappingWasCommitted`, `WrongMappingExplained`, `AnswersWereTrue`, `LookupsSeeOwnWrites`, `EventuallyRight` |
| `Requests` | a worker and a goroutine it starts, one model or two with routers, 2 transactions, pool of 2, panics, failing begins and commits | `TypeOK`, `StatementsStayInTx`, `NothingInvalidatedEarly`, `InvalidationsDone`, `NoOpenTxLeft`, `IdOfOwnRequest`, `HooksKeepContract` |

Bounds. Stamps stop at `MaxStamp`: three give the initial row and two writes, enough
for a write to overtake a load and a second one to overtake the first's
invalidation. `MaxHooks` is 2 so that hooks of one transaction interleave with other
calls between them. Three goroutines are a writer, a leader and a follower (or a
second reader). Two keys matter where a transaction has hooks of several keys and
where a row may be missing; two processes where L1, flights and crashes are not
shared. The pool of one connection makes transactions and loads exclude each other.
`PkCacheLiveness` starts without the row, so that a `"__null__"` cached before the
insert, which deletes nothing, has to end by its TTL. In `ReadsReturn` and
`FlightsProceed` the pool must be larger than the number of goroutines that write
(`PoolSuffices`), each of which may have a connection while it waits: a transaction
in singleflight for a leader that waits for a connection, and a write outside
transactions for the lock of that transaction. The pool of 3 with two writers in
`PkCacheSafety` is the smallest that suffices: with 2, one of each leaves the leader
none, and all three stay.

A page of three keys and batches of two give a full and a short batch, in Redis and
in the database.

`Lookups` writes twice: a row leaves the selection and another enters it, or a
commit overtakes a query whose answer is then stored over a deletion.
`EventuallyRight` excepts the keys in `nulls` and no other, though queries fail in
this run. `MCTransactions` lists the setups of `Requests`: two transactions of one
worker (nested or in turn), two goroutines in one transaction (for the appends that
lose a hook), and two goroutines that share a model in two transactions (for the
crossed contexts); `limit` bounds each of them, and names its faults. `MaxShared` is
the 3 that the module allows. `MaxRoutes` of 2 lets a table be routed again between
a write and its invalidation.

Symmetry is used for instances of `ListCache` and `BatchGet` without temporal
properties only.

Deadlock is checked everywhere except in `Requests`, where the bounds of a setup stop
the workers, and where a statement that a shared model or a router has diverted from
its transaction may wait for a connection for good (the reason for
`StatementsStayInTx`).

Fairness. Weak fairness of each goroutine's `Step` is the Go scheduler running a
call in progress (and every remote call answering, with a result or an error).
Weak fairness of the expiry actions is that TTLs are finite: `NewCacheDb`
replaces every zero TTL by a default. In `LookupCache` these are `Step` and `Expire`.
`Transactions` has no liveness property. Nothing is assumed of the application: it
need not start calls nor end transactions. Since stamps are bounded, the
temporal properties speak of what follows the last write.

### Statements the code does not keep

Four runs check a sentence of the documentation and find a behaviour against it.

- `TxReadsOwnWrites` - `README.md:432` says queries in a transaction do not read
  the caches, so that they see their own writes. `GetByPK` reads L1 before it asks
  (`cache_get.go:51`): update a row in a transaction while L1 holds it, read it
  back, get the old row.
- `NoDirtyRead` - `README.md:68` has invalidation wait for the commit to avoid
  dirty reads. A caller outside the transaction that joins the transaction's
  flight (`cache_get.go:85`) returns the uncommitted row. `DirtyReadsStayLocal` says
  that this is the only way: no other process sees the row, and no cache has it.
- `ReadsAreFresh` - `README.md:431` recommends disabling L1 for strong
  consistency. A load that queried before an update stores the old row after the
  update's deletion (`cache_get.go:128`), and reads return it until the TTL.
- `ListColdStart` - `cache_db.go:150` describes the initialisation of the
  version. It is Get then Set 1; a Set that comes after increments moves the
  version back (`cache_db.go:151`), to where a list from before them may be.

`StaleRowExplained` says that apart from the race of `ReadsAreFresh`, and from
failures, nothing leaves an outdated row in Redis; `ListFresh` holds once the version
exists. Of `GetByUnique` and `GetByConditions` in a transaction the checks say that the
primary key they find agrees with the transaction's writes (`LookupsSeeOwnWrites`); the
row under it comes from `GetByPK`, so `TxReadsOwnWrites` is about them as well.

## 4. The proofs

The eight proof modules are checked by TLAPS (SMT, Zenon, LS4) for every value of the
constants allowed by the modules' `ASSUME`s, which TLC evaluates in every run.

`PkCacheProofs`:

- `TypeCorrect`: `Spec => []TypeOK`. `TypeOK` alone is not inductive: a step after
  the query would have to know that what it stores is a row and not an error, and
  `DelRedis` that there is a hook. `TypeInv` adds the control facts (`Control`).
- `OnlyCommittedCached`: `Spec => []CachedWasCommitted`. `CommittedInv` adds that
  what a goroutine is about to store was committed, and what it took from a cache
  too; `TxInv` that uncommitted rows and hooks belong to open transactions and
  that a goroutine with an open transaction is never on the storing path.
- `OutdatedExplained`: `Spec => []StaleRowExplained`. `ExplainInv` follows every
  difference between Redis and the database back to a pending deletion, and every
  stale row on its way to Redis likewise.
- `LoadsAnswerMisses`: `Spec => []LoadsOnlyOnMiss`. `FlightInv` says that a
  goroutine between `recheck` and `share` is the leader of its key, hence unique
  in its process, so nobody else can have stored the entry meanwhile.
- `NobodyIsStranded`: `Spec => []FlightsProceed`, the safety half of `ReadsReturn`.
  `WaitInv` says that every flight has its leader, running the function for its key in
  its process, and that whoever waits does so for a flight. `PoolLeavesConn` counts:
  whoever holds a connection, in a transaction or waiting for a row's lock, is among
  `Writers` (`Holders`), so a larger pool has a connection for the leader.
- `UncommittedStaysLocal`: `Spec => []DirtyReadsStayLocal`. `DirtyInv` adds that the
  result of a flight outside transactions was committed; with `CommittedInv` an
  uncommitted result can only have come from a flight led in a transaction.
- `NoDirtyReadWithoutTx`: in a process without transactions `NoDirtyRead` holds, which
  the code does not keep in general.
- `AloneReadsCurrentRows`: a goroutine that is alone, meets no fault, and does not have
  both L1 and transactions (`Alone`) is given the current row whenever it is given one:
  apart from a `"__null__"` that `Insert` leaves in place, the three statements of
  section 3 about rows fail only by concurrency, failures or that combination.
  `AloneInv` says that no key is excused and that an outdated L1 entry has
  its deletion still ahead; `ExplainInv` gives the rest.

`ListCacheProofs`, the second and third under `Warm` (the version exists at the start
and is not evicted; `ListColdStart` shows that this is needed):

- `TypeCorrect`: `Spec => []TypeOK`, with the control state that says how many
  hooks are left.
- `CurrentListIsFresh`: `Spec => []ListFresh`. `VersionInv` says that no goroutine
  holds and no entry has a version above the current one; `FreshInv` that whatever
  is stored, or about to be, under the current version is as new as the table when
  every write has been followed by its increment.
- `ListReadsAreFresh`: `Spec => []ListReadsFresh`. `FloorInv` carries the stamp at
  the start of a read through the version, the entry and the queries.
- `AloneReadsCurrentList`: a goroutine that is alone and meets no fault but failing
  queries is given the list of the table as it is, from an absent version too: what
  `ListColdStart` shows needs a second goroutine. `AloneInv` says that versions grow
  from 1 and that the current one has no other list.

`BatchGetProofs`, for any pages and sizes of the batches:

- `TypeCorrect`: `Spec => []TypeOK`; `Control` adds which positions are left when.
- `RowsAreRight`: `Spec => []RightRow`. `RowInv` adds that a row found was committed
  under its key and that a key asked for and not found (`Asked`) had no row at the
  start, so that `"__null__"` may be stored for it.
- `NoRowIsLost`: `Spec => []NoRowLost`. `TrackInv` says where each position of the
  page is during the call - in the result, still to be treated, or missing - and
  `HiddenInv` that keys which are not hidden have a row that Redis does not deny.
- `StaleRowsExplained`: `Spec => []StaleRowExplained`, from `ExplainInv` and `RowInv`
  (an insert cannot make a stored row outdated, because none was stored).

`LookupCacheProofs`, for any keys and any selections:

- `TypeCorrect`: `Spec => []TypeOK`. `TypeInv` adds that a goroutine in a lookup has a
  key.
- `MappingsCommitted`: `Spec => []MappingWasCommitted`. `TxInv` says that own rows and
  lookups on the storing path exclude each other, `CommittedInv` that what is about to
  be stored was an answer of the committed table or a failure.
- `WrongMappingsExplained`: `Spec => []WrongMappingExplained`. `RightInv` says that an
  answer which no commit has overtaken is still right.
- `LookupsTellCommitted`: `Spec => []AnswersWereTrue`, and `LookupsReadOwnWrites`:
  `Spec => []LookupsSeeOwnWrites`. `AnswerInv` has both, for the primary key   that
  is handed to `GetByPK`, and that no call in a transaction is about to ask Redis;
  `TruthsGrow` that a true answer stays one that was   true.

`TransactionsProofs`, for any goroutines, models and setups:

- `TypeCorrect`: `Spec => []TypeOK`. `TypeInv` adds that writes, hooks and transactions
  named by local variables exist and that who runs hooks is in a `Transaction` call.
- `OpenTxsHaveCalls`: `Spec => []NoOpenTxLeft`. `StackInv` says that a transaction is on
  one stack at most once, that all on a stack are open but the one that is being ended,
  and that nothing is on the stack of a goroutine that is off. The step lemma reduces
  all actions to five kinds: none, push, commit, pop, unwind.

`TransactionsContract`:

- `KeepsContract`: `Spec => HooksKeepContract`, that is, `Transactions` implements
  `TxContract` with `clock` as the length of `log` and `registered` as the hooks logged
  for a transaction. `BegunInv` says that hooks and calls belong to transactions that
  have begun; `OrderInv` that the lists of hooks, loaded copies and queues are
  increasing, belong to one transaction, and that what is in a queue comes after what
  has run. Each action is then a step of the contract or a stutter. The theorem
  holds for any number of hooks in a transaction of one goroutine, and for up to
  `MaxShared` (at most 3) in one of several, where `append` copies.

`TransactionsSafety`, for any goroutines, models, routing, limits and faults. TLC
checked the inductive invariants of the four run properties on the instance of
`Requests`:

- `LogsOwnRequest`: `Spec => []IdOfOwnRequest`. `IdInv` adds that who has an id which no
  query left is in a call of `Transaction` or was given it by `log.Go`: these release
  it. Without that, a goroutine could keep its id when its request ends. Excepted are
  ids that a query has bound, in a transaction or not (`left`).
- `SharedIdIsRequestId`: `Spec => []ChildIdsDiffer`. Two goroutines may log under the id
  of a request, since queries bind it, but an id that `log.Go` made is that of one
  goroutine. `ChildIdsAreFresh`: `Spec => FreshChildId`, an action property: when
  `log.Go` makes an id, no goroutine has it. The instance of `Requests` has one started
  goroutine, so these are stated in the proof module. `Numbered` says that the counter
  of an id is never behind a child that is alive. `ResetChildCounter`, which the library
  does not call, would break it.
- `StatementsInTx`: `Spec => []StatementsStayInTx`. `UseInv` adds that of two goroutines
  whose uses of one model overlap both are marked, that without a mark the model still
  has the context its user put there, and that a model with a database of its own never
  holds a transaction.
- `InvalidatesAfterCommit`: `Spec => []NothingInvalidatedEarly`. `WriteInv` follows a
  write through its life - held by one goroutine, then in the log of hooks, then
  invalidated - and `FateInv` says that the transaction of its hook is its own unless it
  is marked or went around the transaction. `OrderInv` and `StackInv` then give the
  commit.
- `NoInvalidationLost`: `Spec => []InvalidationsDone`. `LoadedInv` says that what a
  goroutine has loaded is still the list unless the transaction is shared, `ListedInv`
  that every registered hook is in the list, and `RanInv` that after the commit each one
  has run or is in the queue of the goroutine that commits, unless the transaction is
  `Lossy`: shared, left by a panic, or committed without an answer. Outside transactions
  the reasons are a statement without an answer and a hook of the application that
  panics in an invalidation that runs at once.

`RoutingProofs`, for any hash function and any number of databases:

- `RoutesIntoRing`: a ring with points sends each key to a database of the ring.
- `GrowthMovesKeysToNewOnly`: with one more database a key stays where it was or goes
  to the new one. The proof compares the searches: when the larger ring finds an old
  point, the smaller one finds the same.
- `ModRouterTables`: `ModRouter` is the remainder by 64 for natural keys; a negative
  key has a suffix from -63 to 0, which is 0 exactly for the multiples of 64. These are
  at most 127 tables.

Every safety invariant of the passing runs and the refinement is thus a theorem.
Model-checked only: the liveness properties `EventuallyCoherent`, `ReadsReturn`,
`EventuallyFresh` and `EventuallyRight` (fairness and ENABLED are out of the prover's
reach); the agreement of `Routing` with the recursive definitions of `MCRouting`
(RECURSIVE, and induction over the ring); and, necessarily, the four counterexamples.

## 5. Not modelled, and the plan

Not modelled, with the reason:

- `rows.Err` is never looked at in `list_db.go:94`, so an error that ends the rows
  early yields a short page. In `ListCache` a page is the stamp of the table it was
  read from and has no rows that could be missing.
- The composition of `ListCache` and `BatchGet`, a list with its rows: each part is
  checked on its own, and the product exceeds what TLC explores with useful bounds.
- The setters of `BaseModel` (TTLs, seed, shard key) as steps: they are calls at the
  start. A seed that is not positive makes `rand.Intn` panic; such arguments are left
  out.
- The list of hooks beyond `MaxShared` when several goroutines append to it, and the
  three words of a slice header: see the decisions of `Transactions`.
- The row that a lookup returns: `LookupCache` ends at the primary key, and `PkCache`
  has what `GetByPK` makes of it. Their composition is left out for its size.
- Entities as shared pointers: L1 and `singleflight` give one pointer to many
  callers, and a caller that changes it changes the cache. Rows are values here.
- `MetricsHook`: its total is incremented before its hits and read after them, so
  that a snapshot never shows more hits than queries. Nothing in the library reads it.
- Building keys: that keys are one-to-one is assumed. It is not so for `ListKey` when
  routed tables end in digits (`key_builder.go:66` joins table and version).
- Query building, validation, JSON, log levels and formats: without state.
- GORM, `database/sql`, Redis, `singleflight`, crc32: modelled from how the library
  uses them. Examples, tests and mocks are not part of it.

What could still be proved is the safety half of the other liveness properties, as
`FlightsProceed` is that of `ReadsReturn`: that a call which begins after the last write
stores nothing but what it has queried since then, so that only entries whose TTL is
running are wrong (`EventuallyCoherent`, `EventuallyFresh`, `EventuallyRight`).
