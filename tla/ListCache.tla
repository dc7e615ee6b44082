------------------------------ MODULE ListCache ------------------------------
(***************************************************************************)
(* The cached lists of one table: GetList for one set of conditions and    *)
(* one page, and the list version that Update, UpdateByPKWithTx and Insert *)
(* increment after their commit.  A list entry is never deleted: its key   *)
(* contains the version, and a new version leaves it behind.               *)
(*                                                                         *)
(* The content of the table is abstracted to a stamp that every committed  *)
(* write increments; a query result is the stamp it was taken at.  The     *)
(* count and the page of primary keys are two queries.                     *)
(***************************************************************************)
EXTENDS Integers, FiniteSets

CONSTANTS
    Goroutines,
    InitialVersion, \* the version in Redis at the start, 0 when it has none
    MaxStamp,       \* bound: committed writes
    MaxHooks,       \* bound: hooks of one transaction
    Faults          \* the faults that may occur, among FaultKinds

FaultKinds == {"redis", "db", "commit", "crash", "evict"}

ASSUME ListCacheAssumption ==
    /\ InitialVersion \in Nat
    /\ MaxStamp \in Nat
    /\ MaxHooks \in Nat
    /\ Faults \subseteq FaultKinds

Stamps == 0 .. MaxStamp

Entries == [total : Stamps, pks : Stamps]

VARIABLES
    table,      \* stamp of the committed table
    ver,        \* the value of ListVersionKey in Redis, 0 when absent
    lists,      \* lists[v]: the entry under the ListKey of version v
    pc,         \* where a goroutine is, "idle" between calls
    v,          \* the version its GetList uses
    res,        \* what its GetList has read, and returns at "done"
    floor,      \* history variable: the stamp it may not fall behind
    todo,       \* how many of its invalidation hooks are left to run
    missed      \* history variable: a committed write has lost its Incr

reader == <<v, res, floor>>
vars   == <<table, ver, lists, pc, v, res, floor, todo, missed>>

PCs == {"idle", "version", "init", "get", "count", "pks", "set", "done", "incr"}

TypeOK ==
    /\ table \in Stamps
    /\ ver \in Nat
    /\ DOMAIN lists \subseteq Nat
    /\ \A w \in DOMAIN lists : lists[w] \in Entries
    /\ pc \in [Goroutines -> PCs]
    /\ v \in [Goroutines -> Nat]
    /\ res \in [Goroutines -> Entries]
    /\ floor \in [Goroutines -> Stamps]
    /\ todo \in [Goroutines -> Nat]
    /\ missed \in BOOLEAN

Nothing == [total |-> 0, pks |-> 0]

Init ==
    /\ table = 0
    /\ ver = InitialVersion
    /\ lists = [w \in {} |-> Nothing]
    /\ pc = [g \in Goroutines |-> "idle"]
    /\ v = [g \in Goroutines |-> 0]
    /\ res = [g \in Goroutines |-> Nothing]
    /\ floor = [g \in Goroutines |-> 0]
    /\ todo = [g \in Goroutines |-> 0]
    /\ missed = FALSE

-----------------------------------------------------------------------------
(* Helpers *)

Goto(g, from, to) == pc[g] = from /\ pc' = [pc EXCEPT ![g] = to]

(* Every committed write has been followed by an increment.                *)
Quiet == ~missed /\ \A g \in Goroutines : todo[g] = 0

(* The variables of g's call are gone.                                     *)
Forget(g) ==
    /\ v' = [v EXCEPT ![g] = 0]
    /\ res' = [res EXCEPT ![g] = Nothing]
    /\ floor' = [floor EXCEPT ![g] = 0]

Put(w, e) ==
    lists' = [x \in DOMAIN lists \cup {w} |-> IF x = w THEN e ELSE lists[x]]

-----------------------------------------------------------------------------
(* GetList outside a transaction, with cacheable conditions *)

GetList(g) ==
    /\ Goto(g, "idle", "version")
    /\ floor' = [floor EXCEPT ![g] = IF Quiet THEN table ELSE 0]
    /\ UNCHANGED <<table, ver, lists, v, res, todo, missed>>

(* A mutant: the version is not read, the first one is used for ever.      *)
ReadVersion_Fixed(g) ==
    /\ Goto(g, "version", "get")
    /\ v' = [v EXCEPT ![g] = 1]
    /\ UNCHANGED <<table, ver, lists, res, floor, todo, missed>>

(* getListVersion: the version, or 1 when Redis fails.                     *)
ReadVersion(g) ==
    /\ \/ /\ ver # 0
          /\ Goto(g, "version", "get")
          /\ v' = [v EXCEPT ![g] = ver]
       \/ /\ ver = 0
          /\ Goto(g, "version", "init")
          /\ UNCHANGED v
       \/ /\ "redis" \in Faults
          /\ Goto(g, "version", "get")
          /\ v' = [v EXCEPT ![g] = 1]
    /\ UNCHANGED <<table, ver, lists, res, floor, todo, missed>>

(* ... the key was absent: set it to 1, whatever it is by now.             *)
InitVersion(g) ==
    /\ Goto(g, "init", "get")
    /\ v' = [v EXCEPT ![g] = 1]
    /\ ver' = 1 \/ ("redis" \in Faults /\ UNCHANGED ver)
    /\ UNCHANGED <<table, lists, res, floor, todo, missed>>

(* A mutant: a hit is stored again, so that its TTL starts anew.           *)
GetEntry_Refreshes(g) ==
    /\ \/ /\ v[g] \in DOMAIN lists
          /\ Goto(g, "get", "set")
          /\ res' = [res EXCEPT ![g] = lists[v[g]]]
       \/ /\ v[g] \notin DOMAIN lists \/ "redis" \in Faults
          /\ Goto(g, "get", "count")
          /\ UNCHANGED res
    /\ UNCHANGED <<table, ver, lists, v, floor, todo, missed>>

(* Cache.Get of the ListKey; every error is a miss.                        *)
GetEntry(g) ==
    /\ \/ /\ v[g] \in DOMAIN lists
          /\ Goto(g, "get", "done")
          /\ res' = [res EXCEPT ![g] = lists[v[g]]]
       \/ /\ v[g] \notin DOMAIN lists \/ "redis" \in Faults
          /\ Goto(g, "get", "count")
          /\ UNCHANGED res
    /\ UNCHANGED <<table, ver, lists, v, floor, todo, missed>>

(* A query failed: GetList returns the error.                              *)
QueryFails(g) ==
    /\ "db" \in Faults
    /\ pc[g] \in {"count", "pks"}
    /\ pc' = [pc EXCEPT ![g] = "idle"]
    /\ Forget(g)
    /\ UNCHANGED <<table, ver, lists, todo, missed>>

(* The total.  When it is 0 GetList returns at once and caches nothing.    *)
Count(g) ==
    /\ Goto(g, "count", "pks") \/ Goto(g, "count", "done")
    /\ res' = [res EXCEPT ![g] = [total |-> table, pks |-> table]]
    /\ UNCHANGED <<table, ver, lists, v, floor, todo, missed>>

(* The primary keys of the page.  An empty page is not cached.  A page cut *)
(* short by an error that ends the rows early, which the code does not     *)
(* look at, is taken for a whole one: its stamp is the same.               *)
SelectPKs(g) ==
    /\ Goto(g, "pks", "set") \/ Goto(g, "pks", "done")
    /\ res' = [res EXCEPT ![g].pks = table]
    /\ UNCHANGED <<table, ver, lists, v, floor, todo, missed>>

(* A mutant: the entry is stored under the version current by now.         *)
SetEntry_CurrentVersion(g) ==
    /\ Goto(g, "set", "done")
    /\ Put(ver, res[g])
    /\ UNCHANGED <<table, ver, reader, todo, missed>>

(* Cache.Set of the list, under the version read at the beginning.         *)
SetEntry(g) ==
    /\ Goto(g, "set", "done")
    /\ Put(v[g], res[g]) \/ ("redis" \in Faults /\ UNCHANGED lists)
    /\ UNCHANGED <<table, ver, reader, todo, missed>>

Return(g) ==
    /\ Goto(g, "done", "idle")
    /\ Forget(g)
    /\ UNCHANGED <<table, ver, lists, todo, missed>>

-----------------------------------------------------------------------------
(* Writes *)

(* A write commits, alone or with others in a transaction; one hook for    *)
(* each is then to increment the version.                                  *)
Commit(g) ==
    /\ Goto(g, "idle", "incr")
    /\ table < MaxStamp
    /\ table' = table + 1
    /\ \E n \in 1 .. MaxHooks : todo' = [todo EXCEPT ![g] = n]
    /\ UNCHANGED <<ver, lists, reader, missed>>

(* The database committed, but Commit returned an error: no hook runs.     *)
CommitUnacked(g) ==
    /\ "commit" \in Faults
    /\ Goto(g, "idle", "idle")
    /\ table < MaxStamp
    /\ table' = table + 1
    /\ missed' = TRUE
    /\ UNCHANGED <<ver, lists, reader, todo>>

(* A mutant: the loop over the hooks runs one too many.                    *)
Incr_OneMore(g) ==
    /\ Goto(g, "incr", IF todo[g] = 0 THEN "idle" ELSE "incr")
    /\ todo' = [todo EXCEPT ![g] = @ - 1]
    /\ \/ ver' = ver + 1 /\ missed' = FALSE
       \/ "redis" \in Faults /\ missed' = TRUE /\ UNCHANGED ver
    /\ UNCHANGED <<table, lists, reader>>

(* Cache.Incr, which creates the key when it is absent; errors are ignored.*)
Incr(g) ==
    /\ Goto(g, "incr", IF todo[g] = 1 THEN "idle" ELSE "incr")
    /\ todo' = [todo EXCEPT ![g] = @ - 1]
    /\ \/ ver' = ver + 1 /\ missed' = FALSE
       \/ "redis" \in Faults /\ missed' = TRUE /\ UNCHANGED ver
    /\ UNCHANGED <<table, lists, reader>>

-----------------------------------------------------------------------------
(* Time and failures *)

(* The TTL of an entry ends.                                               *)
EntryExpire(w) ==
    /\ w \in DOMAIN lists
    /\ lists' = [x \in DOMAIN lists \ {w} |-> lists[x]]
    /\ UNCHANGED <<table, ver, pc, reader, todo, missed>>

(* Redis loses the version key, which has no TTL of its own.               *)
VersionEvicted ==
    /\ "evict" \in Faults
    /\ ver # 0
    /\ ver' = 0
    /\ UNCHANGED <<table, lists, pc, reader, todo, missed>>

(* The process of g dies, with the hooks it had not run.                   *)
Crash(g) ==
    /\ "crash" \in Faults
    /\ pc[g] # "idle"
    /\ pc' = [pc EXCEPT ![g] = "idle"]
    /\ todo' = [todo EXCEPT ![g] = 0]
    /\ missed' = (missed \/ todo[g] > 0)
    /\ Forget(g)
    /\ UNCHANGED <<table, ver, lists>>

-----------------------------------------------------------------------------
Step(g) ==
    \/ ReadVersion(g) \/ InitVersion(g) \/ GetEntry(g) \/ QueryFails(g)
    \/ Count(g) \/ SelectPKs(g) \/ SetEntry(g) \/ Return(g) \/ Incr(g)

Start(g) == GetList(g) \/ Commit(g) \/ CommitUnacked(g)

Next ==
    \/ \E g \in Goroutines : Step(g) \/ Start(g) \/ Crash(g)
    \/ \E w \in DOMAIN lists : EntryExpire(w)
    \/ VersionEvicted

Spec == Init /\ [][Next]_vars

(* No version is above this one: each increment belongs to a write.        *)
MaxVersion == InitialVersion + MaxStamp * MaxHooks + 1

(* The Go scheduler runs calls in progress, and TTLs end.                  *)
Fairness ==
    /\ \A g \in Goroutines : WF_vars(Step(g))
    /\ \A w \in 1 .. MaxVersion : WF_vars(EntryExpire(w))

FairSpec == Spec /\ Fairness

-----------------------------------------------------------------------------
(* Properties *)

(* Once every committed write has been followed by an increment, the entry *)
(* under the current version, if there is one, is the list of the table as *)
(* it is, count and page: no GetList that read an older version, or        *)
(* queried before the write, can have stored there.                        *)
ListFresh ==
    Quiet /\ ver \in DOMAIN lists =>
      lists[ver] = [total |-> table, pks |-> table]

(* A GetList that begins when every committed write has been followed by   *)
(* its increment returns a total and a page at least as new as that, from  *)
(* the cache or from its own queries, whatever is written meanwhile.       *)
ListReadsFresh ==
    "redis" \notin Faults =>
      \A g \in Goroutines :
        pc[g] = "done" => res[g].total >= floor[g] /\ res[g].pks >= floor[g]

(* Whatever happens to the version - errors of Redis answered with version *)
(* 1, an evicted or never written key, lost increments - the TTL bounds    *)
(* it: once writes stop, every cached list is that of the table, for good. *)
EventuallyFresh ==
    <>[](\A w \in DOMAIN lists : lists[w] = [total |-> table, pks |-> table])

=============================================================================
