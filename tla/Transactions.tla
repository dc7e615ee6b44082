----------------------------- MODULE Transactions -----------------------------
(***************************************************************************)
(* A process that serves requests with gorm-cachex: CacheDB.Transaction,   *)
(* DefaultTxManager, the BaseModel through which goroutines use them, and  *)
(* the request ids of the goroutines (module RequestIds).                  *)
(*                                                                         *)
(* A BaseModel is a mutable object: WithContext stores the context in it,  *)
(* getDB the connection and the routed table, and later steps of the same  *)
(* operation read them back.  A goroutine may use a model of its own or    *)
(* share one.  The goroutines that log.Go starts in fn share the context,  *)
(* hence the transaction, of the one that starts them.                     *)
(*                                                                         *)
(* A write is the statement of an Update; its hook is the invalidation of  *)
(* the table it went to.  A table is the number of suffixes routing gave   *)
(* to the name of the model's table.                                       *)
(***************************************************************************)
EXTENDS Integers, Sequences, SequencesExt, FiniteSets

CONSTANTS
    Goroutines, Requests, Models,
    Workers,        \* the goroutines that serve one request after the other
    Setups,         \* which model a goroutine uses, how it is routed, Limits
    MaxOpenConns,   \* size of the connection pool
    MaxTxs,         \* bound: transactions
    MaxDepth,       \* bound: nested calls of Transaction
    MaxRoutes,      \* bound: suffixes of a table
    MaxShared,      \* bound: hooks of a transaction of several goroutines
    NoReq           \* the context carries no request id

FaultKinds == {"begin", "commit", "fnPanic", "hookPanic"}

(* Without a shard key or a router, "none"; a router may return only the   *)
(* name of a table, or a database too.                                     *)
Routings == {"none", "table", "db"}

(* Bounds of a setup: transactions begun, statements, and goroutines       *)
(* started under one request id, and the faults that may occur.  The last  *)
(* statement is the end.                                                   *)
Limits == [txs : Nat, writes : Nat, children : Nat, faults : SUBSET FaultKinds]

ASSUME TransactionsAssumption ==
    /\ Workers \subseteq Goroutines
    /\ Setups \subseteq [modelOf : [Goroutines -> Models],
                         routed : [Models -> Routings], limit : Limits]
    /\ {MaxOpenConns, MaxTxs, MaxDepth, MaxRoutes} \subseteq Nat
    /\ MaxShared \in 0 .. 3
    /\ NoReq \notin Requests

Txs  == 1 .. MaxTxs
NoTx == 0               \* no transaction: the default database

VARIABLES
    phase,      \* phase[t]: where transaction t is
    hooks,      \* hooks[t]: TxContext.AfterCommit, positions in log
    modelOf,    \* the model a goroutine uses
    routed,     \* routed[m]: what the router returns for a model
    limit,      \* the limits of the setup
    mctx,       \* mctx[m]: the transaction in the ctx of a model
    mdb,        \* mdb[m]: its Db, a transaction or NoTx
    mtable,     \* mtable[m]: its table
    pc,         \* where a goroutine is, "off" when there is none
    req,        \* the request id in its context
    base,       \* the transaction in the context it was started with
    stack,      \* the calls of Transaction it is in, innermost last
    child,      \* GoSafe gave it a request id
    cur,        \* its write and the transaction whose hooks it appends to
    loaded,     \* the hooks it has loaded to append to
    queue,      \* the hooks it is still to run
    ids, children,  \* request ids, see RequestIds
    writes,     \* history variable: the statements executed
    log,        \* history variable: the hooks registered
    last,       \* history variable: last[t] is the last hook of t that ran
    crossed,    \* history variable: its use of the model overlaps another's
    shared,     \* history variable: transactions other goroutines hooked into
    panicked,   \* history variable: transactions a panic went through
    unacked,    \* history variable: commits applied that returned an error
    left        \* history variable: a query set its id, and nothing clears it

Ids == INSTANCE RequestIds

txs     == <<phase, hooks>>
models  == <<modelOf, routed, limit, mctx, mdb, mtable>>
frames  == <<req, base, stack, child>>
op      == <<cur, loaded, queue>>
reqids  == <<ids, children, left>>
history == <<writes, log, last, crossed, shared, panicked, unacked>>
vars    == <<txs, models, pc, frames, op, reqids, history>>

Writes ==
    [tx : Txs \cup {NoTx}, hook : Txs \cup {NoTx}, model : Models,
     table : Nat, crossed : BOOLEAN,
     fate : {"made", "hooked", "right", "wrong", "panicked", "unanswered"}]

PCs == {"off", "idle", "update", "exec", "hook", "append",
        "range", "hooks"}

TypeOK ==
    /\ phase \in [Txs -> {"none", "open", "committed", "aborted"}]
    /\ hooks \in [Txs -> Seq(Nat)]
    /\ modelOf \in [Goroutines -> Models]
    /\ routed \in [Models -> Routings] /\ limit \in Limits
    /\ mctx \in [Models -> Txs \cup {NoTx}]
    /\ mdb \in [Models -> Txs \cup {NoTx}]
    /\ mtable \in [Models -> Nat]
    /\ pc \in [Goroutines -> PCs]
    /\ req \in [Goroutines -> Requests \cup {NoReq}]
    /\ base \in [Goroutines -> Txs \cup {NoTx}]
    /\ stack \in [Goroutines -> Seq(Txs)]
    /\ child \in [Goroutines -> BOOLEAN]
    /\ cur \in [Goroutines -> [write : Nat, tx : Txs \cup {NoTx}]]
    /\ loaded \in [Goroutines -> Seq(Nat)]
    /\ queue \in [Goroutines -> Seq(Nat)]
    /\ Ids!TypeOK
    /\ writes \in Seq(Writes)
    /\ log \in Seq([tx : Txs, write : Nat])
    /\ last \in [Txs -> Nat]
    /\ crossed \in [Goroutines -> BOOLEAN]
    /\ shared \subseteq Txs /\ panicked \subseteq Txs /\ unacked \subseteq Txs
    /\ left \in [Goroutines -> BOOLEAN]

NoWrite == [write |-> 0, tx |-> NoTx]

Init ==
    /\ phase = [t \in Txs |-> "none"]
    /\ hooks = [t \in Txs |-> <<>>]
    /\ \E s \in Setups :
         modelOf = s.modelOf /\ routed = s.routed /\ limit = s.limit
    /\ mctx = [m \in Models |-> NoTx]
    /\ mdb = [m \in Models |-> NoTx]
    /\ mtable = [m \in Models |-> 0]
    /\ pc = [g \in Goroutines |-> "off"]
    /\ req = [g \in Goroutines |-> NoReq]
    /\ base = [g \in Goroutines |-> NoTx]
    /\ stack = [g \in Goroutines |-> <<>>]
    /\ child = [g \in Goroutines |-> FALSE]
    /\ cur = [g \in Goroutines |-> NoWrite]
    /\ loaded = [g \in Goroutines |-> <<>>]
    /\ queue = [g \in Goroutines |-> <<>>]
    /\ Ids!Init
    /\ writes = <<>> /\ log = <<>>
    /\ last = [t \in Txs |-> 0]
    /\ crossed = [g \in Goroutines |-> FALSE]
    /\ shared = {} /\ panicked = {} /\ unacked = {}
    /\ left = [g \in Goroutines |-> FALSE]

-----------------------------------------------------------------------------
(* Helpers *)

(* Bound: nothing new begins after the last statement.                     *)
Going == Len(writes) < limit.writes

Goto(g, from, to) == pc[g] = from /\ pc' = [pc EXCEPT ![g] = to]

(* The transaction that the innermost Transaction call of g has begun.     *)
Innermost(g) == Last(stack[g])

(* GetTx of the context that g has.                                        *)
CtxTx(g) == IF stack[g] = <<>> THEN base[g] ELSE Innermost(g)

(* How many of the transactions that g is in it can see to be nested.      *)
Depth(g) == Len(stack[g]) + IF base[g] = NoTx THEN 0 ELSE 1

Open == {t \in Txs : phase[t] = "open"}

(* Every open transaction keeps a connection of the pool.                  *)
FreeConn == Cardinality(Open) < MaxOpenConns

(* The router gives the model a database, here with a pool of its own.     *)
HasOwnDB(m) == routed[m] = "db"

(* The hooks registered in t.                                              *)
HooksIn(t) == {n \in 1 .. Len(log) : log[n].tx = t}

SetPhase(t, p) == phase' = [phase EXCEPT ![t] = p]

Using == {"update", "exec", "hook"}

Overlaps(g) ==
    {h \in Goroutines \ {g} : modelOf[h] = modelOf[g] /\ pc[h] \in Using}

-----------------------------------------------------------------------------
(* Goroutines *)

(* A worker that is kept for many requests takes one.                      *)
Serve(g, r) ==
    /\ Going /\ g \in Workers /\ Goto(g, "off", "idle")
    /\ req' = [req EXCEPT ![g] = r]
    /\ UNCHANGED <<txs, models, base, stack, child, op, reqids, history>>

(* log.Go in fn: goroutine h is new, and its function uses the same ctx.   *)
GoSafe(g, h) ==
    /\ Going /\ pc[g] = "idle"
    /\ h \notin Workers /\ Goto(h, "off", "idle")
    /\ Ids!Started(ids[g]) < limit.children
    /\ Ids!GoSafe(g, h)
    /\ req' = [req EXCEPT ![h] = req[g]]
    /\ base' = [base EXCEPT ![h] = CtxTx(g)]
    /\ child' = [child EXCEPT ![h] = ids[g] # Ids!NoId]
    /\ left' = [left EXCEPT ![h] = left[g]]
    /\ UNCHANGED <<txs, models, stack, op, history>>

Cleared(g) == Ids!ClearReqId(g) /\ left' = [left EXCEPT ![g] = FALSE]

(* The deferred release of g's Transaction calls.                          *)
Released(g) ==
    /\ Ids!Release(g, req[g])
    /\ left' = [left EXCEPT ![g] = @ /\ req[g] \notin Requests]

(* The context of g's request or function is gone.                         *)
Forget(g) ==
    /\ req' = [req EXCEPT ![g] = NoReq]
    /\ base' = [base EXCEPT ![g] = NoTx]
    /\ child' = [child EXCEPT ![g] = FALSE]

(* The request is answered, or the goroutine of log.Go ends.               *)
End(g) ==
    /\ stack[g] = <<>>
    /\ Goto(g, "idle", "off")
    /\ Forget(g)
    /\ \/ child[g] /\ Cleared(g)
       \/ ~child[g] /\ UNCHANGED <<ids, left>>
    /\ UNCHANGED <<txs, models, stack, op, children, history>>

(* A panic leaves all Transaction calls of g, running nothing but their    *)
(* release, up to CatchPanic or to the server's recover.                   *)
Unwind(g) ==
    /\ pc' = [pc EXCEPT ![g] = "off"]
    /\ stack' = [stack EXCEPT ![g] = <<>>]
    /\ queue' = [queue EXCEPT ![g] = <<>>]
    /\ panicked' = panicked \cup ToSet(stack[g])
    /\ Forget(g)
    /\ \/ child[g] /\ Cleared(g)
       \/ ~child[g] /\ Released(g)
    /\ UNCHANGED children

-----------------------------------------------------------------------------
(* CacheDB.Transaction *)

(* BindCtx and Begin.  Inside another transaction it begins a second one.  *)
Transaction(g, t) ==
    /\ Going /\ t <= limit.txs /\ Depth(g) < MaxDepth
    /\ phase[t] = "none" /\ \A u \in Txs : u < t => phase[u] # "none"
    /\ FreeConn
    /\ Goto(g, "idle", "idle")
    /\ SetPhase(t, "open")
    /\ stack' = [stack EXCEPT ![g] = Append(@, t)]
    /\ Ids!BindCtx(g, req[g])
    /\ left' = [left EXCEPT ![g] = @ /\ req[g] \notin Requests]
    /\ UNCHANGED <<hooks, models, req, base, child, op, children, history>>

(* A mutant: the error of Begin is not looked at, and fn runs.             *)
BeginFails_Ignored(g) ==
    /\ "begin" \in limit.faults
    /\ Goto(g, "idle", "idle")
    /\ stack' = [stack EXCEPT ![g] = Append(@, NoTx)]
    /\ UNCHANGED <<txs, models, req, base, child, op, reqids, history>>

BeginFails(g) ==
    /\ "begin" \in limit.faults
    /\ Goto(g, "idle", "idle")
    /\ Released(g)
    /\ UNCHANGED <<txs, models, frames, op, children, history>>

(* A mutant: release is not deferred.                                      *)
Leave_NoRelease(g) ==
    /\ stack' = [stack EXCEPT ![g] = Front(@)]
    /\ UNCHANGED <<hooks, models, req, base, child, op, reqids, writes, log,
                   last, crossed, shared, panicked>>

(* The innermost Transaction call returns.                                 *)
Leave(g) ==
    /\ stack' = [stack EXCEPT ![g] = Front(@)]
    /\ Released(g)
    /\ UNCHANGED <<hooks, models, req, base, child, op, children, writes, log,
                   last, crossed, shared, panicked>>

(* A mutant: fn's error is returned before the rollback.                   *)
Rollback_NotCalled(g) ==
    /\ stack[g] # <<>> /\ Goto(g, "idle", "idle")
    /\ Leave(g)
    /\ UNCHANGED <<phase, unacked>>

(* fn returned an error.                                                   *)
Rollback(g) ==
    /\ stack[g] # <<>> /\ Goto(g, "idle", "idle")
    /\ SetPhase(Innermost(g), "aborted")
    /\ Leave(g)
    /\ UNCHANGED unacked

(* fn panics: neither Rollback nor Commit runs.                            *)
FnPanics(g) ==
    /\ "fnPanic" \in limit.faults
    /\ stack[g] # <<>> /\ pc[g] = "idle"
    /\ Unwind(g)
    /\ UNCHANGED <<txs, models, cur, loaded, writes, log, last, crossed, shared,
                   unacked>>

(* fn returned nil, and the database commits.                              *)
Commit(g) ==
    /\ stack[g] # <<>> /\ Goto(g, "idle", "range")
    /\ SetPhase(Innermost(g), "committed")
    /\ UNCHANGED <<hooks, models, frames, op, reqids, history>>

(* Commit returns an error, applied or not, and no hook runs.              *)
CommitFails(g) ==
    /\ "commit" \in limit.faults
    /\ stack[g] # <<>> /\ Goto(g, "idle", "idle")
    /\ \/ SetPhase(Innermost(g), "aborted") /\ UNCHANGED unacked
       \/ /\ SetPhase(Innermost(g), "committed")
          /\ unacked' = unacked \cup {Innermost(g)}
    /\ Leave(g)

(* The range over AfterCommit reads the slice once, after the commit.      *)
RangeHooks(g) ==
    /\ Goto(g, "range", "hooks")
    /\ queue' = [queue EXCEPT ![g] = hooks[Innermost(g)]]
    /\ UNCHANGED <<txs, models, frames, cur, loaded, reqids, history>>

(* The invalidation of write w: of the table the model has by now.         *)
Invalidate(w) ==
    writes' = [writes EXCEPT ![w].fate =
      IF mtable[writes[w].model] = writes[w].table THEN "right" ELSE "wrong"]

Pop(g) ==
    /\ queue[g] # <<>>
    /\ last' = [last EXCEPT ![Innermost(g)] = Head(queue[g])]

(* A mutant: the loop stops after the first hook.                          *)
runAfterCommit_Once(g) ==
    /\ Goto(g, "hooks", "hooks")
    /\ Pop(g)
    /\ Invalidate(log[Head(queue[g])].write)
    /\ queue' = [queue EXCEPT ![g] = <<>>]
    /\ UNCHANGED <<txs, models, frames, cur, loaded, reqids, log, crossed,
                   shared, panicked, unacked>>

runAfterCommit(g) ==
    /\ Goto(g, "hooks", "hooks")
    /\ Pop(g)
    /\ Invalidate(log[Head(queue[g])].write)
    /\ queue' = [queue EXCEPT ![g] = Tail(@)]
    /\ UNCHANGED <<txs, models, frames, cur, loaded, reqids, log, crossed,
                   shared, panicked, unacked>>

(* A hook panics (a Hook of the application that the invalidation calls):  *)
(* logged, and raised again, so the hooks after it are lost.               *)
HookPanics(g) ==
    /\ "hookPanic" \in limit.faults
    /\ pc[g] = "hooks"
    /\ Pop(g)
    /\ Unwind(g)
    /\ UNCHANGED <<txs, models, cur, loaded, writes, log, crossed, shared,
                   unacked>>

CommitReturns(g) ==
    /\ queue[g] = <<>> /\ Goto(g, "hooks", "idle")
    /\ Leave(g)
    /\ UNCHANGED <<phase, unacked>>

-----------------------------------------------------------------------------
(* BaseModel *)

(* getDB: the transaction of the ctx or the default database, unless there *)
(* is a shard key and the router has a database; it also routes the table. *)
Connection(m, t) == IF HasOwnDB(m) THEN NoTx ELSE t
Table(m)         == IF routed[m] = "none" THEN mtable[m] ELSE mtable[m] + 1

(* What the end of g's operation leaves in a field of the model, v or the  *)
(* NoTx that stands for what nobody reads before it is written again.      *)
Leaves(g, field, v) ==
    [field EXCEPT ![modelOf[g]] = IF Overlaps(g) = {} THEN NoTx ELSE v]

EndUse(g) ==
    LET m == modelOf[g] IN
    /\ mctx' = Leaves(g, mctx, mctx[m])
    /\ mdb' = Leaves(g, mdb, mdb[m])
    /\ crossed' = [crossed EXCEPT ![g] = FALSE]
    /\ UNCHANGED <<modelOf, routed, limit, mtable>>

(* GetByPK, of which only these effects matter here.  CallBeforeQuery calls *)
(* BindCtx, in a transaction too, and drops its release.  Lookups end in a *)
(* GetByPK; lists call BindCtx outside of transactions only.               *)
Read(g) ==
    LET m == modelOf[g]  t == CtxTx(g) IN
    /\ Goto(g, "idle", "idle")
    /\ Going /\ Table(m) <= MaxRoutes
    /\ mctx' = Leaves(g, mctx, t)
    /\ mdb' = Leaves(g, mdb, Connection(m, t))
    /\ mtable' = [mtable EXCEPT ![m] = Table(m)]
    /\ crossed' = [h \in Goroutines |-> crossed[h] \/ h \in Overlaps(g)]
    /\ Ids!BindCtx(g, req[g])
    /\ left' = [left EXCEPT ![g] =
         IF req[g] \in Requests THEN stack[g] = <<>> /\ ~child[g] ELSE @]
    /\ UNCHANGED <<txs, modelOf, routed, limit, frames, op, children, writes,
                   log, last, shared, panicked, unacked>>

(* WithContext stores the ctx in the model.                                *)
Update(g) ==
    LET m == modelOf[g] IN
    /\ Going /\ Table(m) <= MaxRoutes
    /\ Goto(g, "idle", "update")
    /\ mctx' = [mctx EXCEPT ![m] = CtxTx(g)]
    /\ crossed' = [h \in Goroutines |->
         IF h = g THEN Overlaps(g) # {} ELSE crossed[h] \/ h \in Overlaps(g)]
    /\ UNCHANGED <<txs, modelOf, routed, limit, mdb, mtable, frames, op,
                   reqids, writes, log, last, shared, panicked, unacked>>

(* A mutant: the transaction in the ctx is not looked for.                 *)
getDB_Default(g) ==
    LET m == modelOf[g] IN
    /\ Goto(g, "update", "exec")
    /\ mdb' = [mdb EXCEPT ![m] = NoTx]
    /\ mtable' = [mtable EXCEPT ![m] = Table(m)]
    /\ UNCHANGED <<txs, modelOf, routed, limit, mctx, frames, op, reqids,
                   history>>

getDB(g) ==
    LET m == modelOf[g] IN
    /\ Goto(g, "update", "exec")
    /\ mdb' = [mdb EXCEPT ![m] = Connection(m, mctx[m])]
    /\ mtable' = [mtable EXCEPT ![m] = Table(m)]
    /\ UNCHANGED <<txs, modelOf, routed, limit, mctx, frames, op, reqids,
                   history>>

(* The statement, on the connection the model has by now.                  *)
Exec(g) ==
    LET m == modelOf[g] IN
    /\ mdb[m] = NoTx => FreeConn \/ HasOwnDB(m)
    /\ mdb[m] # NoTx => phase[mdb[m]] = "open"
    /\ Goto(g, "exec", "hook")
    /\ writes' = Append(writes, [tx |-> mdb[m], hook |-> NoTx, model |-> m,
                                 table |-> mtable[m], crossed |-> FALSE,
                                 fate |-> "made"])
    /\ cur' = [cur EXCEPT ![g] = [write |-> Len(writes) + 1, tx |-> NoTx]]
    /\ UNCHANGED <<txs, models, frames, loaded, queue, reqids, log, last,
                   crossed, shared, panicked, unacked>>

(* The statement fails, always when its transaction has ended: no hook.    *)
ExecFails(g) ==
    /\ Goto(g, "exec", "idle")
    /\ EndUse(g)
    /\ UNCHANGED <<txs, frames, op, reqids, writes, log, last, shared,
                   panicked, unacked>>

(* A statement of its own is applied, but its answer is an error.          *)
ExecUnacked(g) ==
    LET m == modelOf[g] IN
    /\ "commit" \in limit.faults
    /\ mdb[m] = NoTx /\ (FreeConn \/ HasOwnDB(m))
    /\ Goto(g, "exec", "idle")
    /\ writes' = Append(writes, [tx |-> NoTx, hook |-> NoTx, model |-> m,
                                 table |-> mtable[m], crossed |-> crossed[g],
                                 fate |-> "unanswered"])
    /\ EndUse(g)
    /\ UNCHANGED <<txs, frames, op, reqids, log, last, shared, panicked,
                   unacked>>

(* A mutant: in a transaction too, the hook runs at once.                  *)
AfterCommit_Eager(g) ==
    LET w == cur[g].write IN
    /\ Goto(g, "hook", "idle")
    /\ writes' = [writes EXCEPT ![w].fate = "right", ![w].crossed = crossed[g]]
    /\ EndUse(g)
    /\ UNCHANGED <<txs, frames, op, reqids, log, last, shared, panicked,
                   unacked>>

(* AfterCommit with the ctx the model has by now: the hook runs at once    *)
(* when there is no transaction in it; else the slice of hooks is loaded.  *)
AfterCommit(g) ==
    LET w == cur[g].write  m == modelOf[g]  t == mctx[m] IN
    /\ \/ /\ t = NoTx /\ Goto(g, "hook", "idle")
          /\ writes' = [writes EXCEPT ![w].crossed = crossed[g], ![w].fate =
               IF mtable[m] = writes[w].table THEN "right" ELSE "wrong"]
          /\ cur' = [cur EXCEPT ![g] = NoWrite]
          /\ UNCHANGED loaded
       \/ /\ t # NoTx /\ Goto(g, "hook", "append")
          /\ writes' = [writes EXCEPT ![w].crossed = crossed[g], ![w].hook = t]
          /\ cur' = [cur EXCEPT ![g].tx = t]
          /\ loaded' = [loaded EXCEPT ![g] = hooks[t]]
    /\ EndUse(g)
    /\ UNCHANGED <<txs, frames, queue, reqids, log, last, shared, panicked,
                   unacked>>

(* The variables of AfterCommit are gone.                                  *)
Idle(g) ==
    /\ cur' = [cur EXCEPT ![g] = NoWrite]
    /\ loaded' = [loaded EXCEPT ![g] = <<>>]

(* The hook that runs at once calls Hooks of the application too, before    *)
(* the end of the invalidation, and one of them panics.                    *)
InlineHookPanics(g) ==
    LET w == cur[g].write IN
    /\ "hookPanic" \in limit.faults
    /\ pc[g] = "hook" /\ mctx[modelOf[g]] = NoTx
    /\ writes' = [writes EXCEPT ![w].crossed = crossed[g], ![w].fate = "panicked"]
    /\ EndUse(g)
    /\ Unwind(g)
    /\ Idle(g)
    /\ UNCHANGED <<txs, log, last, shared, unacked>>

(* A mutant: the hook is put before the others.                            *)
AppendHook_First(g) ==
    LET w == cur[g].write  t == cur[g].tx IN
    /\ Goto(g, "append", "idle")
    /\ log' = Append(log, [tx |-> t, write |-> w])
    /\ hooks' = [hooks EXCEPT ![t] = <<Len(log) + 1>> \o loaded[g]]
    /\ writes' = [writes EXCEPT ![w].fate = "hooked"]
    /\ shared' = IF t \in ToSet(stack[g]) THEN shared ELSE shared \cup {t}
    /\ Idle(g)
    /\ UNCHANGED <<phase, models, frames, queue, reqids, last, crossed,
                   panicked, unacked>>

(* ... and stored with the hook appended, whatever it has become meanwhile. *)
(* Bound: append copies the list to a new array while it has less than      *)
(* three hooks; later it may write into the array, which nobody sees but   *)
(* who has loaded the same list, so only shared transactions are bounded.  *)
AppendHook(g) ==
    LET w == cur[g].write  t == cur[g].tx IN
    /\ Goto(g, "append", "idle")
    /\ log' = Append(log, [tx |-> t, write |-> w])
    /\ hooks' = [hooks EXCEPT ![t] = Append(loaded[g], Len(log) + 1)]
    /\ writes' = [writes EXCEPT ![w].fate = "hooked"]
    /\ shared' = IF t \in ToSet(stack[g]) THEN shared ELSE shared \cup {t}
    /\ t \in shared' => Cardinality(HooksIn(t)) < MaxShared
    /\ Idle(g)
    /\ UNCHANGED <<phase, models, frames, queue, reqids, last, crossed,
                   panicked, unacked>>

-----------------------------------------------------------------------------
Use(g) ==
    \/ Read(g) \/ Update(g) \/ getDB(g)
    \/ Exec(g) \/ ExecUnacked(g) \/ ExecFails(g)
    \/ AfterCommit(g) \/ InlineHookPanics(g) \/ AppendHook(g)

EndTx(g) ==
    \/ Rollback(g) \/ FnPanics(g) \/ Commit(g) \/ CommitFails(g)
    \/ RangeHooks(g) \/ runAfterCommit(g) \/ HookPanics(g) \/ CommitReturns(g)

Next ==
    \E g \in Goroutines :
      \/ \E r \in Requests \cup {NoReq} : Serve(g, r)
      \/ \E h \in Goroutines : GoSafe(g, h)
      \/ End(g)
      \/ \E t \in Txs : Transaction(g, t)
      \/ BeginFails(g) \/ EndTx(g) \/ Use(g)

Spec == Init /\ [][Next]_vars

-----------------------------------------------------------------------------
(* Properties *)

Written == 1 .. Len(writes)

Durable(w) == writes[w].tx = NoTx \/ phase[writes[w].tx] = "committed"

(* An invalidation runs when its write is committed, not before: otherwise *)
(* a reader could store the old row again.  This depends on the statement  *)
(* and AfterCommit taking the same transaction from the model, so it may   *)
(* fail where two goroutines use a model at once, and only there.          *)
NothingInvalidatedEarly ==
    \A w \in Written :
      writes[w].fate \in {"right", "wrong", "panicked"} =>
        Durable(w) \/ writes[w].crossed

(* In a transaction a statement uses the transaction's connection: it does *)
(* not wait for another one of the pool, which its own transaction may     *)
(* have exhausted for good, and is not committed on its own.  The          *)
(* exceptions are a shared model and a router with a database of its own.  *)
StatementsStayInTx ==
    \A g \in Goroutines :
      pc[g] = "exec" =>
        \/ mdb[modelOf[g]] = CtxTx(g)
        \/ crossed[g]
        \/ HasOwnDB(modelOf[g])

(* The goroutine that runs the hooks of t is not done with them.           *)
Running(t) ==
    \E g \in Goroutines : /\ pc[g] \in {"range", "hooks"}
                          /\ Innermost(g) = t

Settled(w) ==
    /\ \A g \in Goroutines : pc[g] \in {"hook", "append"} => cur[g].write # w
    /\ writes[w].hook # NoTx =>
         phase[writes[w].hook] # "open" /\ ~Running(writes[w].hook)

(* What may lose the invalidation of a write, or give it another table:    *)
(* the model was routed again before the invalidation; the write went      *)
(* around the transaction that has its hook (a shared model or a router    *)
(* can do both); goroutines of log.Go added hooks to the transaction; fn   *)
(* or a hook panicked; a Commit or a statement was applied but failed.     *)
Excuse(w) ==
    LET t == writes[w].hook IN
    \/ mtable[writes[w].model] # writes[w].table
    \/ writes[w].tx # t
    \/ t \in shared \cup panicked \cup unacked
    \/ writes[w].fate \in {"panicked", "unanswered"}

(* Every committed write has had the invalidation of its table, once its   *)
(* call and its transaction are over, unless there is an excuse.           *)
InvalidationsDone ==
    \A w \in Written :
      Durable(w) /\ Settled(w) => writes[w].fate = "right" \/ Excuse(w)

(* A transaction that is open is that of a Transaction call in progress.   *)
(* Only a panic leaves one behind, and with it its connection and locks.   *)
NoOpenTxLeft ==
    \A t \in Open :
      t \in panicked \/ \E g \in Goroutines : t \in ToSet(stack[g])

(* The id under which a goroutine logs is that of its request or derived   *)
(* from it, and none is left when it has no request: BindCtx is undone on  *)
(* every way out of Transaction and of log.Go.  The exception is what      *)
(* CallBeforeQuery has bound where neither is to come: outside of the      *)
(* goroutine's own Transaction calls, be it in a transaction or not.       *)
IdOfOwnRequest ==
    \A g \in Goroutines :
      \/ ids[g] = Ids!NoId
      \/ pc[g] # "off" /\ Head(ids[g]) = req[g]
      \/ left[g]

(* The hooks are used as the contract says.                                *)
Contract == INSTANCE TxContract WITH
    clock      <- Len(log),
    registered <- [t \in Txs |-> HooksIn(t)]

HooksKeepContract == Contract!Spec

=============================================================================
