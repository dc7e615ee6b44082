------------------------ MODULE TransactionsContract ------------------------
(***************************************************************************)
(* Transactions implements TxContract: whatever goroutines share a model,  *)
(* a context or a transaction, and whatever fails, the hooks that run do   *)
(* so after the commit, once, in the order of their registration.  A       *)
(* transaction that goroutines share has at most MaxShared hooks: from the *)
(* fourth on append may write into an array whose hooks are being run, and *)
(* nothing is shown of that.                                               *)
(***************************************************************************)
EXTENDS TransactionsProofs

(* The transactions in contexts, models and calls of AfterCommit have      *)
(* begun.                                                                  *)
Begun(t) == t # NoTx => phase[t] # "none"

BegunInv ==
    /\ \A g \in Goroutines : Begun(base[g]) /\ Begun(cur[g].tx)
    /\ \A m \in Models : Begun(mctx[m])

(* A list of hooks of t, in the order of their registration.               *)
HooksOf(s, t) ==
    /\ \A i \in 1 .. Len(s) : log[s[i]].tx = t
    /\ \A i, j \in 1 .. Len(s) : i < j => s[i] < s[j]

(* Every list of hooks a goroutine holds is one of its transaction, and    *)
(* the hooks that it is still to run come after those that have run.       *)
OrderInv ==
    /\ \A t \in Txs : HooksOf(hooks[t], t)
    /\ \A t \in Txs : phase[t] \in {"none", "open"} => last[t] = 0
    /\ \A g \in Goroutines : pc[g] = "append" => HooksOf(loaded[g], cur[g].tx)
    /\ \A g \in Goroutines : pc[g] = "range" => last[Innermost(g)] = 0
    /\ \A g \in Goroutines : pc[g] = "hooks" =>
         /\ HooksOf(queue[g], Innermost(g))
         /\ \A i \in 1 .. Len(queue[g]) : queue[g][i] > last[Innermost(g)]

ContractInv == TypeInv /\ StackInv /\ BegunInv /\ OrderInv

-----------------------------------------------------------------------------
(* Transactions that have begun *)

LEMMA PhaseSteps ==
  ASSUME TypeInv, StackInv, Next, NEW t \in Txs
  PROVE  /\ phase[t] # "none" => phase'[t] # "none"
         /\ phase'[t] \in {"none", "open"} => phase[t] \in {"none", "open"}
<1>0. phase \in [Txs -> {"none", "open", "committed", "aborted"}]
  BY DEF TypeInv, TypeOK
<1>1. CASE Stays
  BY <1>1 DEF Stays
<1>2. ASSUME NEW g \in Goroutines, NEW u \in Txs, Pushes(g, u)
      PROVE  /\ phase[t] # "none" => phase'[t] # "none"
             /\ phase'[t] \in {"none", "open"} => phase[t] \in {"none", "open"}
  BY <1>0, <1>2 DEF Pushes
<1>3. ASSUME NEW g \in Goroutines, Commits(g) \/ Pops(g) \/ Unwinds(g)
      PROVE  /\ phase[t] # "none" => phase'[t] # "none"
             /\ phase'[t] \in {"none", "open"} => phase[t] \in {"none", "open"}
  BY <1>0, <1>3 DEF Commits, Pops, Unwinds
<1> QED BY <1>1, <1>2, <1>3, StackSteps

LEMMA CtxTxBegun ==
  ASSUME TypeInv, StackInv, BegunInv, NEW g \in Goroutines
  PROVE  CtxTx(g) \in Txs \cup {NoTx} /\ Begun(CtxTx(g))
<1>1. CASE stack[g] = <<>>
  BY <1>1 DEF CtxTx, BegunInv, TypeInv, TypeOK
<1>2. CASE stack[g] # <<>>
  <2>1. stack[g] \in Seq(Txs)
    BY DEF TypeInv, TypeOK
  <2>2. /\ CtxTx(g) = stack[g][Len(stack[g])] /\ CtxTx(g) \in Txs
        /\ Len(stack[g]) \in 1 .. Len(stack[g])
    <3>1. /\ Last(stack[g]) = stack[g][Len(stack[g])] /\ Last(stack[g]) \in Txs
          /\ Len(stack[g]) \in Nat \ {0}
      BY <1>2, <2>1, LastFront
    <3> QED BY <1>2, <3>1 DEF CtxTx, Innermost
  <2>3. phase[CtxTx(g)] = "open" \/ phase[CtxTx(g)] = "committed"
    BY <1>2, <2>2 DEF StackInv, CtxTx
  <2> QED BY <2>2, <2>3 DEF Begun
<1> QED BY <1>1, <1>2

LEMMA InitBegunInv == Init => BegunInv
BY DEF Init, BegunInv, Begun, NoWrite

(* A step puts into the model or the variables of a goroutine what it      *)
(* finds in a context or in the model.                                     *)
LEMMA StepBegunInv ==
  TypeInv /\ StackInv /\ BegunInv /\ [Next]_vars => BegunInv'
<1> SUFFICES ASSUME TypeInv, StackInv, BegunInv, [Next]_vars PROVE BegunInv'
  OBVIOUS
<1>1. CASE UNCHANGED vars
  BY <1>1 DEF vars, txs, models, frames, op, BegunInv, Begun
<1>2. CASE Next
  <2> DEFINE Known == {NoTx} \cup {t \in Txs : phase[t] # "none"}
  <2>1. \A t \in Known : (Begun(t))'
    BY <1>2, PhaseSteps DEF Begun
  <2>2. /\ \A g \in Goroutines : base[g] \in Known /\ cur[g].tx \in Known
        /\ \A m \in Models : mctx[m] \in Known
        /\ \A g \in Goroutines : CtxTx(g) \in Known
    BY CtxTxBegun DEF BegunInv, Begun, TypeInv, TypeOK
  <2> HIDE DEF Known
  <2>3. NoTx \in Known
    BY DEF Known
  <2>4. /\ \A g \in Goroutines : base'[g] \in Known /\ cur'[g].tx \in Known
        /\ \A m \in Models : mctx'[m] \in Known
    <3> USE <2>2, <2>3
    <3>0. /\ base \in [Goroutines -> Txs \cup {NoTx}] /\ mctx \in [Models -> Txs \cup {NoTx}]
          /\ cur \in [Goroutines -> [write : Nat, tx : Txs \cup {NoTx}]]
          /\ modelOf \in [Goroutines -> Models]
      BY DEF TypeInv, TypeOK
    <3>1. ASSUME NEW g \in Goroutines, UNCHANGED <<mctx, cur>>,
                 Forget(g) \/ UNCHANGED base
                 \/ \E h \in Goroutines : base' = [base EXCEPT ![h] = CtxTx(g)]
          PROVE  <2>4!1 /\ <2>4!2
      BY <3>0, <3>1 DEF Forget
    <3>2. ASSUME NEW g \in Goroutines, EndUse(g) PROVE <2>4!2
      BY <3>0, <3>2 DEF EndUse, Leaves
    <3>3. ASSUME NEW g \in Goroutines, NEW r, Serve(g, r) PROVE <2>4!1 /\ <2>4!2
      BY <3>1, <3>3 DEF Serve, models, op
    <3>4. ASSUME NEW g \in Goroutines, NEW h \in Goroutines, GoSafe(g, h)
          PROVE  <2>4!1 /\ <2>4!2
      BY <3>1, <3>4 DEF GoSafe, models, op
    <3>5. ASSUME NEW g \in Goroutines, End(g) PROVE <2>4!1 /\ <2>4!2
      BY <3>1, <3>5 DEF End, models, op
    <3>6. ASSUME NEW g \in Goroutines,
                 BeginFails(g) \/ \E t \in Txs : Transaction(g, t)
          PROVE  <2>4!1 /\ <2>4!2
      BY <3>1, <3>6 DEF Transaction, BeginFails, models, frames, op
    <3>7. ASSUME NEW g \in Goroutines, EndTx(g) PROVE <2>4!1 /\ <2>4!2
      BY <3>1, <3>7 DEF EndTx, Rollback, FnPanics, Commit, CommitFails, RangeHooks,
         runAfterCommit, HookPanics, CommitReturns, Leave, Unwind, models, frames, op
    <3>8. ASSUME NEW g \in Goroutines, Use(g) PROVE <2>4!1 /\ <2>4!2
      <4>1. CASE Read(g)
        BY <3>0, <4>1 DEF Read, Leaves, frames, op
      <4>2. CASE Update(g)
        BY <3>0, <4>2 DEF Update, frames, op
      <4>3. CASE getDB(g)
        BY <4>3 DEF getDB, frames, op
      <4>4. CASE Exec(g)
        BY <3>0, <4>4 DEF Exec, models, frames
      <4>5. CASE ExecFails(g)
        BY <3>2, <4>5 DEF ExecFails, frames, op
      <4>6. CASE AfterCommit(g)
        <5>1. cur' = [cur EXCEPT ![g] = NoWrite] \/ cur' = [cur EXCEPT ![g].tx = mctx[modelOf[g]]]
          BY <4>6 DEF AfterCommit
        <5> QED BY <3>0, <3>2, <4>6, <5>1 DEF AfterCommit, frames, NoWrite
      <4>7. CASE AppendHook(g)
        BY <3>0, <4>7 DEF AppendHook, Idle, NoWrite, models, frames
      <4>8. CASE ExecUnacked(g)
        BY <3>2, <4>8 DEF ExecUnacked, frames, op
      <4>9. CASE InlineHookPanics(g)
        <5>1. cur' = [cur EXCEPT ![g] = NoWrite] /\ NoWrite.tx = NoTx
          BY <4>9 DEF InlineHookPanics, Idle, NoWrite
        <5>2. base' = [base EXCEPT ![g] = NoTx]
          BY <4>9 DEF InlineHookPanics, Unwind, Forget
        <5>3. <2>4!2
          BY <3>2, <4>9 DEF InlineHookPanics
        <5>4. <2>4!1
          BY <3>0, <5>1, <5>2
        <5> QED BY <5>3, <5>4
      <4> QED BY <3>8, <4>1, <4>2, <4>3, <4>4, <4>5, <4>6, <4>7, <4>8, <4>9 DEF Use
    <3> QED BY <1>2, <3>3, <3>4, <3>5, <3>6, <3>7, <3>8 DEF Next
  <2> QED BY <2>1, <2>4 DEF BegunInv, Begun
<1> QED BY <1>1, <1>2

-----------------------------------------------------------------------------
(* The order of hooks *)

LEMMA InitOrderInv == Init => OrderInv
<1> SUFFICES ASSUME Init PROVE OrderInv
  OBVIOUS
<1>1. \A t \in Txs : HooksOf(hooks[t], t)
  BY DEF Init, HooksOf
<1> QED BY <1>1 DEF Init, OrderInv

(* A step that registers, loads and runs no hook.                          *)
Quiet ==
    /\ UNCHANGED <<hooks, log, last>>
    /\ \A h \in Goroutines :
         /\ pc'[h] = "append" =>
              pc[h] = "append" /\ cur'[h].tx = cur[h].tx /\ loaded'[h] = loaded[h]
         /\ pc'[h] = "hooks" =>
              pc[h] = "hooks" /\ queue'[h] = queue[h] /\ Innermost(h)' = Innermost(h)
         /\ pc'[h] = "range" =>
              /\ Innermost(h)' = Innermost(h)
              /\ pc[h] = "range" \/ last[Innermost(h)] = 0

LEMMA QuietOrder ==
  ASSUME OrderInv, Quiet,
         \A t \in Txs :
           phase'[t] \in {"none", "open"} => phase[t] \in {"none", "open"}
  PROVE  OrderInv'
BY DEF OrderInv, Quiet, HooksOf

(* An operation of the models leaves the goroutine out of the commit.      *)
LEMMA OtherSteps ==
  ASSUME TypeInv, StackInv, OrderInv, NEW g \in Goroutines,
         \/ \E r \in Requests \cup {NoReq} : Serve(g, r)
         \/ \E h \in Goroutines : GoSafe(g, h)
         \/ End(g) \/ BeginFails(g)
         \/ \E t \in Txs : Transaction(g, t)
         \/ Rollback(g) \/ FnPanics(g) \/ Commit(g) \/ CommitFails(g)
         \/ CommitReturns(g)
         \/ Read(g) \/ Update(g) \/ getDB(g) \/ Exec(g) \/ ExecUnacked(g)
         \/ ExecFails(g) \/ InlineHookPanics(g)
  PROVE  Quiet
<1> USE DEF Quiet, Goto
<1>0. pc \in [Goroutines -> PCs]
  BY DEF TypeInv, TypeOK
<1>1. ASSUME NEW r \in Requests \cup {NoReq}, Serve(g, r) PROVE Quiet
  BY <1>0, <1>1 DEF Serve, txs, op, history, Innermost
<1>2. ASSUME NEW h \in Goroutines, GoSafe(g, h) PROVE Quiet
  BY <1>0, <1>2 DEF GoSafe, txs, op, history, Innermost
<1>3. CASE End(g)
  BY <1>0, <1>3 DEF End, txs, op, history, Innermost
<1>4. CASE BeginFails(g)
  BY <1>0, <1>4 DEF BeginFails, txs, op, history, frames, Innermost
<1>5. ASSUME NEW t \in Txs, Transaction(g, t) PROVE Quiet
  BY <1>0, <1>5 DEF Transaction, op, history, Innermost, TypeInv, TypeOK
<1>6. CASE Rollback(g) \/ CommitFails(g) \/ CommitReturns(g)
  BY <1>0, <1>6 DEF Rollback, CommitFails, CommitReturns, Leave, op, Innermost,
     TypeInv, TypeOK
<1>7. CASE FnPanics(g)
  BY <1>0, <1>7 DEF FnPanics, Unwind, txs, Innermost, TypeInv, TypeOK
<1>8. CASE Commit(g)
  <2>1. stack[g] # <<>> /\ pc[g] = "idle"
    BY <1>8 DEF Commit
  <2>2. /\ Last(stack[g]) = stack[g][Len(stack[g])] /\ Last(stack[g]) \in Txs
        /\ Len(stack[g]) \in Nat \ {0}
    BY <2>1, LastFront DEF TypeInv, TypeOK
  <2>3. phase[Innermost(g)] = "open"
    BY <2>1, <2>2 DEF StackInv, Innermost, Ending
  <2>4. last[Innermost(g)] = 0
    BY <2>2, <2>3 DEF OrderInv, Innermost
  <2> QED BY <1>0, <1>8, <2>4 DEF Commit, op, history, frames, Innermost
<1>9. CASE Read(g)
  BY <1>0, <1>9 DEF Read, txs, op, frames, Innermost
<1>10. CASE Update(g)
  BY <1>0, <1>10 DEF Update, txs, op, frames, Innermost
<1>11. CASE getDB(g)
  BY <1>0, <1>11 DEF getDB, txs, op, frames, history, Innermost
<1>12. CASE Exec(g)
  BY <1>0, <1>12 DEF Exec, txs, frames, Innermost, TypeInv, TypeOK
<1>13. CASE ExecFails(g)
  BY <1>0, <1>13 DEF ExecFails, txs, op, frames, Innermost
<1>14. CASE ExecUnacked(g)
  BY <1>0, <1>14 DEF ExecUnacked, txs, op, frames, Innermost
<1>15. CASE InlineHookPanics(g)
  BY <1>0, <1>15 DEF InlineHookPanics, Unwind, Idle, txs, Innermost, TypeInv, TypeOK
<1> QED BY <1>1, <1>2, <1>3, <1>4, <1>5, <1>6, <1>7, <1>8, <1>9, <1>10, <1>11,
           <1>12, <1>13, <1>14, <1>15

(* The transactions whose hooks are run are those of different calls.      *)
LEMMA EndingApart ==
  ASSUME TypeInv, StackInv, NEW g \in Goroutines, NEW h \in Goroutines,
         Ending(g), Ending(h), Innermost(g) = Innermost(h)
  PROVE  g = h
<1>1. stack[g] # <<>> /\ stack[h] # <<>> /\ stack[g] \in Seq(Txs) /\ stack[h] \in Seq(Txs)
  BY DEF TypeInv, TypeOK, Ending
<1>2. \A k \in {g, h} : /\ Innermost(k) = stack[k][Len(stack[k])]
                       /\ Len(stack[k]) \in 1 .. Len(stack[k])
  <2> SUFFICES ASSUME NEW k \in {g, h}
               PROVE  /\ Innermost(k) = stack[k][Len(stack[k])]
                      /\ Len(stack[k]) \in 1 .. Len(stack[k])
    OBVIOUS
  <2>1. Last(stack[k]) = stack[k][Len(stack[k])] /\ Len(stack[k]) \in Nat \ {0}
    BY <1>1, LastFront
  <2> QED BY <2>1 DEF Innermost
<1> QED BY <1>2 DEF StackInv

LEMMA RangeOrder ==
  ASSUME TypeInv, StackInv, OrderInv, NEW g \in Goroutines, RangeHooks(g)
  PROVE  OrderInv'
<1> DEFINE t == Innermost(g)
<1>1. /\ UNCHANGED <<phase, hooks, log, last, stack, cur, loaded>>
      /\ pc[g] = "range" /\ pc'[g] = "hooks" /\ queue'[g] = hooks[t]
      /\ \A h \in Goroutines \ {g} : pc'[h] = pc[h] /\ queue'[h] = queue[h]
  BY DEF RangeHooks, Goto, txs, frames, history, TypeInv, TypeOK
<1>2. t \in Txs
  BY <1>1, InnermostType DEF TypeInv
<1>3. /\ HooksOf(hooks[t], t) /\ last[t] = 0
      /\ \A i \in 1 .. Len(hooks[t]) : hooks[t][i] > 0
  <2>1. \A i \in 1 .. Len(hooks[t]) : hooks[t][i] \in 1 .. Len(log) /\ Len(log) \in Nat
    BY <1>2, LenProperties DEF TypeInv, TypeOK
  <2> QED BY <1>1, <1>2, <2>1 DEF OrderInv
<1> HIDE DEF t
<1>4. /\ HooksOf(queue'[g], t)
      /\ \A i \in 1 .. Len(queue'[g]) : queue'[g][i] > last[t]
  BY <1>1, <1>3
<1>5. \A h \in Goroutines : Innermost(h)' = Innermost(h)
  BY <1>1 DEF Innermost
<1>6. Innermost(g)' = t
  BY <1>5 DEF t
<1> QED BY <1>1, <1>4, <1>5, <1>6 DEF OrderInv, HooksOf

(* Popping the first hook of a list leaves the later ones.                 *)
LEMMA PopOrder ==
  ASSUME TypeInv, StackInv, OrderInv, NEW g \in Goroutines,
         Pop(g), pc[g] = "hooks", UNCHANGED <<phase, hooks, log>>,
         \A h \in Goroutines \ {g} :
           /\ pc'[h] = pc[h] /\ queue'[h] = queue[h] /\ stack'[h] = stack[h]
           /\ cur'[h] = cur[h] /\ loaded'[h] = loaded[h],
         pc'[g] = "off" \/ (/\ pc'[g] = "hooks" /\ queue'[g] = Tail(queue[g])
                            /\ stack'[g] = stack[g])
  PROVE  OrderInv'
<1> DEFINE t == Innermost(g)  q == queue[g]
<1>1. t \in Txs /\ q \in Seq(Nat) /\ q # <<>>
  BY InnermostType DEF TypeInv, TypeOK, Pop
<1>2. /\ Head(q) = q[1] /\ Head(q) \in Nat /\ Len(q) \in Nat \ {0}
      /\ Len(Tail(q)) = Len(q) - 1 /\ Tail(q) \in Seq(Nat)
      /\ \A i \in 1 .. Len(Tail(q)) : Tail(q)[i] = q[i + 1]
  BY <1>1, HeadTailProperties, EmptySeq, LenProperties
<1>3. last'[t] = Head(q) /\ \A u \in Txs \ {t} : last'[u] = last[u]
  BY <1>1 DEF Pop, TypeInv, TypeOK
<1>4. HooksOf(q, t) /\ phase[t] = "committed"
  BY DEF OrderInv, StackInv, Ending
<1> HIDE DEF t, q
<1>5. \A i \in 1 .. Len(Tail(q)) :
        /\ Tail(q)[i] = q[i + 1] /\ i + 1 \in 1 .. Len(q) /\ 1 \in 1 .. Len(q) /\ 1 < i + 1
  BY <1>2
<1>6. HooksOf(Tail(q), t) /\ \A i \in 1 .. Len(Tail(q)) : Tail(q)[i] > Head(q)
  <2>1. \A i \in 1 .. Len(Tail(q)) : log[Tail(q)[i]].tx = t
    BY <1>4, <1>5 DEF HooksOf
  <2>2. \A i \in 1 .. Len(Tail(q)) : Head(q) < Tail(q)[i]
    BY <1>2, <1>4, <1>5 DEF HooksOf
  <2>3. ASSUME NEW i \in 1 .. Len(Tail(q)), NEW j \in 1 .. Len(Tail(q)), i < j
        PROVE  Tail(q)[i] < Tail(q)[j]
    <3>1. i + 1 \in 1 .. Len(q) /\ j + 1 \in 1 .. Len(q) /\ i + 1 < j + 1
      BY <1>5, <2>3
    <3>2. q[i + 1] < q[j + 1]
      BY <1>4, <3>1 DEF HooksOf
    <3> QED BY <1>5, <3>2
  <2>4. \A i \in 1 .. Len(Tail(q)) : Tail(q)[i] \in Nat
    BY <1>2, ElementOfSeq
  <2> QED BY <1>2, <2>1, <2>2, <2>3, <2>4 DEF HooksOf
<1>7. \A h \in Goroutines \ {g} : Ending(h) => Innermost(h) \in Txs \ {t}
  <2> SUFFICES ASSUME NEW h \in Goroutines \ {g}, Ending(h) PROVE Innermost(h) \in Txs \ {t}
    OBVIOUS
  <2>1. Innermost(h) \in Txs
    BY InnermostType DEF TypeInv, Ending
  <2>2. Innermost(h) # t
    BY EndingApart DEF Ending, t
  <2> QED BY <2>1, <2>2
<1>8. \A h \in Goroutines \ {g} : Innermost(h)' = Innermost(h)
  BY DEF Innermost
<1>9. \A u \in Txs : phase'[u] \in {"none", "open"} => last'[u] = 0
  BY <1>3, <1>4 DEF OrderInv
<1>10. \A u \in Txs : HooksOf(hooks[u], u)'
  BY DEF OrderInv, HooksOf
<1>11. ASSUME NEW h \in Goroutines, pc'[h] = "append" PROVE HooksOf(loaded[h], cur[h].tx)'
  <2>1. h # g /\ pc[h] = "append" /\ loaded'[h] = loaded[h] /\ cur'[h] = cur[h]
    BY <1>11
  <2> QED BY <2>1 DEF OrderInv, HooksOf
<1>12. \A h \in Goroutines : pc'[h] = "range" => last'[Innermost(h)'] = 0
  BY <1>3, <1>7, <1>8 DEF OrderInv, Ending
<1>13. ASSUME NEW h \in Goroutines, pc'[h] = "hooks"
       PROVE  /\ HooksOf(queue[h], Innermost(h))'
              /\ \A i \in 1 .. Len(queue'[h]) : queue'[h][i] > last'[Innermost(h)']
  <2>1. CASE h # g
    BY <1>3, <1>7, <1>8, <1>13, <2>1 DEF OrderInv, HooksOf, Ending
  <2>2. CASE h = g
    <3>1. Innermost(g)' = t /\ queue'[g] = Tail(q)
      BY <1>13, <2>2 DEF Innermost, t, q
    <3> QED BY <1>3, <1>6, <2>2, <3>1 DEF HooksOf
  <2> QED BY <2>1, <2>2
<1>14. /\ \A h \in Goroutines : (pc[h] = "append" => HooksOf(loaded[h], cur[h].tx))'
       /\ \A h \in Goroutines : (pc[h] = "range" => last[Innermost(h)] = 0)'
  BY <1>12, <1>11
<1> QED BY <1>9, <1>10, <1>13, <1>14 DEF OrderInv

LEMMA LoadOrder ==
  ASSUME TypeInv, OrderInv, NEW g \in Goroutines, AfterCommit(g)
  PROVE  OrderInv'
<1> DEFINE t == mctx[modelOf[g]]
<1>1. /\ UNCHANGED <<phase, hooks, log, last, stack, queue>>
      /\ \A h \in Goroutines \ {g} :
           pc'[h] = pc[h] /\ cur'[h] = cur[h] /\ loaded'[h] = loaded[h]
      /\ \/ pc'[g] = "idle"
         \/ t # NoTx /\ pc'[g] = "append" /\ cur'[g].tx = t /\ loaded'[g] = hooks[t]
  BY DEF AfterCommit, Goto, txs, frames, TypeInv, TypeOK
<1>2. t \in Txs \cup {NoTx}
  BY DEF TypeInv, TypeOK
<1> HIDE DEF t
<1>3. ASSUME NEW h \in Goroutines, pc'[h] = "append" PROVE HooksOf(loaded[h], cur[h].tx)'
  <2>1. CASE h = g
    BY <1>1, <1>2, <1>3, <2>1 DEF OrderInv, HooksOf
  <2>2. CASE h # g
    BY <1>1, <1>3, <2>2 DEF OrderInv, HooksOf
  <2> QED BY <2>1, <2>2
<1>4. \A h \in Goroutines : Innermost(h)' = Innermost(h)
  BY <1>1 DEF Innermost
<1>5. \A h \in Goroutines : pc'[h] \in {"range", "hooks"} => pc[h] = pc'[h]
  BY <1>1
<1>6. /\ \A u \in Txs : HooksOf(hooks[u], u)'
      /\ \A h \in Goroutines : (pc[h] = "range" => last[Innermost(h)] = 0)'
      /\ \A h \in Goroutines : (pc[h] = "hooks" =>
           /\ HooksOf(queue[h], Innermost(h))
           /\ \A i \in 1 .. Len(queue[h]) : queue[h][i] > last[Innermost(h)])'
  BY <1>1, <1>4, <1>5 DEF OrderInv, HooksOf
<1> QED BY <1>1, <1>3, <1>6 DEF OrderInv

(* The hooks that a transaction has stay the same when one is registered.  *)
LEMMA AppendOrder ==
  ASSUME TypeInv, OrderInv, NEW g \in Goroutines, AppendHook(g)
  PROVE  OrderInv'
<1> DEFINE t == cur[g].tx  n == Len(log) + 1  s == loaded[g]
<1>1. /\ t \in Txs /\ s \in Seq(Nat) /\ n \in Nat /\ Len(s) \in Nat
      /\ \A i \in 1 .. Len(s) : s[i] \in 1 .. Len(log)
      /\ HooksOf(s, t)
  BY LenProperties DEF AppendHook, Goto, OrderInv, TypeInv, TypeOK
<1>2. /\ hooks'[t] = Append(s, n) /\ log'[n].tx = t
      /\ \A k \in 1 .. Len(log) : log'[k] = log[k]
      /\ \A u \in Txs \ {t} : hooks'[u] = hooks[u]
  <2> DEFINE w == cur[g].write  r == [tx |-> t, write |-> w]
  <2>1. log' = Append(log, r) /\ log \in Seq([tx : Txs, write : Nat]) /\ r.tx = t
    BY DEF AppendHook, TypeInv, TypeOK
  <2>2. r \in [tx : Txs, write : Nat]
    BY <1>1 DEF TypeInv, TypeOK
  <2> HIDE DEF r
  <2>3. log'[n] = r /\ \A k \in 1 .. Len(log) : log'[k] = log[k]
    BY <2>1, <2>2, AppendProperties
  <2>4. hooks'[t] = Append(s, n) /\ \A u \in Txs \ {t} : hooks'[u] = hooks[u]
    BY <1>1 DEF AppendHook, TypeInv, TypeOK
  <2> QED BY <2>1, <2>3, <2>4
<1>3. /\ UNCHANGED <<phase, last, stack, queue>> /\ pc'[g] = "idle"
      /\ \A h \in Goroutines \ {g} :
           pc'[h] = pc[h] /\ cur'[h] = cur[h] /\ loaded'[h] = loaded[h]
  BY DEF AppendHook, Goto, Idle, frames, TypeInv, TypeOK
<1>4. /\ Len(Append(s, n)) = Len(s) + 1 /\ Append(s, n)[Len(s) + 1] = n
      /\ \A i \in 1 .. Len(s) : Append(s, n)[i] = s[i]
  BY <1>1, AppendProperties
<1> HIDE DEF t, n, s
<1>5. Len(log) \in Nat /\ n = Len(log) + 1
  BY LenProperties DEF TypeInv, TypeOK, n
<1>6. /\ \A i \in 1 .. Len(s) + 1 : log'[Append(s, n)[i]].tx = t
      /\ \A i, j \in 1 .. Len(s) + 1 : i < j => Append(s, n)[i] < Append(s, n)[j]
  <2>1. \A i \in 1 .. Len(s) + 1 : i \in 1 .. Len(s) \/ i = Len(s) + 1
    BY <1>1
  <2>2. \A i \in 1 .. Len(s) : s[i] < n /\ log'[s[i]].tx = t
    BY <1>1, <1>2, <1>5 DEF HooksOf
  <2>3. \A i \in 1 .. Len(s) + 1 : log'[Append(s, n)[i]].tx = t
    BY <1>2, <1>4, <2>1, <2>2
  <2>4. ASSUME NEW i \in 1 .. Len(s) + 1, NEW j \in 1 .. Len(s) + 1, i < j
        PROVE  Append(s, n)[i] < Append(s, n)[j]
    <3>1. i \in 1 .. Len(s)
      BY <1>1, <2>4
    <3>2. CASE j = Len(s) + 1
      BY <1>4, <2>2, <3>1, <3>2
    <3>3. CASE j \in 1 .. Len(s)
      BY <1>1, <1>4, <2>4, <3>1, <3>3 DEF HooksOf
    <3> QED BY <2>1, <3>2, <3>3
  <2> QED BY <2>3, <2>4
<1>7. ASSUME NEW u \in Txs PROVE HooksOf(hooks[u], u)'
  <2>1. CASE u = t
    <3>1. hooks'[u] = Append(s, n) /\ Len(hooks'[u]) = Len(s) + 1
      BY <1>2, <1>4, <2>1
    <3> QED BY <1>6, <2>1, <3>1 DEF HooksOf
  <2>2. CASE u # t
    <3>1. HooksOf(hooks[u], u) /\ \A i \in 1 .. Len(hooks[u]) : hooks[u][i] \in 1 .. Len(log)
      BY DEF OrderInv, TypeInv
    <3>2. hooks'[u] = hooks[u]
      BY <1>2, <2>2
    <3> QED BY <1>2, <3>1, <3>2 DEF HooksOf
  <2> QED BY <2>1, <2>2
<1>8. ASSUME NEW h \in Goroutines, pc'[h] = "append" PROVE HooksOf(loaded[h], cur[h].tx)'
  <2>1. /\ pc[h] = "append" /\ loaded'[h] = loaded[h] /\ cur'[h] = cur[h]
    BY <1>3, <1>8
  <2>2. /\ HooksOf(loaded[h], cur[h].tx)
        /\ \A i \in 1 .. Len(loaded[h]) : loaded[h][i] \in 1 .. Len(log)
    BY <2>1 DEF OrderInv, TypeInv
  <2> QED BY <1>2, <2>1, <2>2 DEF HooksOf
<1>9. ASSUME NEW h \in Goroutines, pc'[h] = "hooks"
       PROVE  /\ HooksOf(queue[h], Innermost(h))'
              /\ \A i \in 1 .. Len(queue'[h]) : queue'[h][i] > last'[Innermost(h)']
  <2>1. /\ pc[h] = "hooks" /\ queue'[h] = queue[h] /\ Innermost(h)' = Innermost(h)
    BY <1>3, <1>9 DEF Innermost
  <2>2. /\ HooksOf(queue[h], Innermost(h))
        /\ \A i \in 1 .. Len(queue[h]) : queue[h][i] \in 1 .. Len(log)
        /\ \A i \in 1 .. Len(queue[h]) : queue[h][i] > last[Innermost(h)]
    BY <2>1 DEF OrderInv, TypeInv
  <2>3. HooksOf(queue[h], Innermost(h))'
    BY <1>2, <2>1, <2>2 DEF HooksOf
  <2> QED BY <1>3, <2>1, <2>2, <2>3
<1>10. /\ \A h \in Goroutines : (pc[h] = "range" => last[Innermost(h)] = 0)'
       /\ \A u \in Txs : (phase[u] \in {"none", "open"} => last[u] = 0)'
  BY <1>3 DEF OrderInv, Innermost
<1> QED BY <1>7, <1>8, <1>9, <1>10 DEF OrderInv

LEMMA StepOrderInv ==
  TypeInv /\ StackInv /\ OrderInv /\ [Next]_vars => OrderInv'
<1> SUFFICES ASSUME TypeInv, StackInv, OrderInv, [Next]_vars PROVE OrderInv'
  OBVIOUS
<1>1. CASE UNCHANGED vars
  BY <1>1 DEF vars, txs, op, frames, history, OrderInv, HooksOf, Innermost
<1>2. CASE Next
  <2>1. \A t \in Txs :
          phase'[t] \in {"none", "open"} => phase[t] \in {"none", "open"}
    BY <1>2, PhaseSteps
  <2>2. PICK g \in Goroutines :
          \/ \E r \in Requests \cup {NoReq} : Serve(g, r)
          \/ \E h \in Goroutines : GoSafe(g, h)
          \/ End(g)
          \/ \E t \in Txs : Transaction(g, t)
          \/ BeginFails(g) \/ EndTx(g) \/ Use(g)
    BY <1>2 DEF Next
  <2>3. CASE RangeHooks(g)
    BY <2>3, RangeOrder
  <2>4. CASE runAfterCommit(g)
    BY <2>4, PopOrder DEF runAfterCommit, Goto, txs, frames, TypeInv, TypeOK
  <2>5. CASE HookPanics(g)
    BY <2>5, PopOrder DEF HookPanics, Unwind, txs, TypeInv, TypeOK
  <2>6. CASE AfterCommit(g)
    BY <2>6, LoadOrder
  <2>7. CASE AppendHook(g)
    BY <2>7, AppendOrder
  <2>8. CASE ~(RangeHooks(g) \/ runAfterCommit(g) \/ HookPanics(g) \/ AfterCommit(g)
               \/ AppendHook(g))
    BY <2>1, <2>2, <2>8, OtherSteps, QuietOrder DEF EndTx, Use
  <2> QED BY <2>3, <2>4, <2>5, <2>6, <2>7, <2>8
<1> QED BY <1>1, <1>2

LEMMA InitContractInv == Init => ContractInv
BY InitTypeInv, InitStackInv, InitBegunInv, InitOrderInv DEF ContractInv

LEMMA StepContractInv == ContractInv /\ [Next]_vars => ContractInv'
BY StepTypeInv, StepStackInv, StepBegunInv, StepOrderInv DEF ContractInv

-----------------------------------------------------------------------------
(* Refinement *)

Registered == [t \in Txs |-> HooksIn(t)]

LEMMA InitRefines == Init => Contract!Init
<1> SUFFICES ASSUME Init PROVE Contract!Init
  OBVIOUS
<1>1. log = <<>> /\ Len(log) = 0
  BY DEF Init
<1>2. Registered = [t \in Txs |-> {}]
  BY <1>1 DEF Registered, HooksIn
<1> QED BY <1>1, <1>2 DEF Init, Contract!Init, Registered

(* A step that changes only the phases makes at most one step of a         *)
(* transaction's life.                                                     *)
LEMMA PhaseRefines ==
  ASSUME TypeInv, StackInv, Next, UNCHANGED <<log, last>>
  PROVE  [Contract!Next]_Contract!vars
<1> USE DEF Contract!Next, Contract!vars, Contract!Move, HooksIn
<1>0. phase \in [Txs -> {"none", "open", "committed", "aborted"}]
  BY DEF TypeInv, TypeOK
<1>1. CASE Stays
  BY <1>1 DEF Stays
<1>2. ASSUME NEW g \in Goroutines, NEW t \in Txs, Pushes(g, t) PROVE Contract!Begin(t)
  BY <1>2 DEF Pushes, Contract!Begin
<1>3. ASSUME NEW g \in Goroutines, stack[g] # <<>>, pc[g] = "idle"
      PROVE  Innermost(g) \in Txs /\ phase[Innermost(g)] = "open"
  <2>1. /\ Last(stack[g]) = stack[g][Len(stack[g])] /\ Last(stack[g]) \in Txs
        /\ Len(stack[g]) \in Nat \ {0}
    <3>1. stack[g] \in Seq(Txs)
      BY DEF TypeInv, TypeOK
    <3> QED BY <1>3, <3>1, LastFront
  <2> QED BY <1>3, <2>1 DEF StackInv, Innermost, Ending
<1>4. ASSUME NEW g \in Goroutines, Commits(g) PROVE Contract!Commit(Innermost(g))
  BY <1>3, <1>4 DEF Commits, Contract!Commit
<1>5. ASSUME NEW g \in Goroutines, Pops(g)
      PROVE  UNCHANGED phase \/ \E t \in Txs : Contract!Commit(t) \/ Contract!Abort(t)
  BY <1>3, <1>5 DEF Pops, Contract!Commit, Contract!Abort
<1>6. ASSUME NEW g \in Goroutines, Unwinds(g) PROVE UNCHANGED phase
  BY <1>6 DEF Unwinds
<1>7. ASSUME NEW g \in Goroutines, Commits(g) PROVE Innermost(g) \in Txs
  BY <1>3, <1>7 DEF Commits
<1> QED BY <1>1, <1>2, <1>4, <1>5, <1>6, <1>7, StackSteps

LEMMA RunRefines ==
  ASSUME TypeInv, StackInv, OrderInv, NEW g \in Goroutines, pc[g] = "hooks",
         Pop(g), UNCHANGED <<phase, log>>
  PROVE  Contract!Next
<1> DEFINE t == Innermost(g)  n == Head(queue[g])
<1>1. /\ t \in Txs /\ phase[t] = "committed"
      /\ queue[g] \in Seq(Nat) /\ queue[g] # <<>>
  BY InnermostType DEF TypeInv, TypeOK, StackInv, Ending, Pop
<1>2. n = queue[g][1] /\ 1 \in 1 .. Len(queue[g])
  BY <1>1, HeadTailProperties, EmptySeq, LenProperties
<1>3. n \in HooksIn(t) /\ n > last[t]
  BY <1>2 DEF TypeInv, OrderInv, HooksOf, HooksIn
<1>4. last' = [last EXCEPT ![t] = n]
  BY DEF Pop
<1> HIDE DEF t, n
<1>5. UNCHANGED [u \in Txs |-> HooksIn(u)]
  BY DEF HooksIn
<1>6. UNCHANGED <<phase, Len(log)>>
  OBVIOUS
<1>7. n \in [u \in Txs |-> HooksIn(u)][t]
  BY <1>1, <1>3
<1> QED BY <1>1, <1>3, <1>4, <1>5, <1>6, <1>7 DEF Contract!Next, Contract!RunHook

LEMMA RegisterRefines ==
  ASSUME TypeInv, BegunInv, NEW g \in Goroutines, AppendHook(g)
  PROVE  Contract!Next
<1> DEFINE t == cur[g].tx  r == [tx |-> t, write |-> cur[g].write]
<1>1. t \in Txs /\ phase[t] # "none" /\ r \in [tx : Txs, write : Nat] /\ r.tx = t
  BY NoTxNotTx DEF AppendHook, Goto, TypeInv, TypeOK, BegunInv, Begun
<1>2. log' = Append(log, r) /\ UNCHANGED <<phase, last>>
  BY DEF AppendHook
<1> HIDE DEF t, r
<1>3. /\ Len(log') = Len(log) + 1 /\ Len(log) \in Nat /\ log'[Len(log) + 1] = r
      /\ \A n \in 1 .. Len(log) : log'[n] = log[n]
  BY <1>1, <1>2, AppendProperties, LenProperties DEF TypeInv, TypeOK
<1>4. 1 .. Len(log') = 1 .. Len(log) \cup {Len(log) + 1} /\ Len(log) + 1 \notin 1 .. Len(log)
  BY <1>3
<1>5. ASSUME NEW u \in Txs
      PROVE  HooksIn(u)' = HooksIn(u) \cup (IF u = t THEN {Len(log) + 1} ELSE {})
  BY <1>1, <1>3, <1>4 DEF HooksIn
<1>6. Registered' = [Registered EXCEPT ![t] = @ \cup {Len(log) + 1}]
  <2>1. Registered' = [u \in Txs |-> HooksIn(u)']
    BY DEF Registered
  <2>2. \A u \in Txs : Registered'[u] = Registered[u] \cup (IF u = t THEN {Len(log) + 1} ELSE {})
    BY <1>5, <2>1 DEF Registered
  <2>3. Registered = [u \in Txs |-> Registered[u]] /\ Registered' = [u \in Txs |-> Registered'[u]]
    BY <2>1 DEF Registered
  <2>4. ASSUME NEW f, f = Registered, NEW e, e = Registered', NEW n
        PROVE  (\A u \in Txs : e[u] = f[u] \cup (IF u = t THEN {n} ELSE {}))
               => e = [f EXCEPT ![t] = f[t] \cup {n}]
    <3>1. f = [u \in Txs |-> f[u]] /\ e = [u \in Txs |-> e[u]]
      BY <2>3, <2>4
    <3> SUFFICES ASSUME \A u \in Txs : e[u] = f[u] \cup (IF u = t THEN {n} ELSE {})
                 PROVE  e = [f EXCEPT ![t] = f[t] \cup {n}]
      OBVIOUS
    <3>2. e[t] = f[t] \cup {n} /\ \A u \in Txs \ {t} : e[u] = f[u]
      BY <1>1
    <3> HIDE <2>4
    <3> QED BY <1>1, <3>1, <3>2
  <2> QED BY <2>2, <2>4
<1> QED BY <1>1, <1>2, <1>3, <1>6 DEF Contract!Next, Contract!Register, Registered

LEMMA StepRefines ==
  ContractInv /\ [Next]_vars => [Contract!Next]_Contract!vars
<1> SUFFICES ASSUME TypeInv, StackInv, BegunInv, OrderInv, [Next]_vars
             PROVE  [Contract!Next]_Contract!vars
  BY DEF ContractInv
<1>1. CASE UNCHANGED vars
  BY <1>1 DEF vars, txs, history, Contract!vars, HooksIn
<1>2. ASSUME NEW g \in Goroutines, runAfterCommit(g) \/ HookPanics(g)
      PROVE  Contract!Next
  BY <1>2, RunRefines DEF runAfterCommit, HookPanics, Goto, txs
<1>3. ASSUME NEW g \in Goroutines, AppendHook(g) PROVE Contract!Next
  BY <1>3, RegisterRefines
<1>4. CASE Next /\ UNCHANGED <<log, last>>
  BY <1>4, PhaseRefines
<1>5. ASSUME NEW g \in Goroutines,
             \/ \E r \in Requests \cup {NoReq} : Serve(g, r)
             \/ \E h \in Goroutines : GoSafe(g, h)
             \/ End(g) \/ BeginFails(g)
             \/ \E t \in Txs : Transaction(g, t)
             \/ Rollback(g) \/ FnPanics(g) \/ Commit(g) \/ CommitFails(g)
             \/ RangeHooks(g) \/ CommitReturns(g)
             \/ Read(g) \/ Update(g) \/ getDB(g) \/ Exec(g) \/ ExecUnacked(g)
             \/ ExecFails(g) \/ AfterCommit(g) \/ InlineHookPanics(g)
      PROVE  UNCHANGED <<log, last>>
  BY <1>5 DEF Serve, GoSafe, End, BeginFails, Transaction, Rollback, FnPanics, Commit,
     CommitFails, RangeHooks, CommitReturns, Leave, Unwind, Read, Update, getDB, Exec,
     ExecUnacked, ExecFails, AfterCommit, InlineHookPanics, history
<1> QED BY <1>1, <1>2, <1>3, <1>4, <1>5 DEF Next, EndTx, Use

(* No hook runs before its transaction's commit or without it, twice, or   *)
(* before one registered earlier in the same transaction: for any number   *)
(* of hooks where only the goroutine of the call registers them, and for   *)
(* up to three where goroutines of log.Go or users of a shared model do.   *)
THEOREM KeepsContract == Spec => HooksKeepContract
<1>1. Spec => []ContractInv
  BY InitContractInv, StepContractInv, PTL DEF Spec
<1> QED BY <1>1, InitRefines, StepRefines, PTL DEF Spec, HooksKeepContract, Contract!Spec

=============================================================================
