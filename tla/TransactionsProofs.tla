-------------------------- MODULE TransactionsProofs --------------------------
(***************************************************************************)
(* Theorems about Transactions for any goroutines, models, routing and     *)
(* limits, and for any faults.                                             *)
(***************************************************************************)
EXTENDS Transactions, SequenceTheorems, TLAPS

USE TransactionsAssumption

(* A goroutine is at a statement only with the data the statement needs.   *)
TypeInv ==
    /\ TypeOK
    /\ \A g \in Goroutines :
         /\ pc[g] \in {"hook", "append"} => cur[g].write \in Written
         /\ pc[g] = "append" => cur[g].tx \in Txs
         /\ pc[g] \in {"range", "hooks"} => stack[g] # <<>>
         /\ \A i \in 1 .. Len(queue[g]) : queue[g][i] \in 1 .. Len(log)
         /\ \A i \in 1 .. Len(loaded[g]) : loaded[g][i] \in 1 .. Len(log)
    /\ \A t \in Txs : \A i \in 1 .. Len(hooks[t]) : hooks[t][i] \in 1 .. Len(log)
    /\ \A n \in 1 .. Len(log) : log[n].write \in Written

LEMMA NoTxNotTx == NoTx \notin Txs
BY DEF NoTx, Txs

LEMMA LastFront ==
  ASSUME NEW S, NEW s \in Seq(S), s # <<>>
  PROVE  /\ Last(s) \in S /\ Len(s) \in Nat \ {0} /\ Last(s) = s[Len(s)]
         /\ Front(s) \in Seq(S) /\ Len(Front(s)) = Len(s) - 1
         /\ \A i \in 1 .. Len(s) - 1 : Front(s)[i] = s[i]
<1>1. Len(s) \in Nat \ {0} /\ \A i \in 1 .. Len(s) : s[i] \in S
  BY EmptySeq, ElementOfSeq
<1>2. Last(s) = s[Len(s)] /\ Last(s) \in S
  BY <1>1 DEF Last
<1>3. /\ SubSeq(s, 1, Len(s) - 1) \in Seq(S)
      /\ Len(SubSeq(s, 1, Len(s) - 1)) = Len(s) - 1
      /\ \A i \in 1 .. Len(s) - 1 : SubSeq(s, 1, Len(s) - 1)[i] = s[i]
  <2> DEFINE n == Len(s) - 1
  <2>1. n \in Nat /\ \A i \in 1 .. n : s[i] \in S
    BY <1>1
  <2> HIDE DEF n
  <2>2. \A i \in 1 .. n : 1 + i - 1 = i
    BY <2>1
  <2>3. /\ SubSeq(s, 1, n) \in Seq(S)
        /\ Len(SubSeq(s, 1, n)) = IF 1 <= n THEN n - 1 + 1 ELSE 0
        /\ \A i \in 1 .. n - 1 + 1 : SubSeq(s, 1, n)[i] = s[1 + i - 1]
    BY <2>1, SubSeqProperties
  <2>4. /\ SubSeq(s, 1, n) \in Seq(S) /\ Len(SubSeq(s, 1, n)) = n
        /\ \A i \in 1 .. n : SubSeq(s, 1, n)[i] = s[i]
    BY <2>1, <2>2, <2>3
  <2> QED BY <2>4 DEF n
<1> QED BY <1>1, <1>2, <1>3 DEF Front

LEMMA InnermostType ==
  ASSUME TypeOK, NEW g \in Goroutines, stack[g] # <<>>
  PROVE  Innermost(g) \in Txs
BY LastFront DEF TypeOK, Innermost

LEMMA CtxTxType ==
  ASSUME TypeOK, NEW g \in Goroutines PROVE CtxTx(g) \in Txs \cup {NoTx}
BY InnermostType DEF TypeOK, CtxTx

(* A change of fields of one write is a change of that write.              *)
LEMMA OneWrite ==
  ASSUME TypeOK, NEW w \in Written, NEW e \in Writes,
         writes' = [writes EXCEPT ![w] = e]
  PROVE  /\ writes' \in Seq(Writes) /\ Len(writes') = Len(writes)
         /\ Written' = Written /\ writes'[w] = e
         /\ \A v \in Written : v # w => writes'[v] = writes[v]
<1>1. writes \in Seq(Writes) /\ w \in 1 .. Len(writes)
  BY DEF TypeOK, Written
<1> QED BY <1>1, ExceptSeq DEF Written

LEMMA WriteType ==
  ASSUME TypeOK, NEW w \in Written PROVE writes[w] \in Writes
BY ElementOfSeq DEF TypeOK, Written

(* What is in the tail of a sequence was in the sequence.                  *)
LEMMA TailElements ==
  ASSUME NEW q \in Seq(Nat), q # <<>>, NEW S, \A n \in 1 .. Len(q) : q[n] \in S
  PROVE  \A n \in 1 .. Len(Tail(q)) : Tail(q)[n] \in S
<1>1. /\ Len(Tail(q)) = Len(q) - 1 /\ Len(q) \in Nat
      /\ \A n \in 1 .. Len(Tail(q)) : Tail(q)[n] = q[n + 1]
  BY HeadTailProperties, LenProperties
<1> QED BY <1>1

LEMMA InitTypeInv == Init => TypeInv
<1> SUFFICES ASSUME Init PROVE TypeInv
  OBVIOUS
<1>1. Ids!TypeOK
  BY DEF Init, Ids!TypeOK, Ids!Init, Ids!NoId
<1>2. PICK s \in Setups : modelOf = s.modelOf /\ routed = s.routed /\ limit = s.limit
  BY DEF Init
<1>3. /\ modelOf \in [Goroutines -> Models] /\ routed \in [Models -> Routings]
      /\ limit \in Limits
  BY <1>2
<1>4. /\ cur \in [Goroutines -> [write : Nat, tx : Txs \cup {NoTx}]]
      /\ pc \in [Goroutines -> PCs]
  BY DEF Init, NoWrite, PCs
<1>5. TypeOK
  BY <1>1, <1>3, <1>4 DEF Init, TypeOK
<1> QED BY <1>5 DEF Init, TypeInv, Txs

-----------------------------------------------------------------------------
(* Types *)

LEMMA IdsType ==
  ASSUME TypeOK, NEW g \in Goroutines,
         UNCHANGED children,
         \/ UNCHANGED ids \/ Ids!ClearReqId(g)
         \/ \E r \in Requests \cup {NoReq} : Ids!BindCtx(g, r) \/ Ids!Release(g, r)
  PROVE  Ids!TypeOK'
<1>1. \A r \in Requests : <<r>> \in Seq(Requests \cup Nat)
  OBVIOUS
<1>2. \A i \in Seq(Requests \cup Nat) :
        Ids!SetReqId(g, i) => ids' \in [Goroutines -> Seq(Requests \cup Nat)]
  BY DEF TypeOK, Ids!TypeOK, Ids!SetReqId
<1>3. <<>> \in Seq(Requests \cup Nat)
  OBVIOUS
<1>4. ids' \in [Goroutines -> Seq(Requests \cup Nat)]
  <2>1. CASE UNCHANGED ids
    BY <2>1 DEF TypeOK, Ids!TypeOK
  <2>2. CASE \E i \in Seq(Requests \cup Nat) : Ids!SetReqId(g, i)
    BY <1>2, <2>2
  <2>3. UNCHANGED ids \/ \E i \in Seq(Requests \cup Nat) : Ids!SetReqId(g, i)
    BY <1>1, <1>3 DEF Ids!ClearReqId, Ids!BindCtx, Ids!Release, Ids!IdOf, Ids!NoId
  <2> QED BY <2>1, <2>2, <2>3
<1> QED BY <1>4 DEF TypeOK, Ids!TypeOK

LEMMA UnwindType ==
  ASSUME TypeInv, NEW g \in Goroutines, Unwind(g),
         UNCHANGED <<txs, modelOf, routed, limit, mtable, log, shared, unacked>>,
         mctx' \in [Models -> Txs \cup {NoTx}], mdb' \in [Models -> Txs \cup {NoTx}],
         UNCHANGED <<cur, loaded>> \/ Idle(g),
         writes' \in Seq(Writes), Written' = Written,
         crossed' \in [Goroutines -> BOOLEAN], last' \in [Txs -> Nat]
  PROVE  TypeInv'
<1>1. Ids!TypeOK' /\ left' \in [Goroutines -> BOOLEAN]
  <2>1. req[g] \in Requests \cup {NoReq}
    BY DEF TypeInv, TypeOK
  <2>2. left' \in [Goroutines -> BOOLEAN]
    BY DEF Unwind, Cleared, Released, TypeInv, TypeOK
  <2> QED BY <2>1, <2>2, IdsType DEF Unwind, Cleared, Released, TypeInv
<1>2. /\ pc' \in [Goroutines -> PCs] /\ pc'[g] = "off"
      /\ \A h \in Goroutines \ {g} : pc'[h] = pc[h]
  BY DEF Unwind, TypeInv, TypeOK, PCs
<1>3. panicked' \subseteq Txs
  BY DEF Unwind, TypeInv, TypeOK, ToSet
<1>4. stack' \in [Goroutines -> Seq(Txs)] /\ queue' \in [Goroutines -> Seq(Nat)]
  BY DEF Unwind, TypeInv, TypeOK
<1>5. /\ req' \in [Goroutines -> Requests \cup {NoReq}]
      /\ base' \in [Goroutines -> Txs \cup {NoTx}] /\ child' \in [Goroutines -> BOOLEAN]
  BY DEF Unwind, Forget, TypeInv, TypeOK
<1>11. /\ cur' \in [Goroutines -> [write : Nat, tx : Txs \cup {NoTx}]]
       /\ loaded' \in [Goroutines -> Seq(Nat)]
       /\ loaded'[g] = loaded[g] \/ loaded'[g] = <<>>
       /\ \A h \in Goroutines \ {g} : cur'[h] = cur[h] /\ loaded'[h] = loaded[h]
  <2>1. CASE UNCHANGED <<cur, loaded>>
    BY <2>1 DEF TypeInv, TypeOK
  <2>2. CASE Idle(g)
    <3>1. NoWrite \in [write : Nat, tx : Txs \cup {NoTx}] /\ <<>> \in Seq(Nat)
      BY DEF NoWrite
    <3>2. cur' = [cur EXCEPT ![g] = NoWrite] /\ loaded' = [loaded EXCEPT ![g] = <<>>]
      BY <2>2 DEF Idle
    <3> QED BY <3>1, <3>2 DEF TypeInv, TypeOK
  <2> QED BY <2>1, <2>2
<1>6. TypeOK'
  BY <1>1, <1>2, <1>3, <1>4, <1>5, <1>11 DEF Unwind, TypeInv, TypeOK, txs
<1>7. /\ queue'[g] = <<>> /\ UNCHANGED hooks
      /\ \A h \in Goroutines \ {g} : stack'[h] = stack[h] /\ queue'[h] = queue[h]
  BY DEF Unwind, TypeInv, TypeOK, txs
<1>8. /\ \A i \in 1 .. Len(queue'[g]) : queue'[g][i] \in 1 .. Len(log')
      /\ \A h \in Goroutines \ {g} :
           \A i \in 1 .. Len(queue'[h]) : queue'[h][i] \in 1 .. Len(log')
  <2>1. UNCHANGED log
    OBVIOUS
  <2>2. Len(queue'[g]) = 0
    BY <1>7
  <2>3. \A h \in Goroutines \ {g} :
          \A i \in 1 .. Len(queue'[h]) : queue'[h][i] \in 1 .. Len(log')
    BY <1>7, <2>1 DEF TypeInv
  <2>4. \A i \in 1 .. Len(queue'[g]) : queue'[g][i] \in 1 .. Len(log')
    BY <2>2
  <2> QED BY <2>3, <2>4
<1>9. /\ \A h \in Goroutines : \A i \in 1 .. Len(loaded'[h]) : loaded'[h][i] \in 1 .. Len(log')
      /\ \A t \in Txs : \A i \in 1 .. Len(hooks'[t]) : hooks'[t][i] \in 1 .. Len(log')
      /\ \A n \in 1 .. Len(log') : log'[n].write \in Written'
  <2>1. \A h \in Goroutines : loaded'[h] = loaded[h] \/ loaded'[h] = <<>>
    BY <1>11
  <2>2. \A h \in Goroutines : \A i \in 1 .. Len(loaded'[h]) : loaded'[h][i] \in 1 .. Len(log')
    <3> SUFFICES ASSUME NEW h \in Goroutines, NEW i \in 1 .. Len(loaded'[h])
                 PROVE  loaded'[h][i] \in 1 .. Len(log)
      OBVIOUS
    <3>1. loaded'[h] # <<>>
      OBVIOUS
    <3>2. loaded'[h] = loaded[h]
      BY <2>1, <3>1
    <3> QED BY <3>2 DEF TypeInv
  <2> QED BY <1>7, <2>2 DEF TypeInv
<1>10. \A h \in Goroutines :
         /\ pc'[h] \in {"hook", "append"} => cur'[h].write \in Written'
         /\ pc'[h] = "append" => cur'[h].tx \in Txs
         /\ pc'[h] \in {"range", "hooks"} => stack'[h] # <<>>
  <2>1. ASSUME NEW h \in Goroutines, h # g
        PROVE  /\ pc'[h] \in {"hook", "append"} => cur'[h].write \in Written'
               /\ pc'[h] = "append" => cur'[h].tx \in Txs
               /\ pc'[h] \in {"range", "hooks"} => stack'[h] # <<>>
    BY <1>2, <1>7, <1>11, <2>1 DEF TypeInv
  <2> QED BY <1>2, <2>1
<1> QED BY <1>6, <1>8, <1>9, <1>10 DEF TypeInv

(* A step between requests, statements and hooks: it moves goroutines that *)
(* have no statement in progress, and registers and runs nothing.          *)
LEMMA FrameType ==
  ASSUME TypeInv, TypeOK', UNCHANGED <<hooks, cur, loaded, queue, writes, log>>,
         \A g \in Goroutines :
           /\ pc'[g] \in {"hook", "append"} => pc'[g] = pc[g]
           /\ pc'[g] \in {"range", "hooks"} => stack'[g] # <<>>
  PROVE  TypeInv'
BY DEF TypeInv, Written

LEMMA PopType ==
  ASSUME TypeInv, NEW g \in Goroutines, pc[g] = "hooks", Pop(g)
  PROVE  /\ last' \in [Txs -> Nat] /\ Innermost(g) \in Txs
         /\ Head(queue[g]) \in 1 .. Len(log) /\ Head(queue[g]) = queue[g][1]
         /\ log[Head(queue[g])].write \in Written
         /\ log[Head(queue[g])] \in [tx : Txs, write : Nat]
<1>1. queue[g] \in Seq(Nat) /\ queue[g] # <<>> /\ log \in Seq([tx : Txs, write : Nat])
  BY DEF Pop, TypeInv, TypeOK
<1>2. Len(queue[g]) \in Nat \ {0} /\ Head(queue[g]) = queue[g][1]
  BY <1>1, EmptySeq
<1>3. Head(queue[g]) \in 1 .. Len(log) /\ Head(queue[g]) \in Nat
  BY <1>1, <1>2, HeadTailProperties DEF TypeInv
<1>4. Innermost(g) \in Txs
  BY InnermostType DEF TypeInv
<1>5. last' \in [Txs -> Nat]
  BY <1>3, <1>4 DEF Pop, TypeInv, TypeOK
<1> QED BY <1>1, <1>2, <1>3, <1>4, <1>5, ElementOfSeq DEF TypeInv

LEMMA InvalidateWrites ==
  ASSUME TypeOK, NEW w \in Written, Invalidate(w)
  PROVE  /\ writes' \in Seq(Writes) /\ Len(writes') = Len(writes)
         /\ writes'[w].fate = IF mtable[writes[w].model] = writes[w].table
                              THEN "right" ELSE "wrong"
         /\ writes'[w].tx = writes[w].tx /\ writes'[w].hook = writes[w].hook
         /\ writes'[w].model = writes[w].model /\ writes'[w].table = writes[w].table
         /\ writes'[w].crossed = writes[w].crossed
         /\ \A v \in Written : v # w => writes'[v] = writes[v]
<1> DEFINE e == [writes[w] EXCEPT !.fate =
             IF mtable[writes[w].model] = writes[w].table THEN "right" ELSE "wrong"]
<1>1. writes[w] \in Writes
  BY WriteType
<1>2. e \in Writes
  BY <1>1 DEF Writes
<1>3. writes' = [writes EXCEPT ![w] = e]
  BY DEF Invalidate
<1>4. /\ e.tx = writes[w].tx /\ e.hook = writes[w].hook /\ e.model = writes[w].model
      /\ e.table = writes[w].table /\ e.crossed = writes[w].crossed
      /\ e.fate = IF mtable[writes[w].model] = writes[w].table THEN "right" ELSE "wrong"
  BY <1>1 DEF Writes
<1> HIDE DEF e
<1> QED BY <1>2, <1>3, <1>4, OneWrite

LEMMA BaseModelType ==
  ASSUME TypeOK, NEW m \in Models, NEW t \in Txs \cup {NoTx}
  PROVE  Connection(m, t) \in Txs \cup {NoTx} /\ Table(m) \in Nat
BY DEF Connection, Table, TypeOK

LEMMA EndUseType ==
  ASSUME TypeOK, NEW g \in Goroutines, EndUse(g)
  PROVE  /\ mctx' \in [Models -> Txs \cup {NoTx}] /\ mdb' \in [Models -> Txs \cup {NoTx}]
         /\ crossed' \in [Goroutines -> BOOLEAN]
         /\ UNCHANGED <<modelOf, routed, limit, mtable>>
BY DEF EndUse, Leaves, TypeOK

-----------------------------------------------------------------------------
(* Types, step by step *)

LEMMA ServeType ==
  ASSUME TypeInv, NEW g \in Goroutines, NEW r \in Requests \cup {NoReq}, Serve(g, r)
  PROVE  TypeInv'
<1>1. TypeOK'
  BY DEF Serve, Goto, PCs, TypeInv, TypeOK, Ids!TypeOK, txs, models, op, reqids, history
<1> QED BY <1>1, FrameType DEF Serve, Goto, TypeInv, TypeOK, txs, op, history

LEMMA GoSafeType ==
  ASSUME TypeInv, NEW g \in Goroutines, NEW h \in Goroutines, GoSafe(g, h)
  PROVE  TypeInv'
<1> USE DEF TypeInv
<1>1. ids[g] \in Seq(Requests \cup Nat) /\ Ids!Started(ids[g]) \in Nat
  BY DEF TypeOK, Ids!TypeOK, Ids!Started
<1>2. Ids!nextChildReqID(ids[g]) \in Seq(Requests \cup Nat)
  BY <1>1 DEF Ids!nextChildReqID
<1>3. Ids!TypeOK'
  <2>1. CASE Ids!SetReqId(h, Ids!NoId) /\ UNCHANGED children
    <3>1. <<>> \in Seq(Requests \cup Nat)
      OBVIOUS
    <3> QED BY <2>1, <3>1 DEF TypeOK, Ids!TypeOK, Ids!SetReqId, Ids!NoId
  <2>2. CASE /\ Ids!SetReqId(h, Ids!nextChildReqID(ids[g]))
             /\ children' = [i \in DOMAIN children \cup {ids[g]} |->
                  IF i = ids[g] THEN Ids!Started(i) + 1 ELSE children[i]]
    <3>1. ids' \in [Goroutines -> Seq(Requests \cup Nat)]
      BY <1>2, <2>2 DEF TypeOK, Ids!TypeOK, Ids!SetReqId
    <3>2. /\ DOMAIN children' = DOMAIN children \cup {ids[g]}
          /\ \A i \in DOMAIN children' : children'[i] =
               IF i = ids[g] THEN Ids!Started(i) + 1 ELSE children[i]
      BY <2>2
    <3>3. /\ DOMAIN children' \subseteq Seq(Requests \cup Nat)
          /\ \A i \in DOMAIN children' : children'[i] \in Nat
      <4>1. DOMAIN children \subseteq Seq(Requests \cup Nat)
        BY DEF TypeOK, Ids!TypeOK
      <4>2. ASSUME NEW i \in DOMAIN children' PROVE children'[i] \in Nat
        <5>1. CASE i = ids[g]
          BY <1>1, <3>2, <5>1
        <5>2. CASE i # ids[g]
          <6>1. i \in DOMAIN children /\ children'[i] = children[i]
            BY <3>2, <5>2
          <6> QED BY <6>1 DEF TypeOK, Ids!TypeOK
        <5> QED BY <5>1, <5>2
      <4>3. DOMAIN children' \subseteq Seq(Requests \cup Nat)
        BY <1>1, <3>2, <4>1
      <4> QED BY <4>2, <4>3
    <3> QED BY <3>1, <3>3 DEF Ids!TypeOK
  <2> QED BY <2>1, <2>2 DEF GoSafe, Ids!GoSafe
<1>4. /\ base' \in [Goroutines -> Txs \cup {NoTx}] /\ child' \in [Goroutines -> BOOLEAN]
      /\ left' \in [Goroutines -> BOOLEAN] /\ req' \in [Goroutines -> Requests \cup {NoReq}]
      /\ pc' \in [Goroutines -> PCs]
  BY CtxTxType DEF GoSafe, Goto, PCs, TypeOK
<1>5. TypeOK'
  BY <1>3, <1>4 DEF GoSafe, TypeOK, txs, models, op, history
<1> QED BY <1>5, FrameType DEF GoSafe, Goto, TypeOK, txs, op, history

LEMMA EndType == ASSUME TypeInv, NEW g \in Goroutines, End(g) PROVE TypeInv'
<1> USE DEF TypeInv
<1>1. Ids!TypeOK' /\ left' \in [Goroutines -> BOOLEAN]
  BY IdsType DEF End, Cleared, TypeOK
<1>2. /\ base' \in [Goroutines -> Txs \cup {NoTx}] /\ child' \in [Goroutines -> BOOLEAN]
      /\ req' \in [Goroutines -> Requests \cup {NoReq}] /\ pc' \in [Goroutines -> PCs]
  BY DEF End, Forget, Goto, PCs, TypeOK
<1>3. TypeOK'
  BY <1>1, <1>2 DEF End, TypeOK, txs, models, op, history
<1> QED BY <1>3, FrameType DEF End, Goto, TypeOK, txs, op, history

LEMMA ReleasedType ==
  ASSUME TypeOK, NEW g \in Goroutines, Released(g), UNCHANGED children
  PROVE  Ids!TypeOK' /\ left' \in [Goroutines -> BOOLEAN]
<1>1. req[g] \in Requests \cup {NoReq}
  BY DEF TypeOK
<1> QED BY <1>1, IdsType DEF Released, TypeOK

LEMMA TransactionType ==
  ASSUME TypeInv, NEW g \in Goroutines, NEW t \in Txs, Transaction(g, t)
  PROVE  TypeInv'
<1> USE DEF TypeInv
<1>1. Ids!TypeOK' /\ left' \in [Goroutines -> BOOLEAN]
  <2>1. req[g] \in Requests \cup {NoReq}
    BY DEF TypeOK
  <2> QED BY <2>1, IdsType DEF Transaction, TypeOK
<1>2. stack' \in [Goroutines -> Seq(Txs)]
  BY DEF Transaction, TypeOK
<1>3. /\ phase' \in [Txs -> {"none", "open", "committed", "aborted"}]
      /\ pc' \in [Goroutines -> PCs]
  BY DEF Transaction, SetPhase, Goto, PCs, TypeOK
<1>4. TypeOK'
  BY <1>1, <1>2, <1>3 DEF Transaction, TypeOK, models, op, history
<1>5. \A h \in Goroutines : pc'[h] \in {"range", "hooks"} => stack'[h] = stack[h]
  BY DEF Transaction, Goto, TypeOK
<1> QED BY <1>4, <1>5, FrameType DEF Transaction, Goto, TypeOK, op, history

LEMMA BeginFailsType == ASSUME TypeInv, NEW g \in Goroutines, BeginFails(g) PROVE TypeInv'
<1> USE DEF TypeInv
<1>1. Ids!TypeOK' /\ left' \in [Goroutines -> BOOLEAN]
  BY ReleasedType DEF BeginFails
<1>2. pc' \in [Goroutines -> PCs]
  BY DEF BeginFails, Goto, PCs, TypeOK
<1>3. TypeOK'
  BY <1>1, <1>2 DEF BeginFails, TypeOK, txs, models, frames, op, history
<1> QED BY <1>3, FrameType DEF BeginFails, Goto, TypeOK, txs, frames, op, history

LEMMA LeaveType ==
  ASSUME TypeInv, NEW g \in Goroutines, stack[g] # <<>>, Leave(g),
         phase' \in [Txs -> {"none", "open", "committed", "aborted"}],
         unacked' \subseteq Txs, pc' = [pc EXCEPT ![g] = "idle"]
  PROVE  TypeInv'
<1> USE DEF TypeInv
<1>1. Ids!TypeOK' /\ left' \in [Goroutines -> BOOLEAN]
  BY ReleasedType DEF Leave
<1>2. Front(stack[g]) \in Seq(Txs)
  BY LastFront DEF TypeOK
<1>3. stack' \in [Goroutines -> Seq(Txs)] /\ \A h \in Goroutines \ {g} : stack'[h] = stack[h]
  BY <1>2 DEF Leave, TypeOK
<1>4. /\ pc' \in [Goroutines -> PCs] /\ pc'[g] = "idle"
      /\ \A h \in Goroutines \ {g} : pc'[h] = pc[h]
  BY DEF PCs, TypeOK
<1>5. TypeOK'
  BY <1>1, <1>3, <1>4 DEF Leave, TypeOK, models, op
<1> QED BY <1>3, <1>4, <1>5, FrameType DEF Leave, op

(* A step of the goroutine g that runs hooks.                              *)
LEMMA QueueType ==
  ASSUME TypeInv, TypeOK', UNCHANGED <<hooks, log, cur, loaded, stack>>,
         Len(writes') = Len(writes), NEW g \in Goroutines, stack[g] # <<>>,
         pc'[g] = "hooks",
         \A n \in 1 .. Len(queue'[g]) : queue'[g][n] \in 1 .. Len(log),
         \A h \in Goroutines \ {g} : pc'[h] = pc[h] /\ queue'[h] = queue[h]
  PROVE  TypeInv'
<1>1. Written' = Written
  BY DEF Written
<1>2. ASSUME NEW h \in Goroutines, h # g
      PROVE  /\ pc'[h] \in {"hook", "append"} => cur'[h].write \in Written'
             /\ pc'[h] = "append" => cur'[h].tx \in Txs
             /\ pc'[h] \in {"range", "hooks"} => stack'[h] # <<>>
             /\ \A i \in 1 .. Len(queue'[h]) : queue'[h][i] \in 1 .. Len(log')
  BY <1>1, <1>2 DEF TypeInv
<1>3. /\ \A h \in Goroutines : \A i \in 1 .. Len(loaded'[h]) : loaded'[h][i] \in 1 .. Len(log')
      /\ \A t \in Txs : \A i \in 1 .. Len(hooks'[t]) : hooks'[t][i] \in 1 .. Len(log')
      /\ \A n \in 1 .. Len(log') : log'[n].write \in Written'
  BY <1>1 DEF TypeInv
<1>4. \A h \in Goroutines :
        /\ pc'[h] \in {"hook", "append"} => cur'[h].write \in Written'
        /\ pc'[h] = "append" => cur'[h].tx \in Txs
        /\ pc'[h] \in {"range", "hooks"} => stack'[h] # <<>>
        /\ \A i \in 1 .. Len(queue'[h]) : queue'[h][i] \in 1 .. Len(log')
  BY <1>2
<1> QED BY <1>3, <1>4 DEF TypeInv

LEMMA EndTxType == ASSUME TypeInv, NEW g \in Goroutines, EndTx(g) PROVE TypeInv'
<1> USE DEF TypeInv
<1>1. CASE Rollback(g)
  <2>1. phase' \in [Txs -> {"none", "open", "committed", "aborted"}]
    BY <1>1 DEF Rollback, SetPhase, TypeOK
  <2> QED BY <1>1, <2>1, LeaveType DEF Rollback, Goto, TypeOK
<1>2. CASE FnPanics(g)
  BY <1>2, UnwindType DEF FnPanics, TypeOK, models, Written
<1>3. CASE Commit(g)
  <2>1. /\ phase' \in [Txs -> {"none", "open", "committed", "aborted"}]
        /\ pc' \in [Goroutines -> PCs]
    BY <1>3 DEF Commit, SetPhase, Goto, PCs, TypeOK
  <2>2. TypeOK'
    BY <1>3, <2>1 DEF Commit, TypeOK, Ids!TypeOK, models, frames, op, reqids, history
  <2> QED BY <1>3, <2>2, FrameType DEF Commit, Goto, TypeOK, frames, op, history
<1>4. CASE CommitFails(g)
  <2>1. /\ phase' \in [Txs -> {"none", "open", "committed", "aborted"}]
        /\ unacked' \subseteq Txs
    <3>1. Innermost(g) \in Txs
      BY <1>4, InnermostType DEF CommitFails
    <3>2. CASE SetPhase(Innermost(g), "aborted") /\ UNCHANGED unacked
      BY <3>1, <3>2 DEF SetPhase, TypeOK
    <3>3. CASE /\ SetPhase(Innermost(g), "committed")
               /\ unacked' = unacked \cup {Innermost(g)}
      BY <3>1, <3>3 DEF SetPhase, TypeOK
    <3> QED BY <1>4, <3>2, <3>3 DEF CommitFails
  <2> QED BY <1>4, <2>1, LeaveType DEF CommitFails, Goto
<1>5. CASE RangeHooks(g)
  <2>1. Innermost(g) \in Txs /\ stack[g] # <<>>
    BY <1>5, InnermostType DEF RangeHooks, Goto
  <2>2. /\ queue' \in [Goroutines -> Seq(Nat)] /\ queue'[g] = hooks[Innermost(g)]
        /\ \A h \in Goroutines \ {g} : queue'[h] = queue[h]
        /\ pc' \in [Goroutines -> PCs] /\ pc'[g] = "hooks"
        /\ \A h \in Goroutines \ {g} : pc'[h] = pc[h]
    BY <1>5, <2>1 DEF RangeHooks, Goto, PCs, TypeOK
  <2>3. TypeOK'
    BY <1>5, <2>2 DEF RangeHooks, TypeOK, Ids!TypeOK, txs, models, frames, reqids, history
  <2>4. UNCHANGED <<hooks, log, writes, cur, loaded, stack>>
    BY <1>5 DEF RangeHooks, txs, frames, history
  <2>5. \A n \in 1 .. Len(queue'[g]) : queue'[g][n] \in 1 .. Len(log)
    BY <2>1, <2>2
  <2> QED BY <2>1, <2>2, <2>3, <2>4, <2>5, QueueType
<1>6. CASE runAfterCommit(g)
  <2>1. pc[g] = "hooks" /\ queue[g] # <<>> /\ queue[g] \in Seq(Nat)
    BY <1>6 DEF runAfterCommit, Goto, Pop, TypeOK
  <2>2. /\ last' \in [Txs -> Nat] /\ log[Head(queue[g])].write \in Written
    BY <1>6, <2>1, PopType DEF runAfterCommit
  <2>3. writes' \in Seq(Writes) /\ Len(writes') = Len(writes)
    BY <1>6, <2>2, InvalidateWrites DEF runAfterCommit
  <2>4. /\ Tail(queue[g]) \in Seq(Nat) /\ Len(Tail(queue[g])) = Len(queue[g]) - 1
        /\ \A n \in 1 .. Len(Tail(queue[g])) : Tail(queue[g])[n] = queue[g][n + 1]
        /\ Len(queue[g]) \in Nat
    BY <2>1, HeadTailProperties, LenProperties
  <2>5. /\ queue' \in [Goroutines -> Seq(Nat)] /\ queue'[g] = Tail(queue[g])
        /\ \A h \in Goroutines \ {g} : queue'[h] = queue[h]
        /\ UNCHANGED pc /\ pc' \in [Goroutines -> PCs]
    BY <1>6, <2>1, <2>4 DEF runAfterCommit, Goto, TypeOK
  <2>6. TypeOK'
    BY <1>6, <2>2, <2>3, <2>5 DEF runAfterCommit, TypeOK, Ids!TypeOK, txs, models, frames,
       reqids
  <2>7. \A n \in 1 .. Len(queue'[g]) : queue'[g][n] \in 1 .. Len(log)
    <3>1. \A n \in 1 .. Len(queue[g]) : queue[g][n] \in 1 .. Len(log)
      OBVIOUS
    <3>2. \A n \in 1 .. Len(Tail(queue[g])) : Tail(queue[g])[n] \in 1 .. Len(log)
      BY <2>1, <3>1, TailElements
    <3> QED BY <2>5, <3>2
  <2>8. UNCHANGED <<hooks, log, cur, loaded, stack>>
    BY <1>6 DEF runAfterCommit, txs, frames
  <2>9. stack[g] # <<>>
    BY <2>1
  <2>10. pc'[g] = "hooks" /\ \A h \in Goroutines \ {g} : pc'[h] = pc[h]
    BY <2>1, <2>5
  <2> QED BY <2>3, <2>5, <2>6, <2>7, <2>8, <2>9, <2>10, QueueType
<1>7. CASE HookPanics(g)
  <2>1. last' \in [Txs -> Nat]
    BY <1>7, PopType DEF HookPanics
  <2> QED BY <1>7, <2>1, UnwindType DEF HookPanics, TypeOK, models, Written
<1>8. CASE CommitReturns(g)
  <2>1. stack[g] # <<>>
    BY <1>8 DEF CommitReturns, Goto
  <2> QED BY <1>8, <2>1, LeaveType DEF CommitReturns, Goto, TypeOK
<1> QED BY <1>1, <1>2, <1>3, <1>4, <1>5, <1>6, <1>7, <1>8 DEF EndTx

LEMMA UseType == ASSUME TypeInv, NEW g \in Goroutines, Use(g) PROVE TypeInv'
<1> USE DEF TypeInv
<1> DEFINE m == modelOf[g]
<1>0. m \in Models /\ CtxTx(g) \in Txs \cup {NoTx}
  BY CtxTxType DEF TypeOK
<1>1. CASE Read(g)
  <2>1. Connection(m, CtxTx(g)) \in Txs \cup {NoTx} /\ Table(m) \in Nat
    BY <1>0, BaseModelType
  <2>2. /\ mctx' \in [Models -> Txs \cup {NoTx}] /\ mdb' \in [Models -> Txs \cup {NoTx}]
        /\ mtable' \in [Models -> Nat]
    BY <1>0, <1>1, <2>1 DEF Read, Leaves, TypeOK
  <2>3. crossed' \in [Goroutines -> BOOLEAN] /\ pc' \in [Goroutines -> PCs]
    BY <1>1 DEF Read, Goto, PCs, TypeOK
  <2>4. Ids!TypeOK' /\ left' \in [Goroutines -> BOOLEAN]
    <3>1. req[g] \in Requests \cup {NoReq}
      BY DEF TypeOK
    <3>2. left' \in [Goroutines -> BOOLEAN]
      BY <1>1 DEF Read, TypeOK
    <3> QED BY <1>1, <3>1, <3>2, IdsType DEF Read
  <2>5. TypeOK'
    BY <1>1, <2>2, <2>3, <2>4 DEF Read, TypeOK, txs, frames, op
  <2> QED BY <1>1, <2>5, FrameType DEF Read, Goto, TypeOK, txs, frames, op
<1>2. CASE Update(g)
  <2>1. /\ mctx' \in [Models -> Txs \cup {NoTx}] /\ crossed' \in [Goroutines -> BOOLEAN]
        /\ pc' \in [Goroutines -> PCs]
    BY <1>0, <1>2 DEF Update, Goto, PCs, TypeOK
  <2>2. TypeOK'
    BY <1>2, <2>1 DEF Update, TypeOK, Ids!TypeOK, txs, frames, op, reqids
  <2> QED BY <1>2, <2>2, FrameType DEF Update, Goto, TypeOK, txs, frames, op
<1>3. CASE getDB(g)
  <2>1. mctx[m] \in Txs \cup {NoTx}
    BY <1>0 DEF TypeOK
  <2>2. Connection(m, mctx[m]) \in Txs \cup {NoTx} /\ Table(m) \in Nat
    BY <1>0, <2>1, BaseModelType
  <2>3. /\ mdb' \in [Models -> Txs \cup {NoTx}] /\ mtable' \in [Models -> Nat]
        /\ pc' \in [Goroutines -> PCs]
    BY <1>0, <1>3, <2>2 DEF getDB, Goto, PCs, TypeOK
  <2>4. TypeOK'
    BY <1>3, <2>3 DEF getDB, TypeOK, Ids!TypeOK, txs, frames, op, reqids, history
  <2> QED BY <1>3, <2>4, FrameType DEF getDB, Goto, TypeOK, txs, frames, op, history
<1>4. CASE Exec(g)
  <2> DEFINE e == [tx |-> mdb[m], hook |-> NoTx, model |-> m, table |-> mtable[m],
                   crossed |-> FALSE, fate |-> "made"]
  <2>1. e \in Writes
    BY <1>0 DEF Writes, TypeOK
  <2>2. writes' = Append(writes, e) /\ writes \in Seq(Writes)
    BY <1>4 DEF Exec, TypeOK
  <2> HIDE DEF e
  <2>3. /\ writes' \in Seq(Writes) /\ Len(writes') = Len(writes) + 1 /\ Len(writes) \in Nat
    BY <2>1, <2>2, AppendProperties, LenProperties
  <2>4. /\ cur' = [cur EXCEPT ![g] = [write |-> Len(writes) + 1, tx |-> NoTx]]
        /\ cur' \in [Goroutines -> [write : Nat, tx : Txs \cup {NoTx}]]
        /\ pc' \in [Goroutines -> PCs] /\ pc'[g] = "hook"
        /\ \A h \in Goroutines \ {g} : pc'[h] = pc[h]
    BY <1>4, <2>3 DEF Exec, Goto, PCs, TypeOK
  <2>5. TypeOK'
    BY <1>4, <2>3, <2>4 DEF Exec, TypeOK, Ids!TypeOK, txs, models, frames, reqids
  <2>6. Written \subseteq Written' /\ Len(writes) + 1 \in Written'
    BY <2>3 DEF Written
  <2>7. cur'[g].write = Len(writes) + 1 /\ \A h \in Goroutines \ {g} : cur'[h] = cur[h]
    BY <2>4 DEF TypeOK
  <2> QED BY <1>4, <2>4, <2>5, <2>6, <2>7 DEF Exec, txs, frames
<1>5. CASE ExecFails(g)
  <2>1. pc' \in [Goroutines -> PCs]
    BY <1>5 DEF ExecFails, Goto, PCs, TypeOK
  <2>2. TypeOK'
    BY <1>5, <2>1, EndUseType DEF ExecFails, TypeOK, Ids!TypeOK, txs, frames, op, reqids
  <2> QED BY <1>5, <2>2, FrameType DEF ExecFails, Goto, TypeOK, txs, frames, op
<1>6. CASE AfterCommit(g)
  <2> DEFINE w == cur[g].write  t == mctx[m]
  <2>1. /\ pc[g] = "hook" /\ w \in Written /\ t \in Txs \cup {NoTx}
        /\ writes[w] \in Writes /\ crossed[g] \in BOOLEAN
    BY <1>0, <1>6, WriteType DEF AfterCommit, Goto, TypeOK
  <2>2. CASE /\ t = NoTx /\ Goto(g, "hook", "idle")
             /\ writes' = [writes EXCEPT ![w].crossed = crossed[g], ![w].fate =
                  IF mtable[m] = writes[w].table THEN "right" ELSE "wrong"]
             /\ cur' = [cur EXCEPT ![g] = NoWrite]
             /\ UNCHANGED loaded
    <3> DEFINE e == [writes[w] EXCEPT !.crossed = crossed[g], !.fate =
                       IF mtable[m] = writes[w].table THEN "right" ELSE "wrong"]
    <3>1. e \in Writes /\ writes' = [writes EXCEPT ![w] = e]
      BY <2>1, <2>2 DEF Writes
    <3>2. writes' \in Seq(Writes) /\ Written' = Written
      BY <2>1, <3>1, OneWrite
    <3>3. /\ cur' \in [Goroutines -> [write : Nat, tx : Txs \cup {NoTx}]]
          /\ pc' \in [Goroutines -> PCs] /\ pc'[g] = "idle"
          /\ \A h \in Goroutines \ {g} : pc'[h] = pc[h] /\ cur'[h] = cur[h]
      BY <2>2 DEF Goto, NoWrite, PCs, TypeOK
    <3>4. TypeOK'
      BY <1>6, <2>2, <3>2, <3>3, EndUseType DEF AfterCommit, TypeOK, Ids!TypeOK, txs,
         frames, reqids
    <3> QED BY <1>6, <2>2, <3>2, <3>3, <3>4 DEF AfterCommit, txs, frames
  <2>3. CASE /\ t # NoTx /\ Goto(g, "hook", "append")
             /\ writes' = [writes EXCEPT ![w].crossed = crossed[g], ![w].hook = t]
             /\ cur' = [cur EXCEPT ![g].tx = t]
             /\ loaded' = [loaded EXCEPT ![g] = hooks[t]]
    <3> DEFINE e == [writes[w] EXCEPT !.crossed = crossed[g], !.hook = t]
    <3>1. e \in Writes /\ writes' = [writes EXCEPT ![w] = e] /\ t \in Txs
      BY <2>1, <2>3 DEF Writes
    <3>2. writes' \in Seq(Writes) /\ Written' = Written
      BY <2>1, <3>1, OneWrite
    <3>3. /\ cur' \in [Goroutines -> [write : Nat, tx : Txs \cup {NoTx}]]
          /\ cur'[g].write = w /\ cur'[g].tx = t
          /\ pc' \in [Goroutines -> PCs] /\ pc'[g] = "append"
          /\ \A h \in Goroutines \ {g} : pc'[h] = pc[h] /\ cur'[h] = cur[h]
      <4>1. cur' = [cur EXCEPT ![g] = [cur[g] EXCEPT !.tx = t]]
        BY <2>3
      <4>2. /\ [cur[g] EXCEPT !.tx = t] \in [write : Nat, tx : Txs \cup {NoTx}]
            /\ [cur[g] EXCEPT !.tx = t].write = w /\ [cur[g] EXCEPT !.tx = t].tx = t
        BY <2>1 DEF TypeOK
      <4> HIDE DEF t, w
      <4>3. /\ cur' \in [Goroutines -> [write : Nat, tx : Txs \cup {NoTx}]]
            /\ cur'[g].write = w /\ cur'[g].tx = t
            /\ \A h \in Goroutines \ {g} : cur'[h] = cur[h]
        BY <4>1, <4>2 DEF TypeOK
      <4>4. /\ pc' \in [Goroutines -> PCs] /\ pc'[g] = "append"
            /\ \A h \in Goroutines \ {g} : pc'[h] = pc[h]
        BY <2>3 DEF Goto, PCs, TypeOK
      <4> QED BY <4>3, <4>4
    <3>4. /\ loaded' \in [Goroutines -> Seq(Nat)] /\ loaded'[g] = hooks[t]
          /\ \A h \in Goroutines \ {g} : loaded'[h] = loaded[h]
      BY <2>3, <3>1 DEF TypeOK
    <3>5. TypeOK'
      BY <1>6, <3>2, <3>3, <3>4, EndUseType DEF AfterCommit, TypeOK, Ids!TypeOK, txs,
         frames, reqids
    <3>6. UNCHANGED <<hooks, stack, queue, log>>
      BY <1>6 DEF AfterCommit, txs, frames
    <3>7. \A n \in 1 .. Len(loaded'[g]) : loaded'[g][n] \in 1 .. Len(log)
      BY <3>1, <3>4
    <3> HIDE DEF w, t, m
    <3>8. \A h \in Goroutines :
            /\ pc'[h] \in {"hook", "append"} => cur'[h].write \in Written'
            /\ pc'[h] = "append" => cur'[h].tx \in Txs
            /\ pc'[h] \in {"range", "hooks"} => stack'[h] # <<>>
            /\ \A n \in 1 .. Len(queue'[h]) : queue'[h][n] \in 1 .. Len(log')
            /\ \A n \in 1 .. Len(loaded'[h]) : loaded'[h][n] \in 1 .. Len(log')
      <4>1. /\ cur'[g].write \in Written' /\ cur'[g].tx \in Txs
            /\ pc'[g] = "append"
            /\ \A n \in 1 .. Len(queue'[g]) : queue'[g][n] \in 1 .. Len(log')
            /\ \A n \in 1 .. Len(loaded'[g]) : loaded'[g][n] \in 1 .. Len(log')
        BY <2>1, <3>1, <3>2, <3>3, <3>6, <3>7
      <4>2. ASSUME NEW h \in Goroutines, h # g
            PROVE  /\ pc'[h] = pc[h] /\ cur'[h] = cur[h] /\ stack'[h] = stack[h]
                   /\ queue'[h] = queue[h] /\ loaded'[h] = loaded[h]
        BY <3>3, <3>4, <3>6, <4>2
      <4>3. ASSUME NEW h \in Goroutines, h # g
            PROVE  /\ pc'[h] \in {"hook", "append"} => cur'[h].write \in Written'
                   /\ pc'[h] = "append" => cur'[h].tx \in Txs
                   /\ pc'[h] \in {"range", "hooks"} => stack'[h] # <<>>
                   /\ \A n \in 1 .. Len(queue'[h]) : queue'[h][n] \in 1 .. Len(log')
                   /\ \A n \in 1 .. Len(loaded'[h]) : loaded'[h][n] \in 1 .. Len(log')
        BY <3>1, <3>2, <3>6, <4>2, <4>3
      <4> QED BY <4>1, <4>3
    <3> QED BY <3>2, <3>5, <3>6, <3>8
  <2> QED BY <1>6, <2>2, <2>3 DEF AfterCommit
<1>7. CASE AppendHook(g)
  <2> DEFINE w == cur[g].write  t == cur[g].tx
  <2>1. w \in Written /\ w \in Nat /\ t \in Txs
    BY <1>7 DEF AppendHook, Goto, TypeOK, Written
  <2> DEFINE e == [writes[w] EXCEPT !.fate = "hooked"]
             r == [tx |-> t, write |-> w]
  <2>2. e \in Writes /\ writes' = [writes EXCEPT ![w] = e]
    <3>1. writes[w] \in Writes
      BY <2>1, WriteType
    <3>2. e \in Writes
      BY <3>1 DEF Writes
    <3>3. writes' = [writes EXCEPT ![w].fate = "hooked"]
      BY <1>7 DEF AppendHook
    <3> QED BY <3>2, <3>3
  <2>3. writes' \in Seq(Writes) /\ Written' = Written
    BY <2>1, <2>2, OneWrite
  <2>4. /\ r \in [tx : Txs, write : Nat] /\ log \in Seq([tx : Txs, write : Nat])
        /\ log' = Append(log, r)
    BY <1>7, <2>1 DEF AppendHook, TypeOK
  <2>5. /\ log' \in Seq([tx : Txs, write : Nat]) /\ Len(log') = Len(log) + 1
        /\ Len(log) \in Nat /\ log'[Len(log) + 1] = r
        /\ \A n \in 1 .. Len(log) : log'[n] = log[n]
    BY <2>4, AppendProperties, LenProperties
  <2>6. loaded[g] \in Seq(Nat) /\ Len(log) + 1 \in Nat
    BY <2>5 DEF TypeOK
  <2>7. /\ Append(loaded[g], Len(log) + 1) \in Seq(Nat)
        /\ Len(Append(loaded[g], Len(log) + 1)) = Len(loaded[g]) + 1 /\ Len(loaded[g]) \in Nat
        /\ \A i \in 1 .. Len(loaded[g]) : Append(loaded[g], Len(log) + 1)[i] = loaded[g][i]
        /\ Append(loaded[g], Len(log) + 1)[Len(loaded[g]) + 1] = Len(log) + 1
    BY <2>6, AppendProperties, LenProperties
  <2>8. /\ hooks' \in [Txs -> Seq(Nat)] /\ hooks'[t] = Append(loaded[g], Len(log) + 1)
        /\ \A u \in Txs \ {t} : hooks'[u] = hooks[u]
    BY <1>7, <2>1, <2>7 DEF AppendHook, TypeOK
  <2>9. /\ cur' \in [Goroutines -> [write : Nat, tx : Txs \cup {NoTx}]]
        /\ loaded' \in [Goroutines -> Seq(Nat)] /\ loaded'[g] = <<>>
        /\ pc' \in [Goroutines -> PCs] /\ pc'[g] = "idle" /\ shared' \subseteq Txs
        /\ \A h \in Goroutines \ {g} :
             pc'[h] = pc[h] /\ cur'[h] = cur[h] /\ loaded'[h] = loaded[h]
    <3>1. /\ cur' = [cur EXCEPT ![g] = NoWrite] /\ loaded' = [loaded EXCEPT ![g] = <<>>]
          /\ NoWrite \in [write : Nat, tx : Txs \cup {NoTx}]
      BY <1>7 DEF AppendHook, Idle, NoWrite
    <3>2. /\ cur' \in [Goroutines -> [write : Nat, tx : Txs \cup {NoTx}]]
          /\ loaded' \in [Goroutines -> Seq(Nat)] /\ loaded'[g] = <<>>
          /\ \A h \in Goroutines \ {g} : cur'[h] = cur[h] /\ loaded'[h] = loaded[h]
      BY <3>1 DEF TypeOK
    <3>3. /\ pc' \in [Goroutines -> PCs] /\ pc'[g] = "idle"
          /\ \A h \in Goroutines \ {g} : pc'[h] = pc[h]
      BY <1>7 DEF AppendHook, Goto, PCs, TypeOK
    <3>4. shared' \subseteq Txs
      BY <1>7, <2>1 DEF AppendHook, TypeOK
    <3> QED BY <3>2, <3>3, <3>4
  <2>10. TypeOK'
    BY <1>7, <2>3, <2>5, <2>8, <2>9 DEF AppendHook, TypeOK, Ids!TypeOK, models, frames,
       reqids
  <2>11. \A i \in 1 .. Len(hooks'[t]) : hooks'[t][i] \in 1 .. Len(log')
    <3> SUFFICES ASSUME NEW i \in 1 .. Len(loaded[g]) + 1
                 PROVE  Append(loaded[g], Len(log) + 1)[i] \in 1 .. Len(log) + 1
      BY <2>5, <2>7, <2>8
    <3>1. CASE i = Len(loaded[g]) + 1
      BY <2>5, <2>7, <3>1
    <3>2. CASE i \in 1 .. Len(loaded[g])
      <4>1. Append(loaded[g], Len(log) + 1)[i] \in 1 .. Len(log)
        BY <2>7, <3>2
      <4>2. 1 .. Len(log) \subseteq 1 .. Len(log) + 1
        BY <2>5
      <4> QED BY <4>1, <4>2
    <3> QED BY <2>7, <3>1, <3>2
  <2>12. 1 .. Len(log') = 1 .. Len(log) \cup {Len(log) + 1} /\ log'[Len(log) + 1].write = w
    BY <2>5
  <2>13. \A n \in 1 .. Len(log') : log'[n].write \in Written
    BY <2>1, <2>5, <2>12
  <2>14. UNCHANGED <<stack, queue>>
    BY <1>7 DEF AppendHook, frames
  <2> HIDE DEF w, t, r, e
  <2>15. \A u \in Txs : \A i \in 1 .. Len(hooks'[u]) : hooks'[u][i] \in 1 .. Len(log')
    BY <2>8, <2>11, <2>12
  <2>16. \A h \in Goroutines : \A i \in 1 .. Len(loaded'[h]) : loaded'[h][i] \in 1 .. Len(log')
    <3>1. \A i \in 1 .. Len(loaded'[g]) : FALSE
      BY <2>9
    <3>2. \A h \in Goroutines \ {g} : \A i \in 1 .. Len(loaded'[h]) :
            loaded'[h][i] \in 1 .. Len(log)
      BY <2>9
    <3> QED BY <2>12, <3>1, <3>2
  <2>17. \A h \in Goroutines :
           /\ pc'[h] \in {"hook", "append"} => cur'[h].write \in Written'
           /\ pc'[h] = "append" => cur'[h].tx \in Txs
           /\ pc'[h] \in {"range", "hooks"} => stack'[h] # <<>>
           /\ \A i \in 1 .. Len(queue'[h]) : queue'[h][i] \in 1 .. Len(log')
    BY <2>3, <2>9, <2>12, <2>14
  <2> QED BY <2>3, <2>10, <2>13, <2>15, <2>16, <2>17
<1>8. CASE ExecUnacked(g)
  <2> DEFINE e == [tx |-> NoTx, hook |-> NoTx, model |-> m, table |-> mtable[m],
                   crossed |-> crossed[g], fate |-> "unanswered"]
  <2>1. e \in Writes
    BY <1>0 DEF Writes, TypeOK
  <2>2. writes' = Append(writes, e) /\ writes \in Seq(Writes)
    BY <1>8 DEF ExecUnacked, TypeOK
  <2> HIDE DEF e
  <2>3. /\ writes' \in Seq(Writes) /\ Len(writes') = Len(writes) + 1 /\ Len(writes) \in Nat
    BY <2>1, <2>2, AppendProperties, LenProperties
  <2>4. /\ pc' \in [Goroutines -> PCs] /\ pc'[g] = "idle"
        /\ \A h \in Goroutines \ {g} : pc'[h] = pc[h]
    BY <1>8 DEF ExecUnacked, Goto, PCs, TypeOK
  <2>5. TypeOK'
    BY <1>8, <2>3, <2>4, EndUseType DEF ExecUnacked, TypeOK, Ids!TypeOK, txs, frames, op,
       reqids
  <2>6. Written \subseteq Written'
    BY <2>3 DEF Written
  <2> QED BY <1>8, <2>4, <2>5, <2>6 DEF ExecUnacked, txs, frames, op
<1>9. CASE InlineHookPanics(g)
  <2> DEFINE w == cur[g].write
             e == [writes[w] EXCEPT !.crossed = crossed[g], !.fate = "panicked"]
  <2>1. w \in Written /\ writes[w] \in Writes /\ crossed[g] \in BOOLEAN
    BY <1>9, WriteType DEF InlineHookPanics, TypeOK
  <2>2. e \in Writes /\ writes' = [writes EXCEPT ![w] = e]
    BY <1>9, <2>1 DEF InlineHookPanics, Writes
  <2>3. writes' \in Seq(Writes) /\ Written' = Written
    BY <2>1, <2>2, OneWrite
  <2>4. Unwind(g) /\ EndUse(g) /\ Idle(g) /\ UNCHANGED <<txs, log, last, shared, unacked>>
    BY <1>9 DEF InlineHookPanics
  <2>5. last' \in [Txs -> Nat]
    BY <2>4 DEF TypeOK
  <2> QED BY <2>3, <2>4, <2>5, EndUseType, UnwindType
<1> QED BY <1>1, <1>2, <1>3, <1>4, <1>5, <1>6, <1>7, <1>8, <1>9 DEF Use

LEMMA StepTypeInv == TypeInv /\ [Next]_vars => TypeInv'
<1> SUFFICES ASSUME TypeInv, [Next]_vars PROVE TypeInv'
  OBVIOUS
<1>1. CASE UNCHANGED vars
  BY <1>1 DEF vars, TypeInv, TypeOK, Ids!TypeOK, Written, txs, models, frames, op,
     reqids, history
<1> QED BY <1>1, ServeType, GoSafeType, EndType, TransactionType, BeginFailsType,
           EndTxType, UseType
        DEF Next

(* Every variable keeps its type: no step takes a transaction, a hook or a *)
(* write that is not there.                                                *)
THEOREM TypeCorrect == Spec => []TypeOK
<1>1. TypeInv => TypeOK
  BY DEF TypeInv
<1> QED BY InitTypeInv, StepTypeInv, <1>1, PTL DEF Spec

-----------------------------------------------------------------------------
(* Open transactions *)

Ending(g) == pc[g] \in {"range", "hooks"}

(* The transactions of a goroutine's calls are open, but for the innermost *)
(* one when it is committed and its hooks are run; no two calls have the   *)
(* same transaction; and one that is open belongs to a call, or to one     *)
(* that a panic has ended.                                                 *)
StackInv ==
    /\ \A g \in Goroutines : \A i \in 1 .. Len(stack[g]) :
         \/ phase[stack[g][i]] = "open"
         \/ i = Len(stack[g]) /\ Ending(g)
    /\ \A g \in Goroutines : Ending(g) => phase[Innermost(g)] = "committed"
    /\ \A g, h \in Goroutines :
         \A i \in 1 .. Len(stack[g]) : \A j \in 1 .. Len(stack[h]) :
           stack[g][i] = stack[h][j] => g = h /\ i = j
    /\ NoOpenTxLeft
    /\ \A g \in Goroutines : pc[g] = "off" => stack[g] = <<>>

(* What a step does to the calls of Transaction.                           *)
Alone(g) ==
    \A h \in Goroutines \ {g} : pc'[h] = pc[h] /\ stack'[h] = stack[h]

Pushes(g, t) ==
    /\ phase[t] = "none" /\ phase' = [phase EXCEPT ![t] = "open"]
    /\ pc[g] = "idle" /\ pc'[g] = "idle" /\ Alone(g)
    /\ stack'[g] = Append(stack[g], t)
    /\ UNCHANGED panicked

Commits(g) ==
    /\ pc[g] = "idle" /\ pc'[g] = "range" /\ Alone(g)
    /\ stack[g] # <<>> /\ stack'[g] = stack[g]
    /\ phase' = [phase EXCEPT ![Innermost(g)] = "committed"]
    /\ UNCHANGED panicked

Pops(g) ==
    /\ stack[g] # <<>> /\ stack'[g] = Front(stack[g])
    /\ pc[g] = "idle" \/ Ending(g)
    /\ pc'[g] = "idle" /\ Alone(g)
    /\ \/ Ending(g) /\ UNCHANGED phase
       \/ \E p \in {"committed", "aborted"} :
            pc[g] = "idle" /\ phase' = [phase EXCEPT ![Innermost(g)] = p]
    /\ UNCHANGED panicked

Unwinds(g) ==
    /\ stack'[g] = <<>> /\ pc'[g] = "off" /\ Alone(g)
    /\ UNCHANGED phase
    /\ panicked' = panicked \cup ToSet(stack[g])

Stays ==
    /\ UNCHANGED <<phase, stack, panicked>>
    /\ \A h \in Goroutines :
         (Ending(h)' <=> Ending(h)) /\ (pc'[h] = "off" => stack[h] = <<>>)

LEMMA StackSteps ==
  ASSUME TypeInv, StackInv, Next
  PROVE  \/ Stays
         \/ \E g \in Goroutines :
              \/ \E t \in Txs : Pushes(g, t)
              \/ Commits(g) \/ Pops(g) \/ Unwinds(g)
<1> USE DEF TypeInv, TypeOK, Goto, Ending, Alone
<1>1. ASSUME NEW g \in Goroutines, NEW r, Serve(g, r) PROVE Stays
  BY <1>1 DEF Serve, Stays, StackInv, txs, history
<1>2. ASSUME NEW g \in Goroutines, NEW h \in Goroutines, GoSafe(g, h) PROVE Stays
  BY <1>2 DEF GoSafe, Stays, StackInv, txs, history
<1>3. ASSUME NEW g \in Goroutines, End(g) PROVE Stays
  BY <1>3 DEF End, Stays, StackInv, txs, history
<1>4. ASSUME NEW g \in Goroutines, NEW t \in Txs, Transaction(g, t) PROVE Pushes(g, t)
  BY <1>4 DEF Transaction, Pushes, SetPhase, history
<1>5. ASSUME NEW g \in Goroutines, BeginFails(g) PROVE Stays
  BY <1>5 DEF BeginFails, Stays, StackInv, txs, frames, history
<1>6. ASSUME NEW g \in Goroutines, EndTx(g)
      PROVE  Stays \/ Commits(g) \/ Pops(g) \/ Unwinds(g)
  <2>1. CASE Rollback(g)
    BY <1>6, <2>1 DEF Rollback, Leave, SetPhase, Pops
  <2>2. CASE FnPanics(g)
    BY <2>2 DEF FnPanics, Unwind, Unwinds, txs
  <2>3. CASE Commit(g)
    BY <2>3 DEF Commit, SetPhase, Commits, frames, history
  <2>4. CASE CommitFails(g)
    BY <2>4 DEF CommitFails, Leave, SetPhase, Pops
  <2>5. CASE RangeHooks(g)
    BY <2>5 DEF RangeHooks, Stays, StackInv, txs, frames, history
  <2>6. CASE runAfterCommit(g)
    BY <2>6 DEF runAfterCommit, Stays, StackInv, txs, frames
  <2>7. CASE HookPanics(g)
    BY <2>7 DEF HookPanics, Unwind, Unwinds, txs
  <2>8. CASE CommitReturns(g)
    BY <2>8 DEF CommitReturns, Leave, Pops
  <2> QED BY <1>6, <2>1, <2>2, <2>3, <2>4, <2>5, <2>6, <2>7, <2>8 DEF EndTx
<1>8. ASSUME NEW g \in Goroutines, InlineHookPanics(g) PROVE Unwinds(g)
  BY <1>8 DEF InlineHookPanics, Unwind, Unwinds, txs
<1>7. ASSUME NEW g \in Goroutines, Use(g), ~InlineHookPanics(g) PROVE Stays
  <2>1. UNCHANGED <<phase, stack, panicked>>
    BY <1>7 DEF Use, Read, Update, getDB, Exec, ExecUnacked, ExecFails, AfterCommit,
                AppendHook, txs, frames, history
  <2>2. /\ \A h \in Goroutines \ {g} : pc'[h] = pc[h]
        /\ pc'[g] \in {"idle", "update", "exec", "hook", "append"}
        /\ pc[g] \in {"idle", "update", "exec", "hook", "append"}
    BY <1>7 DEF Use, Read, Update, getDB, Exec, ExecUnacked, ExecFails, AfterCommit,
                AppendHook
  <2> QED BY <2>1, <2>2 DEF Stays, StackInv
<1> QED BY <1>1, <1>2, <1>3, <1>4, <1>5, <1>6, <1>7, <1>8 DEF Next

LEMMA InitStackInv == Init => StackInv
<1> SUFFICES ASSUME Init PROVE StackInv
  OBVIOUS
<1>1. \A g \in Goroutines : stack[g] = <<>> /\ pc[g] = "off"
  BY DEF Init
<1>2. \A t \in Txs : phase[t] = "none"
  BY DEF Init
<1> QED BY <1>1, <1>2 DEF StackInv, Ending, NoOpenTxLeft, Open

LEMMA StepStackInv == TypeInv /\ StackInv /\ [Next]_vars => StackInv'
<1> SUFFICES ASSUME TypeInv, StackInv, [Next]_vars PROVE StackInv'
  OBVIOUS
<1>0. /\ phase \in [Txs -> {"none", "open", "committed", "aborted"}]
      /\ \A g \in Goroutines :
           /\ stack[g] \in Seq(Txs) /\ Len(stack[g]) \in Nat
           /\ \A i \in 1 .. Len(stack[g]) : stack[g][i] \in Txs
           /\ ToSet(stack[g]) = {stack[g][i] : i \in 1 .. Len(stack[g])}
  <2>1. \A g \in Goroutines : stack[g] \in Seq(Txs)
    BY DEF TypeInv, TypeOK
  <2> QED BY <2>1, LenProperties, ElementOfSeq DEF TypeInv, TypeOK, ToSet
<1>unique. ASSUME NEW g \in Goroutines, NEW h \in Goroutines,
                  NEW i \in 1 .. Len(stack[g]), NEW j \in 1 .. Len(stack[h]),
                  stack[g][i] = stack[h][j]
           PROVE  g = h /\ i = j
  BY <1>unique DEF StackInv
<1>phase. ASSUME NEW g \in Goroutines, NEW i \in 1 .. Len(stack[g])
          PROVE  phase[stack[g][i]] = "open" \/ (i = Len(stack[g]) /\ Ending(g))
  BY DEF StackInv
<1>left. ASSUME NEW u \in Txs, phase[u] = "open"
         PROVE  u \in panicked \/ \E h \in Goroutines : u \in ToSet(stack[h])
  BY <1>left DEF StackInv, NoOpenTxLeft, Open
<1>1. ASSUME Stays PROVE StackInv'
  <2>1. /\ UNCHANGED <<phase, stack, panicked>>
        /\ \A h \in Goroutines : Ending(h)' <=> Ending(h)
        /\ \A h \in Goroutines : Innermost(h)' = Innermost(h)
        /\ \A h \in Goroutines : pc'[h] = "off" => stack[h] = <<>>
    BY <1>1 DEF Stays, StackInv, Innermost
  <2>2. NoOpenTxLeft'
    BY <2>1 DEF StackInv, NoOpenTxLeft, Open
  <2>3. \A h \in Goroutines : \A i \in 1 .. Len(stack'[h]) :
          phase'[stack'[h][i]] = "open" \/ (i = Len(stack'[h]) /\ Ending(h)')
    BY <2>1, <1>phase
  <2>4. \A h, k \in Goroutines :
          \A i \in 1 .. Len(stack'[h]) : \A j \in 1 .. Len(stack'[k]) :
            stack'[h][i] = stack'[k][j] => h = k /\ i = j
    BY <2>1, <1>unique
  <2>5. \A h \in Goroutines : Ending(h)' => phase'[Innermost(h)'] = "committed"
    BY <2>1 DEF StackInv
  <2> QED BY <2>1, <2>2, <2>3, <2>4, <2>5 DEF StackInv
<1>2. ASSUME NEW g \in Goroutines, NEW t \in Txs, Pushes(g, t) PROVE StackInv'
  <2>1. /\ Len(stack'[g]) = Len(stack[g]) + 1 /\ stack'[g][Len(stack[g]) + 1] = t
        /\ \A i \in 1 .. Len(stack[g]) : stack'[g][i] = stack[g][i]
        /\ ToSet(stack'[g]) = ToSet(stack[g]) \cup {t}
    <3>1. /\ Len(stack'[g]) = Len(stack[g]) + 1 /\ stack'[g][Len(stack[g]) + 1] = t
          /\ \A i \in 1 .. Len(stack[g]) : stack'[g][i] = stack[g][i]
          /\ stack'[g] \in Seq(Txs)
      BY <1>0, <1>2, AppendProperties DEF Pushes
    <3>2. ToSet(stack'[g]) = {stack'[g][i] : i \in 1 .. Len(stack[g]) + 1}
      BY <3>1, LenProperties DEF ToSet
    <3>3. /\ 1 .. Len(stack[g]) + 1 = 1 .. Len(stack[g]) \cup {Len(stack[g]) + 1}
          /\ ToSet(stack[g]) = {stack[g][i] : i \in 1 .. Len(stack[g])}
      <4>1. Len(stack[g]) \in Nat
        BY <1>0
      <4>2. 1 .. Len(stack[g]) + 1 = 1 .. Len(stack[g]) \cup {Len(stack[g]) + 1}
        BY <4>1
      <4>3. ToSet(stack[g]) = {stack[g][i] : i \in 1 .. Len(stack[g])}
        BY <1>0, Zenon
      <4> QED BY <4>2, <4>3
    <3>4. ASSUME NEW u \in ToSet(stack'[g]) PROVE u \in ToSet(stack[g]) \cup {t}
      <4>1. PICK i \in 1 .. Len(stack[g]) + 1 : u = stack'[g][i]
        BY <3>2
      <4>2. CASE i = Len(stack[g]) + 1
        BY <3>1, <4>1, <4>2
      <4>3. CASE i \in 1 .. Len(stack[g])
        <5>1. u = stack[g][i]
          BY <3>1, <4>1, <4>3
        <5> QED BY <3>3, <4>3, <5>1
      <4> QED BY <3>3, <4>1, <4>2, <4>3
    <3>5. ASSUME NEW u \in ToSet(stack[g]) PROVE u \in ToSet(stack'[g])
      <4>1. PICK i \in 1 .. Len(stack[g]) : u = stack[g][i]
        BY <3>3
      <4>2. u = stack'[g][i] /\ i \in 1 .. Len(stack[g]) + 1
        BY <3>1, <3>3, <4>1
      <4> QED BY <3>2, <4>2
    <3>6. t \in ToSet(stack'[g])
      BY <3>1, <3>2, <3>3
    <3> QED BY <3>1, <3>4, <3>5, <3>6
  <2>2. \A u \in Txs : phase'[u] = IF u = t THEN "open" ELSE phase[u]
    BY <1>0, <1>2 DEF Pushes
  <2>3. \A h \in Goroutines : \A i \in 1 .. Len(stack[h]) : stack[h][i] # t
    <3> SUFFICES ASSUME NEW h \in Goroutines, NEW i \in 1 .. Len(stack[h]), stack[h][i] = t
                 PROVE  FALSE
      OBVIOUS
    <3>1. phase[t] = "none"
      BY <1>2 DEF Pushes
    <3>2. i = Len(stack[h]) /\ Ending(h)
      BY <3>1 DEF StackInv
    <3>3. phase[Innermost(h)] = "committed" /\ Innermost(h) = stack[h][i]
      BY <3>2 DEF StackInv, Innermost, Last
    <3> QED BY <3>1, <3>3
  <2>4. \A h \in Goroutines \ {g} : stack'[h] = stack[h] /\ pc'[h] = pc[h]
    BY <1>2 DEF Pushes, Alone
  <2>5. pc'[g] = "idle" /\ pc[g] = "idle"
    BY <1>2 DEF Pushes
  <2>6. \A h \in Goroutines : \A i \in 1 .. Len(stack'[h]) :
          \/ phase'[stack'[h][i]] = "open"
          \/ i = Len(stack'[h]) /\ Ending(h)'
    <3> SUFFICES ASSUME NEW h \in Goroutines, NEW i \in 1 .. Len(stack'[h])
                 PROVE  phase'[stack'[h][i]] = "open" \/ (i = Len(stack'[h]) /\ Ending(h)')
      OBVIOUS
    <3>1. CASE h # g
      BY <1>0, <2>2, <2>4, <3>1 DEF StackInv, Ending
    <3>2. CASE h = g /\ i \in 1 .. Len(stack[g])
      <4>1. phase[stack[g][i]] = "open"
        BY <1>phase, <2>5, <3>2 DEF Ending
      <4>2. stack'[g][i] = stack[g][i] /\ stack[g][i] \in Txs
        BY <1>0, <2>1, <3>2
      <4> QED BY <2>2, <3>2, <4>1, <4>2
    <3>3. CASE h = g /\ i = Len(stack[g]) + 1
      BY <2>1, <2>2, <3>3
    <3> QED BY <1>0, <2>1, <3>1, <3>2, <3>3
  <2>7. \A h \in Goroutines : Ending(h)' => phase'[Innermost(h)'] = "committed"
    <3> SUFFICES ASSUME NEW h \in Goroutines, Ending(h)'
                 PROVE  phase'[Innermost(h)'] = "committed"
      OBVIOUS
    <3>1. h # g /\ Ending(h) /\ Innermost(h)' = Innermost(h)
      BY <2>4, <2>5 DEF Ending, Innermost
    <3>2. Innermost(h) \in Txs /\ phase[Innermost(h)] = "committed"
      BY <3>1, InnermostType DEF StackInv, TypeInv, Ending
    <3>3. Innermost(h) # t
      BY <1>2, <3>2 DEF Pushes
    <3> QED BY <2>2, <3>1, <3>2, <3>3
  <2>8. \A h, k \in Goroutines :
          \A i \in 1 .. Len(stack'[h]) : \A j \in 1 .. Len(stack'[k]) :
            stack'[h][i] = stack'[k][j] => h = k /\ i = j
    <3>1. \A h \in Goroutines : \A i \in 1 .. Len(stack'[h]) :
            \/ i \in 1 .. Len(stack[h]) /\ stack'[h][i] = stack[h][i]
            \/ h = g /\ i = Len(stack[g]) + 1 /\ stack'[h][i] = t
      <4> SUFFICES ASSUME NEW h \in Goroutines, NEW i \in 1 .. Len(stack'[h])
                   PROVE  \/ i \in 1 .. Len(stack[h]) /\ stack'[h][i] = stack[h][i]
                          \/ h = g /\ i = Len(stack[g]) + 1 /\ stack'[h][i] = t
        OBVIOUS
      <4>1. CASE h # g
        BY <2>4, <4>1
      <4>2. CASE h = g
        <5>1. i \in 1 .. Len(stack[g]) + 1
          BY <2>1, <4>2
        <5>2. i \in 1 .. Len(stack[g]) \/ i = Len(stack[g]) + 1
          BY <1>0, <5>1
        <5> QED BY <2>1, <4>2, <5>2
      <4> QED BY <4>1, <4>2
    <3> SUFFICES ASSUME NEW h \in Goroutines, NEW k \in Goroutines,
                        NEW i \in 1 .. Len(stack'[h]), NEW j \in 1 .. Len(stack'[k]),
                        stack'[h][i] = stack'[k][j]
                 PROVE  h = k /\ i = j
      OBVIOUS
    <3>2. CASE i \in 1 .. Len(stack[h]) /\ stack'[h][i] = stack[h][i]
      <4>1. stack'[k][j] # t
        BY <2>3, <3>2
      <4>2. j \in 1 .. Len(stack[k]) /\ stack[h][i] = stack[k][j]
        BY <3>1, <3>2, <4>1
      <4> QED BY <3>2, <4>2, <1>unique
    <3>3. CASE h = g /\ i = Len(stack[g]) + 1 /\ stack'[h][i] = t
      <4>1. ~ (j \in 1 .. Len(stack[k]) /\ stack'[k][j] = stack[k][j])
        BY <2>3, <3>3
      <4> QED BY <3>1, <3>3, <4>1
    <3> QED BY <3>1, <3>2, <3>3
  <2>9. NoOpenTxLeft'
    <3>1. panicked' = panicked
      BY <1>2 DEF Pushes
    <3>2. \A h \in Goroutines : ToSet(stack[h]) \subseteq ToSet(stack'[h])
      BY <2>1, <2>4
    <3> SUFFICES ASSUME NEW u \in Txs, phase'[u] = "open"
                 PROVE  u \in panicked \/ \E h \in Goroutines : u \in ToSet(stack'[h])
      BY <3>1 DEF NoOpenTxLeft, Open
    <3>3. CASE u = t
      BY <2>1, <3>3
    <3>4. CASE u # t
      BY <2>2, <3>2, <3>4, <1>left
    <3> QED BY <3>3, <3>4
  <2> QED BY <2>4, <2>5, <2>6, <2>7, <2>8, <2>9 DEF StackInv
<1>3. ASSUME NEW g \in Goroutines, Commits(g) PROVE StackInv'
  <2>1. /\ UNCHANGED panicked /\ \A h \in Goroutines : stack'[h] = stack[h]
        /\ \A h \in Goroutines \ {g} : pc'[h] = pc[h]
        /\ pc[g] = "idle" /\ pc'[g] = "range" /\ stack[g] # <<>>
    BY <1>3 DEF Commits, Alone
  <2>2. Innermost(g) = stack[g][Len(stack[g])] /\ Innermost(g) \in Txs /\ Len(stack[g]) > 0
    BY <1>0, <2>1, LastFront DEF Innermost
  <2>3. \A u \in Txs : phase'[u] = IF u = Innermost(g) THEN "committed" ELSE phase[u]
    BY <1>0, <1>3, <2>2 DEF Commits
  <2>4. \A h \in Goroutines : \A i \in 1 .. Len(stack[h]) :
          stack[h][i] = Innermost(g) => h = g /\ i = Len(stack[g])
    <3>1. Len(stack[g]) \in 1 .. Len(stack[g])
      BY <1>0, <2>2
    <3> QED BY <2>2, <3>1, <1>unique
  <2>5. \A h \in Goroutines : \A i \in 1 .. Len(stack[h]) :
          phase'[stack[h][i]] = "open" \/ (i = Len(stack[h]) /\ Ending(h)')
    <3> SUFFICES ASSUME NEW h \in Goroutines, NEW i \in 1 .. Len(stack[h])
                 PROVE  phase'[stack[h][i]] = "open" \/ (i = Len(stack[h]) /\ Ending(h)')
      OBVIOUS
    <3>1. /\ stack[h][i] \in Txs
          /\ phase[stack[h][i]] = "open" \/ (i = Len(stack[h]) /\ Ending(h))
      BY <1>0 DEF StackInv
    <3>2. CASE stack[h][i] = Innermost(g)
      <4>1. h = g /\ i = Len(stack[g])
        BY <2>4, <3>2
      <4> QED BY <2>1, <4>1 DEF Ending
    <3>3. CASE stack[h][i] # Innermost(g)
      <4>1. phase'[stack[h][i]] = phase[stack[h][i]]
        BY <2>3, <3>1, <3>3
      <4>2. Ending(h) => Ending(h)'
        BY <2>1 DEF Ending
      <4> QED BY <3>1, <4>1, <4>2
    <3> QED BY <3>2, <3>3
  <2>6. \A h \in Goroutines : Ending(h)' => phase'[Innermost(h)] = "committed"
    <3>1. \A h \in Goroutines : Ending(h) => Innermost(h) \in Txs
      BY InnermostType DEF TypeInv, Ending
    <3> QED BY <2>1, <2>2, <2>3, <3>1 DEF StackInv, Ending
  <2>7. NoOpenTxLeft'
    BY <2>1, <2>3 DEF StackInv, NoOpenTxLeft, Open
  <2>8. \A h \in Goroutines : Innermost(h)' = Innermost(h)
    BY <2>1 DEF Innermost
  <2>9. \A h, k \in Goroutines :
          \A i \in 1 .. Len(stack'[h]) : \A j \in 1 .. Len(stack'[k]) :
            stack'[h][i] = stack'[k][j] => h = k /\ i = j
    BY <2>1 DEF StackInv
  <2>10. /\ \A h \in Goroutines : \A i \in 1 .. Len(stack'[h]) :
               phase'[stack'[h][i]] = "open" \/ (i = Len(stack'[h]) /\ Ending(h)')
         /\ \A h \in Goroutines : Ending(h)' => phase'[Innermost(h)'] = "committed"
    BY <2>1, <2>5, <2>6, <2>8
  <2>11. \A h \in Goroutines : pc'[h] = "off" => stack'[h] = <<>>
    BY <2>1 DEF StackInv
  <2> QED BY <2>7, <2>9, <2>10, <2>11 DEF StackInv
<1>4. ASSUME NEW g \in Goroutines, Pops(g) PROVE StackInv'
  <2> DEFINE t == Innermost(g)
  <2>1. /\ t = stack[g][Len(stack[g])] /\ t \in Txs /\ Len(stack[g]) > 0
        /\ Len(stack'[g]) = Len(stack[g]) - 1
        /\ \A i \in 1 .. Len(stack[g]) - 1 : stack'[g][i] = stack[g][i]
        /\ stack'[g] \in Seq(Txs)
    <3>1. stack[g] \in Seq(Txs) /\ stack[g] # <<>>
      BY <1>0, <1>4 DEF Pops
    <3>2. /\ Front(stack[g]) \in Seq(Txs) /\ Last(stack[g]) \in Txs
          /\ Len(Front(stack[g])) = Len(stack[g]) - 1
          /\ \A i \in 1 .. Len(stack[g]) - 1 : Front(stack[g])[i] = stack[g][i]
      BY <3>1, LastFront
    <3>3. Last(stack[g]) = stack[g][Len(stack[g])] /\ Len(stack[g]) > 0
      BY <1>0, <3>1, EmptySeq DEF Last
    <3> QED BY <1>4, <3>2, <3>3 DEF Pops, Innermost
  <2>2. \A h \in Goroutines \ {g} : stack'[h] = stack[h] /\ pc'[h] = pc[h]
    BY <1>4 DEF Pops, Alone
  <2>3. /\ \A u \in Txs : u # t => phase'[u] = phase[u]
        /\ phase'[t] # "open"
    BY <1>0, <1>4, <2>1 DEF Pops, StackInv
  <2>4. \A h \in Goroutines : \A i \in 1 .. Len(stack[h]) :
          stack[h][i] = t => h = g /\ i = Len(stack[g])
    BY <1>0, <2>1 DEF StackInv
  <2>5. pc'[g] = "idle" /\ panicked' = panicked
    BY <1>4 DEF Pops
  <2> HIDE DEF t
  <2>6. \A h \in Goroutines : \A i \in 1 .. Len(stack'[h]) :
          phase'[stack'[h][i]] = "open" \/ (i = Len(stack'[h]) /\ Ending(h)')
    <3> SUFFICES ASSUME NEW h \in Goroutines, NEW i \in 1 .. Len(stack'[h])
                 PROVE  phase'[stack'[h][i]] = "open" \/ (i = Len(stack'[h]) /\ Ending(h)')
      OBVIOUS
    <3>1. CASE h # g
      BY <1>0, <2>2, <2>3, <2>4, <3>1 DEF StackInv, Ending
    <3>2. CASE h = g
      <4>1. i \in 1 .. Len(stack[g]) - 1 /\ i \in 1 .. Len(stack[g]) /\ i # Len(stack[g])
        BY <1>0, <2>1, <3>2
      <4>2. phase[stack[g][i]] = "open" /\ stack[g][i] # t
        BY <2>4, <4>1 DEF StackInv
      <4> QED BY <1>0, <2>1, <2>3, <3>2, <4>1, <4>2
    <3> QED BY <3>1, <3>2
  <2>7. \A h \in Goroutines : Ending(h)' => phase'[Innermost(h)'] = "committed"
    <3> SUFFICES ASSUME NEW h \in Goroutines, Ending(h)'
                 PROVE  phase'[Innermost(h)'] = "committed"
      OBVIOUS
    <3>1. h # g /\ Ending(h) /\ Innermost(h)' = Innermost(h) /\ stack[h] # <<>>
      BY <2>2, <2>5 DEF Ending, Innermost, TypeInv
    <3>2. /\ Innermost(h) \in Txs /\ phase[Innermost(h)] = "committed"
          /\ Innermost(h) = stack[h][Len(stack[h])] /\ Len(stack[h]) \in 1 .. Len(stack[h])
      BY <1>0, <3>1, LastFront DEF StackInv, Innermost
    <3>3. Innermost(h) # t
      BY <2>4, <3>1, <3>2
    <3> QED BY <2>3, <3>1, <3>2, <3>3
  <2>8. \A h, k \in Goroutines :
          \A i \in 1 .. Len(stack'[h]) : \A j \in 1 .. Len(stack'[k]) :
            stack'[h][i] = stack'[k][j] => h = k /\ i = j
    <3>1. \A h \in Goroutines : \A i \in 1 .. Len(stack'[h]) :
            i \in 1 .. Len(stack[h]) /\ stack'[h][i] = stack[h][i]
      <4> SUFFICES ASSUME NEW h \in Goroutines, NEW i \in 1 .. Len(stack'[h])
                   PROVE  i \in 1 .. Len(stack[h]) /\ stack'[h][i] = stack[h][i]
        OBVIOUS
      <4>1. CASE h = g
        <5>1. i \in 1 .. Len(stack[g]) - 1
          BY <2>1, <4>1
        <5>2. i \in 1 .. Len(stack[g])
          BY <1>0, <5>1
        <5> QED BY <2>1, <4>1, <5>1, <5>2
      <4>2. CASE h # g
        BY <2>2, <4>2
      <4> QED BY <4>1, <4>2
    <3> SUFFICES ASSUME NEW h \in Goroutines, NEW k \in Goroutines,
                        NEW i \in 1 .. Len(stack'[h]), NEW j \in 1 .. Len(stack'[k]),
                        stack'[h][i] = stack'[k][j]
                 PROVE  h = k /\ i = j
      OBVIOUS
    <3>2. /\ i \in 1 .. Len(stack[h]) /\ j \in 1 .. Len(stack[k])
          /\ stack[h][i] = stack[k][j]
      BY <3>1
    <3> QED BY <3>2, <1>unique
  <2>9. NoOpenTxLeft'
    <3> SUFFICES ASSUME NEW u \in Txs, phase'[u] = "open"
                 PROVE  u \in panicked \/ \E h \in Goroutines : u \in ToSet(stack'[h])
      BY <2>5 DEF NoOpenTxLeft, Open
    <3>1. u # t /\ phase[u] = "open"
      BY <2>3
    <3>2. CASE u \in panicked
      BY <3>2
    <3>3. ASSUME NEW h \in Goroutines, u \in ToSet(stack[h]) PROVE u \in ToSet(stack'[h])
      <4>0. u \in {stack[h][i] : i \in 1 .. Len(stack[h])}
        BY <1>0, <3>3
      <4>1. PICK i \in 1 .. Len(stack[h]) : stack[h][i] = u
        BY <4>0
      <4>2. h = g => i \in 1 .. Len(stack'[g]) /\ stack'[g][i] = u
        <5>1. CASE h = g
          <6>1. i # Len(stack[g])
            BY <2>1, <3>1, <4>1, <5>1
          <6>2. i \in 1 .. Len(stack[g]) - 1
            BY <1>0, <4>1, <5>1, <6>1
          <6> QED BY <2>1, <4>1, <5>1, <6>2
        <5> QED BY <5>1
      <4>3. DOMAIN stack'[g] = 1 .. Len(stack'[g])
        BY <2>1, LenProperties
      <4> QED BY <2>2, <3>3, <4>2, <4>3 DEF ToSet
    <3> QED BY <3>1, <3>2, <3>3 DEF StackInv, NoOpenTxLeft, Open
  <2> QED BY <2>2, <2>5, <2>6, <2>7, <2>8, <2>9 DEF StackInv
<1>5. ASSUME NEW g \in Goroutines, Unwinds(g) PROVE StackInv'
  <2>1. /\ UNCHANGED phase /\ stack'[g] = <<>> /\ pc'[g] = "off"
        /\ \A h \in Goroutines \ {g} : stack'[h] = stack[h] /\ pc'[h] = pc[h]
        /\ panicked' = panicked \cup ToSet(stack[g])
    BY <1>5 DEF Unwinds, Alone
  <2>2. Len(stack'[g]) = 0
    BY <2>1
  <2>3. NoOpenTxLeft'
    <3> SUFFICES ASSUME NEW u \in Txs, phase'[u] = "open"
                 PROVE  u \in panicked' \/ \E h \in Goroutines : u \in ToSet(stack'[h])
      BY DEF NoOpenTxLeft, Open
    <3>1. u \in panicked \/ \E h \in Goroutines : u \in ToSet(stack[h])
      BY <2>1 DEF StackInv, NoOpenTxLeft, Open
    <3>2. u \in panicked \/ u \in ToSet(stack[g]) => u \in panicked'
      BY <2>1
    <3>3. ASSUME NEW h \in Goroutines, h # g, u \in ToSet(stack[h])
          PROVE  u \in ToSet(stack'[h])
      BY <2>1, <3>3
    <3> QED BY <3>1, <3>2, <3>3
  <2>4. /\ \A h \in Goroutines \ {g} : Ending(h)' = Ending(h) /\ Innermost(h)' = Innermost(h)
        /\ ~Ending(g)'
    BY <2>1 DEF Ending, Innermost
  <2>5. \A h \in Goroutines : \A i \in 1 .. Len(stack'[h]) :
          h # g /\ i \in 1 .. Len(stack[h]) /\ stack'[h] = stack[h]
    BY <2>1, <2>2
  <2>6. \A h, k \in Goroutines :
          \A i \in 1 .. Len(stack'[h]) : \A j \in 1 .. Len(stack'[k]) :
            stack'[h][i] = stack'[k][j] => h = k /\ i = j
    <3> SUFFICES ASSUME NEW h \in Goroutines, NEW k \in Goroutines,
                        NEW i \in 1 .. Len(stack'[h]), NEW j \in 1 .. Len(stack'[k]),
                        stack'[h][i] = stack'[k][j]
                 PROVE  h = k /\ i = j
      OBVIOUS
    <3>1. i \in 1 .. Len(stack[h]) /\ stack'[h] = stack[h]
      BY <2>5
    <3>2. j \in 1 .. Len(stack[k]) /\ stack'[k] = stack[k]
      BY <2>5
    <3>3. stack[h][i] = stack[k][j]
      BY <3>1, <3>2
    <3> QED BY <3>1, <3>2, <3>3, <1>unique
  <2>7. \A h \in Goroutines : \A i \in 1 .. Len(stack'[h]) :
          phase'[stack'[h][i]] = "open" \/ (i = Len(stack'[h]) /\ Ending(h)')
    <3> SUFFICES ASSUME NEW h \in Goroutines, NEW i \in 1 .. Len(stack'[h])
                 PROVE  phase'[stack'[h][i]] = "open" \/ (i = Len(stack'[h]) /\ Ending(h)')
      OBVIOUS
    <3>1. h # g /\ i \in 1 .. Len(stack[h]) /\ stack'[h] = stack[h]
      BY <2>5
    <3>2. phase[stack[h][i]] = "open" \/ (i = Len(stack[h]) /\ Ending(h))
      BY <3>1 DEF StackInv
    <3> QED BY <2>1, <2>4, <3>1, <3>2
  <2>8. \A h \in Goroutines : Ending(h)' => phase'[Innermost(h)'] = "committed"
    BY <2>1, <2>4 DEF StackInv
  <2>9. \A h \in Goroutines : pc'[h] = "off" => stack'[h] = <<>>
    BY <2>1 DEF StackInv
  <2> QED BY <2>3, <2>6, <2>7, <2>8, <2>9 DEF StackInv
<1>6. CASE UNCHANGED vars
  BY <1>6 DEF vars, txs, frames, history, StackInv, NoOpenTxLeft, Open, Ending, Innermost
<1> QED BY <1>1, <1>2, <1>3, <1>4, <1>5, <1>6, StackSteps

(* No open transaction is left behind by a call of Transaction that has    *)
(* returned, whatever failed: only a panic of fn leaves one.               *)
THEOREM OpenTxsHaveCalls == Spec => []NoOpenTxLeft
<1>1. StackInv => NoOpenTxLeft
  BY DEF StackInv
<1> QED BY InitTypeInv, StepTypeInv, InitStackInv, StepStackInv, <1>1, PTL DEF Spec

=============================================================================
