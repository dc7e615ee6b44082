--------------------------- MODULE TransactionsSafety ---------------------------
(***************************************************************************)
(* The remaining safety properties of Transactions, for any goroutines,    *)
(* models, routing, limits and faults: whose request id a goroutine logs,  *)
(* which connection a statement uses, when its invalidation runs and when  *)
(* it may be lost.                                                         *)
(***************************************************************************)
EXTENDS TransactionsContract

-----------------------------------------------------------------------------
(* Request ids *)

(* An id is that of a request or derived from it; unless a query left it   *)
(* there, a goroutine that has one is in a call of Transaction, or is one  *)
(* that log.Go gave the id, and works for the request of the id.           *)
OwnId(g) ==
    ids[g] # Ids!NoId =>
      /\ Head(ids[g]) \in Requests
      /\ left[g] \/ (/\ pc[g] # "off" /\ Head(ids[g]) = req[g]
                     /\ stack[g] # <<>> \/ child[g])

IdInv == \A g \in Goroutines : OwnId(g)

LEMMA KeepsId ==
  ASSUME NEW g \in Goroutines, OwnId(g), ids'[g] = ids[g], left'[g] = left[g],
         (pc'[g] # "off" /\ req'[g] = req[g]) \/ pc[g] = "off",
         stack[g] # <<>> \/ child[g] => stack'[g] # <<>> \/ child'[g]
  PROVE  OwnId(g)'
BY DEF OwnId, Ids!NoId

(* Release clears the id, unless the context of the call has none: then    *)
(* only a query can have left one.                                         *)
LEMMA ReleasesId ==
  ASSUME TypeInv, NEW g \in Goroutines, OwnId(g), Released(g)
  PROVE  /\ OwnId(g)'
         /\ \A h \in Goroutines \ {g} : ids'[h] = ids[h] /\ left'[h] = left[h]
<1>1. ids \in [Goroutines -> Seq(Requests \cup Nat)] /\ left \in [Goroutines -> BOOLEAN]
  BY DEF TypeInv, TypeOK, Ids!TypeOK
<1>2. CASE req[g] \in Requests
  <2>1. ids' = [ids EXCEPT ![g] = <<>>] /\ left' = [left EXCEPT ![g] = FALSE]
    BY <1>2 DEF Released, Ids!Release, Ids!ClearReqId, Ids!SetReqId, Ids!NoId
  <2> QED BY <1>1, <2>1 DEF OwnId, Ids!NoId
<1>3. CASE req[g] \notin Requests
  <2>1. ids' = ids /\ left' = [left EXCEPT ![g] = left[g]]
    BY <1>1, <1>3 DEF Released, Ids!Release
  <2>2. ids[g] # Ids!NoId => Head(ids[g]) \in Requests /\ left[g]
    BY <1>3 DEF OwnId
  <2> QED BY <1>1, <2>1, <2>2 DEF OwnId, Ids!NoId
<1> QED BY <1>2, <1>3

LEMMA ClearsId ==
  ASSUME TypeInv, NEW g \in Goroutines, Cleared(g)
  PROVE  /\ OwnId(g)'
         /\ \A h \in Goroutines \ {g} : ids'[h] = ids[h] /\ left'[h] = left[h]
<1>1. ids \in [Goroutines -> Seq(Requests \cup Nat)] /\ left \in [Goroutines -> BOOLEAN]
  BY DEF TypeInv, TypeOK, Ids!TypeOK
<1> QED BY <1>1 DEF Cleared, Ids!ClearReqId, Ids!SetReqId, OwnId, Ids!NoId

(* BindCtx gives the goroutine the id of its request, if it has one.       *)
LEMMA BindsId ==
  ASSUME TypeInv, NEW g \in Goroutines, Ids!BindCtx(g, req[g])
  PROVE  /\ \A h \in Goroutines \ {g} : ids'[h] = ids[h]
         /\ req[g] \in Requests => ids'[g] = <<req[g]>> /\ Head(ids'[g]) = req[g]
         /\ req[g] \notin Requests => ids'[g] = ids[g]
<1>1. ids \in [Goroutines -> Seq(Requests \cup Nat)]
  BY DEF TypeInv, TypeOK, Ids!TypeOK
<1>2. CASE req[g] \in Requests
  <2>1. ids' = [ids EXCEPT ![g] = <<req[g]>>]
    BY <1>2 DEF Ids!BindCtx, Ids!SetReqId, Ids!IdOf
  <2> QED BY <1>1, <1>2, <2>1
<1>3. CASE req[g] \notin Requests
  BY <1>3 DEF Ids!BindCtx
<1> QED BY <1>2, <1>3

(* The step of one goroutine leaves the ids of the others alone.           *)
Apart(g) ==
    \A h \in Goroutines \ {g} :
      /\ pc'[h] = pc[h] /\ stack'[h] = stack[h] /\ req'[h] = req[h]
      /\ child'[h] = child[h] /\ ids'[h] = ids[h] /\ left'[h] = left[h]

LEMMA ApartId ==
  ASSUME IdInv, NEW g \in Goroutines, Apart(g), OwnId(g)' PROVE IdInv'
BY DEF IdInv, Apart, OwnId

LEMMA InitIdInv == Init => IdInv
BY DEF Init, IdInv, OwnId, Ids!Init

LEMMA GoSafeId ==
  ASSUME TypeInv, IdInv, NEW g \in Goroutines, NEW h \in Goroutines, GoSafe(g, h)
  PROVE  IdInv'
<1>0. ids \in [Goroutines -> Seq(Requests \cup Nat)] /\ Ids!Started(ids[g]) \in Nat
  BY DEF TypeInv, TypeOK, Ids!TypeOK, Ids!Started
<1>1. Apart(h)
  <2>1. \A i : Ids!SetReqId(h, i) => \A k \in Goroutines \ {h} : ids'[k] = ids[k]
    BY <1>0 DEF Ids!SetReqId
  <2>2. \A k \in Goroutines \ {h} : ids'[k] = ids[k]
    BY <2>1 DEF GoSafe, Ids!GoSafe
  <2> QED BY <2>2 DEF Apart, GoSafe, Goto, TypeInv, TypeOK
<1>2. /\ pc'[h] = "idle" /\ req'[h] = req[g] /\ left'[h] = left[g]
      /\ child'[h] = (ids[g] # Ids!NoId) /\ pc[g] = "idle"
  BY DEF GoSafe, Goto, TypeInv, TypeOK
<1>3. CASE ids[g] = Ids!NoId
  BY <1>0, <1>1, <1>3, ApartId DEF GoSafe, Ids!GoSafe, Ids!SetReqId, OwnId
<1>4. CASE ids[g] # Ids!NoId
  <2>1. ids'[h] = Append(ids[g], Ids!Started(ids[g]) + 1)
    BY <1>0, <1>4 DEF GoSafe, Ids!GoSafe, Ids!SetReqId, Ids!nextChildReqID
  <2>2. ids[g] \in Seq(Requests \cup Nat) /\ ids[g] # <<>> /\ Len(ids[g]) \in Nat \ {0}
    BY <1>0, <1>4, EmptySeq, LenProperties DEF Ids!NoId
  <2>3. Head(ids'[h]) = Head(ids[g])
    BY <1>0, <2>1, <2>2
  <2>4. OwnId(g)
    BY DEF IdInv
  <2>5. OwnId(h)'
    BY <1>2, <1>4, <2>3, <2>4 DEF OwnId
  <2> QED BY <1>1, <2>5, ApartId
<1> QED BY <1>3, <1>4

LEMMA UnwindId ==
  ASSUME TypeInv, IdInv, NEW g \in Goroutines, Unwind(g) PROVE IdInv'
<1>1. \A h \in Goroutines \ {g} :
        /\ pc'[h] = pc[h] /\ stack'[h] = stack[h] /\ req'[h] = req[h]
        /\ child'[h] = child[h]
  BY DEF Unwind, Forget, TypeInv, TypeOK
<1>2. OwnId(g)
  BY DEF IdInv
<1>3. OwnId(g)' /\ \A h \in Goroutines \ {g} : ids'[h] = ids[h] /\ left'[h] = left[h]
  BY <1>2, ReleasesId, ClearsId DEF Unwind
<1> QED BY <1>1, <1>3, ApartId DEF Apart

LEMMA StepIdInv == TypeInv /\ IdInv /\ [Next]_vars => IdInv'
<1> SUFFICES ASSUME TypeInv, IdInv, [Next]_vars PROVE IdInv'
  OBVIOUS
<1>0. \A g \in Goroutines : OwnId(g)
  BY DEF IdInv
<1>1. CASE UNCHANGED vars
  BY <1>1 DEF vars, frames, reqids, IdInv, OwnId
<1>2. ASSUME NEW g \in Goroutines, NEW r, Serve(g, r) PROVE IdInv'
  <2>1. Apart(g) /\ OwnId(g)'
    BY <1>0, <1>2, KeepsId DEF Serve, Goto, Apart, reqids, TypeInv, TypeOK
  <2> QED BY <2>1, ApartId
<1>3. ASSUME NEW g \in Goroutines, End(g) PROVE IdInv'
  <2>1. \A h \in Goroutines \ {g} :
          /\ pc'[h] = pc[h] /\ stack'[h] = stack[h] /\ req'[h] = req[h]
          /\ child'[h] = child[h]
    BY <1>3 DEF End, Goto, Forget, TypeInv, TypeOK
  <2>2. CASE child[g] /\ Cleared(g)
    BY <2>1, <2>2, ClearsId, ApartId DEF Apart
  <2>3. CASE ~child[g] /\ UNCHANGED <<ids, left>>
    <3>1. OwnId(g)'
      BY <1>0, <1>3, <2>3 DEF End, OwnId
    <3> QED BY <2>1, <2>3, <3>1, ApartId DEF Apart
  <2> QED BY <1>3, <2>2, <2>3 DEF End
<1>4. ASSUME NEW g \in Goroutines, NEW t \in Txs, Transaction(g, t) PROVE IdInv'
  <2>1. /\ \A h \in Goroutines \ {g} : ids'[h] = ids[h]
        /\ req[g] \in Requests => ids'[g] = <<req[g]>> /\ Head(ids'[g]) = req[g]
        /\ req[g] \notin Requests => ids'[g] = ids[g]
    BY <1>4, BindsId DEF Transaction
  <2>2. /\ pc'[g] = "idle" /\ UNCHANGED <<req, child>> /\ stack'[g] = Append(stack[g], t)
        /\ left'[g] = (left[g] /\ req[g] \notin Requests)
        /\ \A h \in Goroutines \ {g} :
             pc'[h] = pc[h] /\ stack'[h] = stack[h] /\ left'[h] = left[h]
    BY <1>4 DEF Transaction, Goto, TypeInv, TypeOK
  <2>3. stack'[g] # <<>>
    <3>1. stack[g] \in Seq(Txs)
      BY DEF TypeInv, TypeOK
    <3> QED BY <2>2, <3>1
  <2>4. OwnId(g)'
    BY <1>0, <2>1, <2>2, <2>3 DEF OwnId
  <2> QED BY <2>1, <2>2, <2>4, ApartId DEF Apart
<1>5. ASSUME NEW g \in Goroutines, BeginFails(g) PROVE IdInv'
  BY <1>0, <1>5, ReleasesId, ApartId DEF BeginFails, Goto, frames, Apart, TypeInv, TypeOK
<1>6. ASSUME NEW g \in Goroutines, EndTx(g) PROVE IdInv'
  <2>1. CASE FnPanics(g) \/ HookPanics(g)
    BY <2>1, UnwindId DEF FnPanics, HookPanics
  <2>2. CASE Rollback(g) \/ CommitFails(g) \/ CommitReturns(g)
    <3>1. Released(g) /\ UNCHANGED <<req, child>>
      BY <2>2 DEF Rollback, CommitFails, CommitReturns, Leave
    <3>2. \A h \in Goroutines \ {g} : pc'[h] = pc[h] /\ stack'[h] = stack[h]
      BY <2>2 DEF Rollback, CommitFails, CommitReturns, Leave, Goto, TypeInv, TypeOK
    <3> QED BY <1>0, <3>1, <3>2, ReleasesId, ApartId DEF Apart
  <2>3. CASE Commit(g) \/ RangeHooks(g) \/ runAfterCommit(g)
    <3>1. UNCHANGED <<frames, reqids>>
      BY <2>3 DEF Commit, RangeHooks, runAfterCommit
    <3>2. /\ pc'[g] # "off"
          /\ \A h \in Goroutines \ {g} : pc'[h] = pc[h]
      BY <2>3 DEF Commit, RangeHooks, runAfterCommit, Goto, TypeInv, TypeOK
    <3>3. Apart(g) /\ OwnId(g)'
      BY <1>0, <3>1, <3>2, KeepsId DEF Apart, frames, reqids
    <3> QED BY <3>3, ApartId
  <2> QED BY <1>6, <2>1, <2>2, <2>3 DEF EndTx
<1>7. ASSUME NEW g \in Goroutines, Use(g) PROVE IdInv'
  <2>1. ASSUME ~InlineHookPanics(g)
        PROVE  /\ UNCHANGED frames /\ pc'[g] # "off"
               /\ \A h \in Goroutines \ {g} : pc'[h] = pc[h]
    <3>1. UNCHANGED frames
      BY <1>7, <2>1 DEF Use, Read, Update, getDB, Exec, ExecUnacked, ExecFails,
         AfterCommit, AppendHook
    <3>2. /\ pc'[g] # "off"
          /\ \A h \in Goroutines \ {g} : pc'[h] = pc[h]
      BY <1>7, <2>1 DEF Use, Read, Update, getDB, Exec, ExecUnacked, ExecFails,
         AfterCommit, AppendHook, Goto, TypeInv, TypeOK
    <3> QED BY <3>1, <3>2
  <2>2. CASE InlineHookPanics(g)
    BY <2>2, UnwindId DEF InlineHookPanics
  <2>3. CASE ~InlineHookPanics(g) /\ UNCHANGED <<ids, left>>
    <3>1. Apart(g) /\ OwnId(g)'
      BY <1>0, <2>1, <2>3, KeepsId DEF Apart, frames
    <3> QED BY <3>1, ApartId
  <2>4. CASE Read(g)
    <3>0. UNCHANGED frames /\ pc'[g] = "idle" /\ \A h \in Goroutines \ {g} : pc'[h] = pc[h]
      BY <2>4 DEF Read, Goto, TypeInv, TypeOK
    <3>1. /\ \A h \in Goroutines \ {g} : ids'[h] = ids[h]
          /\ req[g] \in Requests => ids'[g] = <<req[g]>> /\ Head(ids'[g]) = req[g]
          /\ req[g] \notin Requests => ids'[g] = ids[g]
      BY <2>4, BindsId DEF Read
    <3>2. /\ \A h \in Goroutines \ {g} : left'[h] = left[h]
          /\ left'[g] = IF req[g] \in Requests THEN stack[g] = <<>> /\ ~child[g]
                        ELSE left[g]
      BY <2>4 DEF Read, TypeInv, TypeOK
    <3>3. Apart(g)
      BY <3>0, <3>1, <3>2 DEF Apart, frames
    <3>4. OwnId(g)'
      BY <1>0, <3>0, <3>1, <3>2 DEF OwnId, frames
    <3> QED BY <3>3, <3>4, ApartId
  <2>5. Read(g) \/ InlineHookPanics(g) \/ UNCHANGED <<ids, left>>
    BY <1>7 DEF Use, Update, getDB, Exec, ExecUnacked, ExecFails, AfterCommit,
       AppendHook, reqids
  <2> QED BY <2>2, <2>3, <2>4, <2>5
<1> QED BY <1>1, <1>2, <1>3, <1>4, <1>5, <1>6, <1>7, GoSafeId DEF Next

(* A goroutine logs under the id of the request it works for, or of none,  *)
(* unless a query has bound an id where neither Transaction nor log.Go     *)
(* will clear it, in a transaction or outside.                             *)
THEOREM LogsOwnRequest == Spec => []IdOfOwnRequest
<1>1. IdInv => IdOfOwnRequest
  BY DEF IdInv, OwnId, IdOfOwnRequest
<1> QED BY InitTypeInv, StepTypeInv, InitIdInv, StepIdInv, <1>1, PTL DEF Spec

(* The id that log.Go makes extends that of the goroutine that calls it.   *)
ChildIds == {i \in Seq(Requests \cup Nat) : Len(i) > 1}

(* Goroutines that have ids of children at the same time differ in them,   *)
(* whoever started them and whatever runs, panics or ends in between: the  *)
(* counter of an id survives all of that.  The library never calls         *)
(* ResetChildCounter, which would delete it.  A query takes the id of a    *)
(* child away and binds that of the request, which others may have too.    *)
ChildIdsDiffer ==
    \A g, h \in Goroutines :
      g # h /\ ids[g] \in ChildIds => ids[g] # ids[h]

(* The counter of an id is never behind a child that still has its number. *)
Numbered ==
    \A g \in Goroutines, i \in Seq(Requests \cup Nat), k \in Nat :
      i # <<>> /\ ids[g] = Append(i, k) => k <= Ids!Started(i)

ChildInv == ChildIdsDiffer /\ Numbered

(* Except in log.Go, an id only goes or becomes that of a request.         *)
NoChildMade ==
    /\ UNCHANGED children
    /\ \A g \in Goroutines : ids'[g] = ids[g] \/ ids'[g] \notin ChildIds

LEMMA AppendIsChild ==
  ASSUME NEW i \in Seq(Requests \cup Nat), i # <<>>, NEW k \in Nat
  PROVE  Append(i, k) \in ChildIds
<1>1. Len(i) \in Nat \ {0}
  BY EmptySeq, LenProperties
<1>2. Append(i, k) \in Seq(Requests \cup Nat) /\ Len(Append(i, k)) = Len(i) + 1
  OBVIOUS
<1> QED BY <1>1, <1>2 DEF ChildIds

LEMMA AppendDiffers ==
  ASSUME NEW i \in Seq(Requests \cup Nat), NEW j \in Seq(Requests \cup Nat),
         NEW k \in Nat, NEW n \in Nat, Append(i, k) = Append(j, n)
  PROVE  i = j /\ k = n
<1>1. Len(i) = Len(j)
  OBVIOUS
<1>2. \A m \in 1 .. Len(i) : i[m] = Append(i, k)[m] /\ j[m] = Append(j, n)[m]
  BY <1>1
<1>3. i = j
  BY <1>1, <1>2, SeqEqual
<1>4. Append(i, k)[Len(i) + 1] = k /\ Append(j, n)[Len(j) + 1] = n
  OBVIOUS
<1> QED BY <1>1, <1>3, <1>4

LEMMA KeepsChildInv == ASSUME ChildInv, NoChildMade PROVE ChildInv'
<1>1. ChildIds' = ChildIds
  BY DEF ChildIds
<1>2. ChildIdsDiffer'
  <2> SUFFICES ASSUME NEW g \in Goroutines, NEW h \in Goroutines, g # h,
                      ids'[g] \in ChildIds, ids'[h] = ids'[g]
               PROVE  FALSE
    BY <1>1 DEF ChildIdsDiffer
  <2>1. ids'[g] = ids[g] /\ ids'[h] = ids[h]
    BY DEF NoChildMade
  <2> QED BY <2>1 DEF ChildInv, ChildIdsDiffer
<1>3. Numbered'
  <2> SUFFICES ASSUME NEW g \in Goroutines, NEW i \in Seq(Requests \cup Nat),
                      NEW k \in Nat, i # <<>>, ids'[g] = Append(i, k)
               PROVE  k <= Ids!Started(i)'
    BY DEF Numbered
  <2>1. ids'[g] = ids[g]
    BY AppendIsChild DEF NoChildMade
  <2>2. Ids!Started(i)' = Ids!Started(i)
    BY DEF NoChildMade, Ids!Started
  <2> QED BY <2>1, <2>2 DEF ChildInv, Numbered
<1> QED BY <1>2, <1>3 DEF ChildInv

LEMMA GoSafeChildInv ==
  ASSUME TypeInv, ChildInv, NEW g \in Goroutines, NEW h \in Goroutines, GoSafe(g, h)
  PROVE  ChildInv'
<1>0. ids \in [Goroutines -> Seq(Requests \cup Nat)]
  BY DEF TypeInv, TypeOK, Ids!TypeOK
<1>1. CASE Ids!SetReqId(h, Ids!NoId) /\ UNCHANGED children
  <2>1. <<>> \notin ChildIds
    BY DEF ChildIds
  <2> QED BY <1>0, <1>1, <2>1, KeepsChildInv DEF NoChildMade, Ids!SetReqId, Ids!NoId
<1>2. CASE /\ ids[g] # Ids!NoId
           /\ Ids!SetReqId(h, Ids!nextChildReqID(ids[g]))
           /\ children' = [i \in DOMAIN children \cup {ids[g]} |->
                IF i = ids[g] THEN Ids!Started(i) + 1 ELSE children[i]]
  <2> DEFINE j == ids[g]
             n == Ids!Started(j) + 1
  <2>1. j \in Seq(Requests \cup Nat) /\ j # <<>> /\ n \in Nat /\ Ids!Started(j) \in Nat
    BY <1>0, <1>2 DEF TypeInv, TypeOK, Ids!TypeOK, Ids!Started, Ids!NoId
  <2>2. /\ ids'[h] = Append(j, n)
        /\ \A o \in Goroutines \ {h} : ids'[o] = ids[o]
    BY <1>0, <1>2 DEF Ids!SetReqId, Ids!nextChildReqID
  <2>3. ASSUME NEW i, NEW m, m = Ids!Started(i)'
        PROVE  m = IF i = j THEN n ELSE Ids!Started(i)
    <3>1. DOMAIN children' = DOMAIN children \cup {j}
      BY <1>2
    <3>2. CASE i = j
      <4>1. children'[i] = n
        BY <1>2, <3>2
      <4> QED BY <2>3, <3>1, <3>2, <4>1 DEF Ids!Started
    <3>3. CASE i # j
      <4>1. i \in DOMAIN children => children'[i] = children[i]
        BY <1>2, <3>3
      <4> QED BY <2>3, <3>1, <3>3, <4>1 DEF Ids!Started
    <3> QED BY <3>2, <3>3
  <2>4. \A o \in Goroutines : ids[o] # Append(j, n)
    <3> SUFFICES ASSUME NEW o \in Goroutines, ids[o] = Append(j, n) PROVE FALSE
      OBVIOUS
    <3>1. n <= Ids!Started(j)
      BY <2>1 DEF ChildInv, Numbered
    <3> QED BY <2>1, <3>1
  <2> HIDE DEF j, n
  <2>5. ChildIdsDiffer'
    <3>1. ChildIds' = ChildIds
      BY DEF ChildIds
    <3> SUFFICES ASSUME NEW o \in Goroutines, NEW p \in Goroutines, o # p,
                        ids'[o] \in ChildIds, ids'[o] = ids'[p]
                 PROVE  FALSE
      BY <3>1 DEF ChildIdsDiffer
    <3> QED BY <2>2, <2>4 DEF ChildInv, ChildIdsDiffer
  <2>6. Numbered'
    <3> SUFFICES ASSUME NEW o \in Goroutines, NEW i \in Seq(Requests \cup Nat),
                        NEW k \in Nat, i # <<>>, ids'[o] = Append(i, k),
                        NEW m, m = Ids!Started(i)'
                 PROVE  k <= m
      BY DEF Numbered
    <3>1. CASE o = h
      <4>1. i = j /\ k = n
        BY <2>1, <2>2, <3>1, AppendDiffers
      <4> QED BY <2>1, <2>3, <4>1
    <3>2. CASE o # h
      <4>1. k <= Ids!Started(i)
        BY <2>2, <3>2 DEF ChildInv, Numbered
      <4>2. CASE i = j
        <5>1. m = n /\ n = Ids!Started(i) + 1
          BY <2>3, <4>2 DEF n
        <5>2. Ids!Started(i) \in Nat
          BY <2>1, <4>2
        <5> QED BY <4>1, <5>1, <5>2
      <4>3. CASE i # j
        BY <2>3, <4>1, <4>3
      <4> QED BY <4>2, <4>3
    <3> QED BY <3>1, <3>2
  <2> QED BY <2>5, <2>6 DEF ChildInv
<1> QED BY <1>1, <1>2 DEF GoSafe, Ids!GoSafe

(* What the other operations do to the ids.                                *)
LEMMA RequestIdOnly ==
  ASSUME TypeInv, NEW g \in Goroutines, UNCHANGED children,
         UNCHANGED ids \/ Cleared(g) \/ Released(g) \/ Ids!BindCtx(g, req[g])
  PROVE  NoChildMade
<1>1. ids \in [Goroutines -> Seq(Requests \cup Nat)]
  BY DEF TypeInv, TypeOK, Ids!TypeOK
<1>2. <<>> \notin ChildIds /\ \A r : <<r>> \notin ChildIds
  BY DEF ChildIds
<1>3. \/ UNCHANGED ids
      \/ ids' = [ids EXCEPT ![g] = <<>>]
      \/ \E r \in Requests : ids' = [ids EXCEPT ![g] = <<r>>]
  BY DEF Cleared, Released, Ids!Release, Ids!ClearReqId, Ids!BindCtx, Ids!SetReqId,
     Ids!IdOf, Ids!NoId
<1> QED BY <1>1, <1>2, <1>3 DEF NoChildMade

LEMMA StepChildInv == TypeInv /\ ChildInv /\ [Next]_vars => ChildInv'
<1> SUFFICES ASSUME TypeInv, ChildInv, [Next]_vars PROVE ChildInv'
  OBVIOUS
<1>1. CASE UNCHANGED vars
  BY <1>1, KeepsChildInv DEF vars, reqids, NoChildMade
<1>2. ASSUME NEW g \in Goroutines,
             \/ \E r \in Requests \cup {NoReq} : Serve(g, r)
             \/ End(g) \/ BeginFails(g) \/ EndTx(g) \/ Use(g)
             \/ \E t \in Txs : Transaction(g, t)
      PROVE  ChildInv'
  <2>1. /\ UNCHANGED children
        /\ UNCHANGED ids \/ Cleared(g) \/ Released(g) \/ Ids!BindCtx(g, req[g])
    <3>1. CASE EndTx(g)
      BY <3>1 DEF EndTx, Rollback, FnPanics, Commit, CommitFails, RangeHooks,
         runAfterCommit, HookPanics, CommitReturns, Leave, Unwind, reqids
    <3>2. CASE Use(g)
      BY <3>2 DEF Use, Read, Update, getDB, Exec, ExecUnacked, ExecFails, AfterCommit,
         InlineHookPanics, Unwind, AppendHook, reqids
    <3>3. CASE \/ \E r \in Requests \cup {NoReq} : Serve(g, r)
               \/ End(g) \/ BeginFails(g) \/ \E t \in Txs : Transaction(g, t)
      BY <3>3 DEF Serve, End, BeginFails, Transaction, reqids
    <3> QED BY <1>2, <3>1, <3>2, <3>3
  <2> QED BY <2>1, RequestIdOnly, KeepsChildInv
<1> QED BY <1>1, <1>2, GoSafeChildInv DEF Next

LEMMA InitChildInv == Init => ChildInv
<1> SUFFICES ASSUME Init PROVE ChildInv
  OBVIOUS
<1>1. \A g \in Goroutines : ids[g] = <<>>
  BY DEF Init, Ids!Init, Ids!NoId
<1>2. <<>> \notin ChildIds
  BY DEF ChildIds
<1>3. ChildIdsDiffer
  BY <1>1, <1>2 DEF ChildIdsDiffer
<1>4. Numbered
  BY <1>1, <1>2, AppendIsChild DEF Numbered
<1> QED BY <1>3, <1>4 DEF ChildInv

(* Two goroutines that log under one id at the same time have the id of    *)
(* their request or none: an id of a child is that of one goroutine only.  *)
(* (Goroutines of log.Go whose queries bound the request's id share it.)   *)
THEOREM SharedIdIsRequestId == Spec => []ChildIdsDiffer
<1>1. ChildInv => ChildIdsDiffer
  BY DEF ChildInv
<1> QED BY InitTypeInv, StepTypeInv, StepChildInv, InitChildInv, <1>1, PTL DEF Spec

(* When log.Go starts a goroutine for one that has an id, the id it makes  *)
(* is that of no goroutine, running children of children included.         *)
FreshId(g, h) ==
    GoSafe(g, h) /\ ids[g] # Ids!NoId => \A k \in Goroutines : ids[k] # ids'[h]

FreshChildId == [][\A g, h \in Goroutines : FreshId(g, h)]_vars

LEMMA GoSafeIsFresh ==
  ASSUME TypeInv, ChildInv, NEW g \in Goroutines, NEW h \in Goroutines
  PROVE  FreshId(g, h)
<1> SUFFICES ASSUME GoSafe(g, h), ids[g] # Ids!NoId, NEW k \in Goroutines,
                    ids[k] = ids'[h]
             PROVE  FALSE
  BY DEF FreshId
<1>1. ids \in [Goroutines -> Seq(Requests \cup Nat)] /\ Ids!Started(ids[g]) \in Nat
  BY DEF TypeInv, TypeOK, Ids!TypeOK, Ids!Started
<1>2. ids'[h] = Append(ids[g], Ids!Started(ids[g]) + 1)
  BY <1>1 DEF GoSafe, Ids!GoSafe, Ids!SetReqId, Ids!nextChildReqID
<1>3. ASSUME NEW i \in Seq(Requests \cup Nat), NEW n \in Nat, i # <<>>,
             ids[k] = Append(i, n)
      PROVE  n <= Ids!Started(i)
  BY <1>3 DEF ChildInv, Numbered
<1>4. ids[g] \in Seq(Requests \cup Nat) /\ Ids!Started(ids[g]) + 1 \in Nat /\ ids[g] # <<>>
  BY <1>1 DEF Ids!NoId
<1>5. Ids!Started(ids[g]) + 1 <= Ids!Started(ids[g])
  BY <1>2, <1>3, <1>4
<1> QED BY <1>1, <1>5

(* log.Go never gives out an id in use.                                    *)
THEOREM ChildIdsAreFresh == Spec => FreshChildId
<1>1. TypeInv /\ ChildInv => \A g, h \in Goroutines : FreshId(g, h)
  BY GoSafeIsFresh
<1>2. TypeInv /\ ChildInv /\ [Next]_vars => [\A g, h \in Goroutines : FreshId(g, h)]_vars
  BY <1>1
<1> QED BY InitTypeInv, StepTypeInv, StepChildInv, InitChildInv, <1>2, PTL
        DEF Spec, FreshChildId
-----------------------------------------------------------------------------
(* The uses of a model *)

(* Goroutines whose uses of a model overlap are both marked, and where     *)
(* there is no mark the model still has what its user has put there.       *)
UseInv ==
    /\ \A g, h \in Goroutines :
         g # h /\ modelOf[g] = modelOf[h] /\ pc[g] \in Using /\ pc[h] \in Using =>
           crossed[g]
    /\ \A g \in Goroutines : pc[g] \in Using =>
         crossed[g] \/ mctx[modelOf[g]] = CtxTx(g)
    /\ \A m \in Models : HasOwnDB(m) => mdb[m] = NoTx
    /\ StatementsStayInTx

LEMMA InitUseInv == Init => UseInv
BY DEF Init, UseInv, Using, StatementsStayInTx

(* What a goroutine that goes on using its model keeps.                    *)
Keeps(h) ==
    /\ pc'[h] \in Using => pc[h] \in Using
    /\ pc'[h] \in Using => CtxTx(h)' = CtxTx(h) /\ (crossed[h] => crossed'[h])

(* Goroutine g comes, goes or does something else, and the models stay.    *)
Away(g) ==
    /\ UNCHANGED <<models, crossed>>
    /\ pc'[g] \notin Using
    /\ \A h \in Goroutines \ {g} :
         pc'[h] = pc[h] /\ stack'[h] = stack[h] /\ base'[h] = base[h]

LEMMA AwaySteps ==
  ASSUME TypeInv, NEW g \in Goroutines,
         \/ \E r \in Requests \cup {NoReq} : Serve(g, r)
         \/ End(g) \/ BeginFails(g) \/ EndTx(g)
         \/ \E t \in Txs : Transaction(g, t)
  PROVE  Away(g)
<1> USE DEF Away, Goto, Using, TypeInv, TypeOK
<1>1. ASSUME NEW r, Serve(g, r) PROVE Away(g)
  BY <1>1 DEF Serve, history
<1>2. CASE End(g)
  BY <1>2 DEF End, Forget, history
<1>3. CASE BeginFails(g)
  BY <1>3 DEF BeginFails, frames, history
<1>4. ASSUME NEW t \in Txs, Transaction(g, t) PROVE Away(g)
  BY <1>4 DEF Transaction, history
<1>5. CASE Rollback(g) \/ CommitFails(g) \/ CommitReturns(g)
  BY <1>5 DEF Rollback, CommitFails, CommitReturns, Leave
<1>6. CASE FnPanics(g) \/ HookPanics(g)
  BY <1>6 DEF FnPanics, HookPanics, Unwind, Forget
<1>7. CASE Commit(g) \/ RangeHooks(g) \/ runAfterCommit(g)
  BY <1>7 DEF Commit, RangeHooks, runAfterCommit, frames, history
<1> QED BY <1>1, <1>2, <1>3, <1>4, <1>5, <1>6, <1>7 DEF EndTx

LEMMA GoSafeAway ==
  ASSUME TypeInv, NEW g \in Goroutines, NEW h \in Goroutines, GoSafe(g, h)
  PROVE  Away(h)
BY DEF GoSafe, Goto, Away, Using, history, TypeInv, TypeOK

LEMMA AwayKeeps ==
  ASSUME NEW g \in Goroutines, Away(g) PROVE \A h \in Goroutines : Keeps(h)
BY DEF Away, Keeps, CtxTx, Innermost

LEMMA AwayUse == ASSUME UseInv, NEW g \in Goroutines, Away(g) PROVE UseInv'
<1>1. \A h \in Goroutines : pc'[h] \in Using => h # g /\ pc'[h] = pc[h] /\ CtxTx(h)' = CtxTx(h)
  BY DEF Away, CtxTx, Innermost
<1>2. UNCHANGED <<modelOf, routed, mctx, mdb, crossed>>
  BY DEF Away, models
<1>3. \A h \in Goroutines : pc'[h] = "exec" => pc'[h] \in Using
  BY DEF Using
<1> QED BY <1>1, <1>2, <1>3 DEF UseInv, StatementsStayInTx, HasOwnDB

(* A step of g's own use of its model m leaves the other goroutines where  *)
(* they are, and those it overlaps with keep or get their mark.            *)
Within(g) ==
    /\ UNCHANGED <<modelOf, routed>>
    /\ UNCHANGED <<stack, base>> \/ pc'[g] \notin Using
    /\ \A h \in Goroutines \ {g} :
         /\ pc'[h] = pc[h] /\ stack'[h] = stack[h] /\ base'[h] = base[h]
         /\ crossed[h] => crossed'[h]
    /\ \A m \in Models \ {modelOf[g]} : mctx'[m] = mctx[m] /\ mdb'[m] = mdb[m]
    /\ HasOwnDB(modelOf[g]) => mdb'[modelOf[g]] = NoTx

LEMMA UseSteps ==
  ASSUME TypeInv, UseInv, NEW g \in Goroutines, Use(g) PROVE Within(g)
<1> USE DEF Within, Goto
<1>0. /\ modelOf \in [Goroutines -> Models] /\ mctx \in [Models -> Txs \cup {NoTx}]
      /\ mdb \in [Models -> Txs \cup {NoTx}] /\ pc \in [Goroutines -> PCs]
      /\ crossed \in [Goroutines -> BOOLEAN]
  BY DEF TypeInv, TypeOK
<1>1. ASSUME EndUse(g)
      PROVE  /\ UNCHANGED <<modelOf, routed>>
             /\ \A h \in Goroutines \ {g} : crossed[h] => crossed'[h]
             /\ \A m \in Models \ {modelOf[g]} : mctx'[m] = mctx[m] /\ mdb'[m] = mdb[m]
             /\ HasOwnDB(modelOf[g]) => mdb'[modelOf[g]] = NoTx
  BY <1>0, <1>1 DEF EndUse, Leaves, UseInv
<1>2. CASE Read(g)
  <2>1. HasOwnDB(modelOf[g]) => mdb'[modelOf[g]] = NoTx
    BY <1>0, <1>2 DEF Read, Leaves, Connection
  <2> QED BY <1>0, <1>2, <2>1 DEF Read, Leaves, frames
<1>3. CASE Update(g)
  BY <1>0, <1>3 DEF Update, UseInv, frames
<1>4. CASE getDB(g)
  <2>1. HasOwnDB(modelOf[g]) => mdb'[modelOf[g]] = NoTx
    BY <1>0, <1>4 DEF getDB, Connection
  <2> QED BY <1>0, <1>4, <2>1 DEF getDB, frames, history
<1>5. CASE Exec(g)
  BY <1>0, <1>5 DEF Exec, UseInv, models, frames
<1>6. CASE ExecFails(g) \/ ExecUnacked(g)
  BY <1>0, <1>1, <1>6 DEF ExecFails, ExecUnacked, frames
<1>7. CASE AfterCommit(g)
  BY <1>0, <1>1, <1>7 DEF AfterCommit, frames
<1>8. CASE InlineHookPanics(g)
  <2>1. /\ pc'[g] = "off"
        /\ \A h \in Goroutines \ {g} :
             pc'[h] = pc[h] /\ stack'[h] = stack[h] /\ base'[h] = base[h]
    BY <1>0, <1>8 DEF InlineHookPanics, Unwind, Forget, TypeInv, TypeOK
  <2> QED BY <1>1, <1>8, <2>1 DEF InlineHookPanics, Using
<1>9. CASE AppendHook(g)
  BY <1>0, <1>9 DEF AppendHook, UseInv, models, frames
<1> QED BY <1>2, <1>3, <1>4, <1>5, <1>6, <1>7, <1>8, <1>9 DEF Use

(* What a use of the model writes to it is seen by others only if they are *)
(* marked.                                                                 *)
LEMMA OthersMarked ==
  ASSUME TypeInv, UseInv, NEW g \in Goroutines, Use(g),
         NEW h \in Goroutines \ {g}, modelOf[h] = modelOf[g], pc[h] \in Using
  PROVE  crossed'[h] \/ (UNCHANGED mctx /\ UNCHANGED mdb)
<1>0. /\ modelOf \in [Goroutines -> Models] /\ mctx \in [Models -> Txs \cup {NoTx}]
      /\ mdb \in [Models -> Txs \cup {NoTx}] /\ crossed \in [Goroutines -> BOOLEAN]
  BY DEF TypeInv, TypeOK
<1>1. h \in Overlaps(g)
  BY DEF Overlaps
<1>2. EndUse(g) => UNCHANGED mctx /\ UNCHANGED mdb
  BY <1>0, <1>1 DEF EndUse, Leaves
<1>3. CASE Read(g) \/ Update(g)
  BY <1>1, <1>3 DEF Read, Update
<1>4. CASE getDB(g)
  <2>1. pc[g] \in Using /\ crossed' = crossed
    BY <1>4 DEF getDB, Goto, Using, history
  <2> QED BY <2>1 DEF UseInv
<1>5. CASE Exec(g) \/ AppendHook(g)
  BY <1>5 DEF Exec, AppendHook, models
<1>6. CASE ExecFails(g) \/ ExecUnacked(g) \/ AfterCommit(g) \/ InlineHookPanics(g)
  BY <1>2, <1>6 DEF ExecFails, ExecUnacked, AfterCommit, InlineHookPanics
<1> QED BY <1>3, <1>4, <1>5, <1>6 DEF Use

(* What goroutine g itself finds in its model after its step.              *)
LEMMA OwnUse ==
  ASSUME TypeInv, UseInv, NEW g \in Goroutines, Use(g)
  PROVE  pc'[g] \in Using =>
           /\ pc[g] \in Using => crossed'[g] = crossed[g]
           /\ crossed'[g] \/ mctx'[modelOf[g]] = CtxTx(g)
           /\ pc'[g] = "exec" =>
                crossed'[g] \/ HasOwnDB(modelOf[g]) \/ mdb'[modelOf[g]] = CtxTx(g)
           /\ pc[g] \notin Using =>
                /\ Overlaps(g) # {} => crossed'[g]
                /\ \A h \in Overlaps(g) : crossed'[h]
<1> USE DEF Goto, Using
<1>0. /\ modelOf \in [Goroutines -> Models] /\ mctx \in [Models -> Txs \cup {NoTx}]
      /\ mdb \in [Models -> Txs \cup {NoTx}] /\ pc \in [Goroutines -> PCs]
      /\ crossed \in [Goroutines -> BOOLEAN]
  BY DEF TypeInv, TypeOK
<1>1. CASE Read(g)
  BY <1>0, <1>1 DEF Read
<1>2. CASE Update(g)
  <2>1. pc[g] = "idle" /\ pc'[g] = "update" /\ mctx'[modelOf[g]] = CtxTx(g)
    BY <1>0, <1>2 DEF Update
  <2>2. crossed' = [h \in Goroutines |->
          IF h = g THEN Overlaps(g) # {} ELSE crossed[h] \/ h \in Overlaps(g)]
    BY <1>2 DEF Update
  <2>3. (Overlaps(g) # {} => crossed'[g]) /\ \A h \in Overlaps(g) : crossed'[h]
    BY <2>2 DEF Overlaps
  <2> QED BY <2>1, <2>3
<1>3. CASE getDB(g)
  BY <1>0, <1>3 DEF getDB, Connection, UseInv, history
<1>4. CASE Exec(g)
  BY <1>0, <1>4 DEF Exec, UseInv, models
<1>5. CASE ExecFails(g) \/ ExecUnacked(g)
  BY <1>0, <1>5 DEF ExecFails, ExecUnacked
<1>6. CASE AfterCommit(g) \/ InlineHookPanics(g)
  BY <1>0, <1>6 DEF AfterCommit, InlineHookPanics, Unwind
<1>7. CASE AppendHook(g)
  BY <1>0, <1>7 DEF AppendHook
<1> QED BY <1>1, <1>2, <1>3, <1>4, <1>5, <1>6, <1>7 DEF Use

LEMMA UseKeeps ==
  ASSUME TypeInv, UseInv, NEW g \in Goroutines, Use(g), NEW h \in Goroutines,
         pc'[h] \in Using, h # g \/ pc[g] \in Using
  PROVE  Keeps(h)
<1>1. Within(g)
  BY UseSteps
<1>2. stack'[h] = stack[h] /\ base'[h] = base[h]
  BY <1>1 DEF Within
<1>3. CtxTx(h)' = CtxTx(h)
  BY <1>2 DEF CtxTx, Innermost
<1> QED BY <1>1, <1>3, OwnUse DEF Keeps, Within

LEMMA UseUse == ASSUME TypeInv, UseInv, NEW g \in Goroutines, Use(g) PROVE UseInv'
<1>0. modelOf \in [Goroutines -> Models]
  BY DEF TypeInv, TypeOK
<1>1. Within(g)
  BY UseSteps
<1>2. /\ UNCHANGED <<modelOf, routed>>
      /\ \A h \in Goroutines : pc'[h] \in Using => CtxTx(h)' = CtxTx(h)
      /\ \A h \in Goroutines \ {g} : pc'[h] = pc[h] /\ (crossed[h] => crossed'[h])
  BY <1>1 DEF Within, CtxTx, Innermost
<1>3. \A m \in Models : HasOwnDB(m)' => mdb'[m] = NoTx
  BY <1>1, <1>2 DEF Within, UseInv, HasOwnDB
<1>4. ASSUME NEW h \in Goroutines, NEW k \in Goroutines, h # k,
             modelOf[h] = modelOf[k], pc'[h] \in Using, pc'[k] \in Using
      PROVE  crossed'[h]
  <2>1. CASE h # g /\ k # g
    BY <1>2, <1>4, <2>1 DEF UseInv
  <2>2. CASE h = g
    <3>1. k \in Overlaps(g)
      BY <1>2, <1>4, <2>2 DEF Overlaps
    <3>2. pc[g] \in Using => crossed[g]
      BY <1>2, <1>4, <2>2 DEF UseInv
    <3> QED BY <1>4, <2>2, <3>1, <3>2, OwnUse
  <2>3. CASE k = g
    <3>1. h \in Overlaps(g)
      BY <1>2, <1>4, <2>3 DEF Overlaps
    <3>2. pc[g] \in Using => crossed[h]
      BY <1>2, <1>4, <2>3 DEF UseInv
    <3> QED BY <1>2, <1>4, <2>3, <3>1, <3>2, OwnUse
  <2> QED BY <2>1, <2>2, <2>3
<1>5. ASSUME NEW h \in Goroutines, pc'[h] \in Using
      PROVE  /\ crossed'[h] \/ mctx'[modelOf[h]] = CtxTx(h)
             /\ pc'[h] = "exec" =>
                  crossed'[h] \/ HasOwnDB(modelOf[h]) \/ mdb'[modelOf[h]] = CtxTx(h)
  <2>1. CASE h = g
    BY <1>5, <2>1, OwnUse
  <2>2. CASE h # g
    <3>1. /\ pc[h] \in Using /\ pc'[h] = pc[h] /\ (crossed[h] => crossed'[h])
          /\ modelOf[h] \in Models
      BY <1>0, <1>2, <1>5, <2>2
    <3>2. /\ crossed[h] \/ mctx[modelOf[h]] = CtxTx(h)
          /\ pc[h] = "exec" =>
               crossed[h] \/ HasOwnDB(modelOf[h]) \/ mdb[modelOf[h]] = CtxTx(h)
      BY <3>1 DEF UseInv, StatementsStayInTx
    <3>3. crossed'[h] \/ (/\ mctx'[modelOf[h]] = mctx[modelOf[h]]
                          /\ mdb'[modelOf[h]] = mdb[modelOf[h]])
      BY <1>1, <2>2, <3>1, OthersMarked DEF Within
    <3> QED BY <3>1, <3>2, <3>3
  <2> QED BY <2>1, <2>2
<1>6. StatementsStayInTx'
  <2>1. \A h \in Goroutines : pc'[h] = "exec" => pc'[h] \in Using
    BY DEF Using
  <2> QED BY <1>2, <1>5, <2>1 DEF StatementsStayInTx, HasOwnDB
<1> QED BY <1>2, <1>3, <1>4, <1>5, <1>6 DEF UseInv

LEMMA StepUseInv == TypeInv /\ UseInv /\ [Next]_vars => UseInv'
<1> SUFFICES ASSUME TypeInv, UseInv, [Next]_vars PROVE UseInv'
  OBVIOUS
<1>1. CASE UNCHANGED vars
  BY <1>1 DEF vars, models, frames, history, UseInv, StatementsStayInTx, HasOwnDB,
     CtxTx, Innermost
<1>2. CASE Next
  BY <1>2, AwaySteps, GoSafeAway, AwayUse, UseUse DEF Next
<1> QED BY <1>1, <1>2

(* A statement in a transaction uses its connection, unless another        *)
(* goroutine uses the model at the same time or the router has a database. *)
THEOREM StatementsInTx == Spec => []StatementsStayInTx
<1>1. UseInv => StatementsStayInTx
  BY DEF UseInv
<1> QED BY InitTypeInv, StepTypeInv, InitUseInv, StepUseInv, <1>1, PTL DEF Spec

-----------------------------------------------------------------------------
(* The life of a write *)

(* A goroutine between its statement and the hook.                         *)
Holding(g) == pc[g] \in {"hook", "append"}

(* A write is made and held by one goroutine, hooked and logged, and       *)
(* invalidated.  The number of suffixes of a table only grows.             *)
WriteInv ==
    /\ \A g \in Goroutines : Holding(g) => writes[cur[g].write].fate = "made"
    /\ \A g \in Goroutines : pc[g] = "hook" =>
         writes[cur[g].write].model = modelOf[g]
    /\ \A g \in Goroutines : pc[g] = "append" =>
         writes[cur[g].write].hook = cur[g].tx
    /\ \A g, h \in Goroutines :
         Holding(g) /\ Holding(h) /\ cur[g].write = cur[h].write => g = h
    /\ \A n \in 1 .. Len(log) :
         /\ writes[log[n].write].fate # "made"
         /\ writes[log[n].write].hook = log[n].tx
    /\ \A w \in Written : writes[w].fate = "made" =>
         \E g \in Goroutines : Holding(g) /\ cur[g].write = w
    /\ \A w \in Written : writes[w].fate = "hooked" =>
         \E n \in 1 .. Len(log) : log[n].write = w
    /\ \A w \in Written :
         /\ writes[w].table <= mtable[writes[w].model]
         /\ writes[w].fate = "wrong" => writes[w].table # mtable[writes[w].model]

LEMMA InitWriteInv == Init => WriteInv
BY DEF Init, WriteInv, Holding, Written

(* A step that makes, hooks and invalidates no write.                      *)
Calm ==
    /\ UNCHANGED <<writes, log, hooks, shared, cur, loaded, modelOf>>
    /\ \A h \in Goroutines : Holding(h) \/ Holding(h)' => pc'[h] = pc[h]
    /\ \A m \in Models : mtable'[m] \in Nat /\ mtable[m] <= mtable'[m]

LEMMA CalmSteps ==
  ASSUME TypeInv, NEW g \in Goroutines,
         \/ \E r \in Requests \cup {NoReq} : Serve(g, r)
         \/ \E h \in Goroutines : GoSafe(g, h)
         \/ End(g) \/ BeginFails(g)
         \/ \E t \in Txs : Transaction(g, t)
         \/ Rollback(g) \/ FnPanics(g) \/ Commit(g) \/ CommitFails(g)
         \/ RangeHooks(g) \/ HookPanics(g) \/ CommitReturns(g)
         \/ Read(g) \/ Update(g) \/ getDB(g) \/ ExecFails(g)
  PROVE  Calm
<1> USE DEF Calm, Holding, Goto
<1>0. /\ pc \in [Goroutines -> PCs] /\ mtable \in [Models -> Nat]
      /\ \A m \in Models : mtable[m] \in Nat /\ mtable[m] <= mtable[m]
      /\ \A m \in Models : Table(m) \in Nat /\ mtable[m] <= Table(m)
  BY DEF TypeInv, TypeOK, Table
<1>1. ASSUME NEW r, Serve(g, r) PROVE Calm
  BY <1>0, <1>1 DEF Serve, txs, models, op, history
<1>2. ASSUME NEW h \in Goroutines, GoSafe(g, h) PROVE Calm
  BY <1>0, <1>2 DEF GoSafe, txs, models, op, history
<1>3. CASE End(g) \/ BeginFails(g)
  BY <1>0, <1>3 DEF End, BeginFails, txs, models, op, history
<1>4. ASSUME NEW t \in Txs, Transaction(g, t) PROVE Calm
  BY <1>0, <1>4 DEF Transaction, models, op, history
<1>5. CASE Rollback(g) \/ CommitFails(g) \/ CommitReturns(g)
  BY <1>0, <1>5 DEF Rollback, CommitFails, CommitReturns, Leave, models, op
<1>6. CASE FnPanics(g) \/ HookPanics(g)
  <2>1. pc[g] \in {"idle", "hooks"} /\ pc' = [pc EXCEPT ![g] = "off"]
    BY <1>6 DEF FnPanics, HookPanics, Unwind
  <2>2. UNCHANGED <<writes, log, hooks, shared, cur, loaded, modelOf, mtable>>
    BY <1>6 DEF FnPanics, HookPanics, Unwind, txs, models
  <2> QED BY <1>0, <2>1, <2>2
<1>7. CASE Commit(g) \/ RangeHooks(g)
  BY <1>0, <1>7 DEF Commit, RangeHooks, txs, models, op, history
<1>8. CASE Read(g)
  <2>1. mtable' = [mtable EXCEPT ![modelOf[g]] = Table(modelOf[g])] /\ modelOf[g] \in Models
    BY <1>8 DEF Read, TypeInv, TypeOK
  <2>2. \A m \in Models : mtable'[m] \in Nat /\ mtable[m] <= mtable'[m]
    BY <1>0, <2>1
  <2>3. UNCHANGED <<writes, log, hooks, shared, cur, loaded, modelOf>>
    BY <1>8 DEF Read, txs, op
  <2> QED BY <1>0, <1>8, <2>2, <2>3 DEF Read
<1>9. CASE Update(g)
  BY <1>0, <1>9 DEF Update, txs, op
<1>10. CASE getDB(g)
  <2>1. mtable' = [mtable EXCEPT ![modelOf[g]] = Table(modelOf[g])] /\ modelOf[g] \in Models
    BY <1>10 DEF getDB, TypeInv, TypeOK
  <2>2. \A m \in Models : mtable'[m] \in Nat /\ mtable[m] <= mtable'[m]
    BY <1>0, <2>1
  <2>3. UNCHANGED <<writes, log, hooks, shared, cur, loaded, modelOf>>
    BY <1>10 DEF getDB, txs, op, history
  <2> QED BY <1>0, <1>10, <2>2, <2>3 DEF getDB
<1>11. CASE ExecFails(g)
  BY <1>0, <1>11 DEF ExecFails, EndUse, txs, op
<1> QED BY <1>1, <1>2, <1>3, <1>4, <1>5, <1>6, <1>7, <1>8, <1>9, <1>10, <1>11

(* The step changes nothing of the writes but the fate, the hook and the   *)
(* mark of write w.                                                        *)
Only(w) ==
    /\ writes' \in Seq(Writes) /\ Written' = Written
    /\ \A v \in Written \ {w} : writes'[v] = writes[v]
    /\ writes'[w].tx = writes[w].tx /\ writes'[w].model = writes[w].model
    /\ writes'[w].table = writes[w].table

(* Only g moves.                                                           *)
Moves(g, from, to) ==
    /\ pc[g] = from /\ pc'[g] = to
    /\ \A h \in Goroutines \ {g} :
         pc'[h] = pc[h] /\ cur'[h] = cur[h] /\ loaded'[h] = loaded[h]
    /\ UNCHANGED <<phase, modelOf, mtable, stack, base>>

LEMMA NewWrite ==
  ASSUME TypeInv, NEW e \in Writes, writes' = Append(writes, e)
  PROVE  /\ Len(writes) + 1 \notin Written
         /\ Written' = Written \cup {Len(writes) + 1}
         /\ \A v \in Written : writes'[v] = writes[v]
         /\ writes'[Len(writes) + 1] = e
<1>1. writes \in Seq(Writes)
  BY DEF TypeInv, TypeOK
<1>2. /\ Len(writes') = Len(writes) + 1 /\ Len(writes) \in Nat
      /\ writes'[Len(writes) + 1] = e
      /\ \A v \in 1 .. Len(writes) : writes'[v] = writes[v]
  BY <1>1, AppendProperties, LenProperties
<1> QED BY <1>2 DEF Written

LEMMA ExecEffect ==
  ASSUME TypeInv, NEW g \in Goroutines, Exec(g)
  PROVE  /\ Moves(g, "exec", "hook") /\ UNCHANGED <<hooks, log, shared, crossed>>
         /\ Len(writes) + 1 \notin Written
         /\ Written' = Written \cup {Len(writes) + 1}
         /\ \A v \in Written : writes'[v] = writes[v]
         /\ writes'[Len(writes) + 1] =
              [tx |-> mdb[modelOf[g]], hook |-> NoTx, model |-> modelOf[g],
               table |-> mtable[modelOf[g]], crossed |-> FALSE, fate |-> "made"]
         /\ cur'[g].write = Len(writes) + 1
<1> DEFINE e == [tx |-> mdb[modelOf[g]], hook |-> NoTx, model |-> modelOf[g],
                 table |-> mtable[modelOf[g]], crossed |-> FALSE, fate |-> "made"]
<1>1. e \in Writes /\ writes' = Append(writes, e)
  BY DEF Exec, Writes, TypeInv, TypeOK
<1>2. cur'[g].write = Len(writes) + 1 /\ \A h \in Goroutines \ {g} : cur'[h] = cur[h]
  BY DEF Exec, TypeInv, TypeOK
<1>3. Moves(g, "exec", "hook") /\ UNCHANGED <<hooks, log, shared, crossed>>
  BY <1>2 DEF Exec, Moves, Goto, txs, models, frames, TypeInv, TypeOK
<1> QED BY <1>1, <1>2, <1>3, NewWrite

LEMMA ExecUnackedEffect ==
  ASSUME TypeInv, NEW g \in Goroutines, ExecUnacked(g)
  PROVE  /\ Moves(g, "exec", "idle") /\ UNCHANGED <<hooks, log, shared>>
         /\ Len(writes) + 1 \notin Written
         /\ Written' = Written \cup {Len(writes) + 1}
         /\ \A v \in Written : writes'[v] = writes[v]
         /\ writes'[Len(writes) + 1] =
              [tx |-> NoTx, hook |-> NoTx, model |-> modelOf[g],
               table |-> mtable[modelOf[g]], crossed |-> crossed[g],
               fate |-> "unanswered"]
<1> DEFINE e == [tx |-> NoTx, hook |-> NoTx, model |-> modelOf[g],
                 table |-> mtable[modelOf[g]], crossed |-> crossed[g],
                 fate |-> "unanswered"]
<1>1. e \in Writes /\ writes' = Append(writes, e)
  BY DEF ExecUnacked, Writes, TypeInv, TypeOK
<1>2. Moves(g, "exec", "idle") /\ UNCHANGED <<hooks, log, shared>>
  BY DEF ExecUnacked, EndUse, Moves, Goto, txs, op, frames, TypeInv, TypeOK
<1> QED BY <1>1, <1>2, NewWrite

LEMMA AfterCommitEffect ==
  ASSUME TypeInv, NEW g \in Goroutines, AfterCommit(g)
  PROVE  LET w == cur[g].write  t == mctx[modelOf[g]] IN
         /\ w \in Written /\ Only(w) /\ UNCHANGED <<hooks, log, shared>>
         /\ writes'[w].crossed = crossed[g]
         /\ \/ /\ t = NoTx /\ Moves(g, "hook", "idle")
               /\ writes'[w].hook = writes[w].hook
               /\ writes'[w].fate =
                    IF mtable[modelOf[g]] = writes[w].table THEN "right" ELSE "wrong"
            \/ /\ t \in Txs /\ Moves(g, "hook", "append")
               /\ writes'[w].hook = t /\ writes'[w].fate = writes[w].fate
               /\ cur'[g].write = w /\ cur'[g].tx = t /\ loaded'[g] = hooks[t]
<1> DEFINE m == modelOf[g]  w == cur[g].write  t == mctx[m]
<1>1. /\ w \in Written /\ t \in Txs \cup {NoTx} /\ writes[w] \in Writes
      /\ crossed[g] \in BOOLEAN
  BY WriteType DEF AfterCommit, Goto, TypeInv, TypeOK
<1>2. UNCHANGED <<phase, hooks, modelOf, mtable, stack, base, log, shared>>
  BY DEF AfterCommit, EndUse, txs, frames
<1>3. CASE /\ t = NoTx /\ Goto(g, "hook", "idle")
           /\ writes' = [writes EXCEPT ![w].crossed = crossed[g], ![w].fate =
                IF mtable[m] = writes[w].table THEN "right" ELSE "wrong"]
           /\ cur' = [cur EXCEPT ![g] = NoWrite]
           /\ UNCHANGED loaded
  <2> DEFINE e == [writes[w] EXCEPT !.crossed = crossed[g], !.fate =
                     IF mtable[m] = writes[w].table THEN "right" ELSE "wrong"]
  <2>1. e \in Writes /\ writes' = [writes EXCEPT ![w] = e]
    BY <1>1, <1>3 DEF Writes
  <2>2. /\ e.tx = writes[w].tx /\ e.model = writes[w].model /\ e.table = writes[w].table
        /\ e.hook = writes[w].hook /\ e.crossed = crossed[g]
        /\ e.fate = IF mtable[m] = writes[w].table THEN "right" ELSE "wrong"
    BY <1>1 DEF Writes
  <2>3. Moves(g, "hook", "idle")
    BY <1>2, <1>3 DEF Moves, Goto, TypeInv, TypeOK
  <2> HIDE DEF e, w, m, t
  <2>4. /\ writes' \in Seq(Writes) /\ Written' = Written /\ writes'[w] = e
        /\ \A v \in Written : v # w => writes'[v] = writes[v]
    BY <1>1, <2>1, OneWrite DEF TypeInv
  <2>5. Only(w)
    BY <2>2, <2>4 DEF Only
  <2> QED BY <1>1, <1>2, <1>3, <2>2, <2>3, <2>4, <2>5 DEF w, m, t
<1>4. CASE /\ t # NoTx /\ Goto(g, "hook", "append")
           /\ writes' = [writes EXCEPT ![w].crossed = crossed[g], ![w].hook = t]
           /\ cur' = [cur EXCEPT ![g].tx = t]
           /\ loaded' = [loaded EXCEPT ![g] = hooks[t]]
  <2> DEFINE e == [writes[w] EXCEPT !.crossed = crossed[g], !.hook = t]
  <2>1. e \in Writes /\ writes' = [writes EXCEPT ![w] = e] /\ t \in Txs
    BY <1>1, <1>4 DEF Writes
  <2>2. /\ e.tx = writes[w].tx /\ e.model = writes[w].model /\ e.table = writes[w].table
        /\ e.hook = t /\ e.crossed = crossed[g] /\ e.fate = writes[w].fate
    BY <1>1 DEF Writes
  <2>3. /\ cur'[g].write = w /\ cur'[g].tx = t /\ loaded'[g] = hooks[t]
        /\ \A h \in Goroutines \ {g} : cur'[h] = cur[h] /\ loaded'[h] = loaded[h]
    BY <1>4 DEF TypeInv, TypeOK
  <2>4. Moves(g, "hook", "append")
    BY <1>2, <1>4, <2>3 DEF Moves, Goto, TypeInv, TypeOK
  <2> HIDE DEF e, w, m, t
  <2>5. /\ writes' \in Seq(Writes) /\ Written' = Written /\ writes'[w] = e
        /\ \A v \in Written : v # w => writes'[v] = writes[v]
    BY <1>1, <2>1, OneWrite DEF TypeInv
  <2>6. Only(w)
    BY <2>2, <2>5 DEF Only
  <2> QED BY <1>1, <1>2, <2>1, <2>2, <2>3, <2>4, <2>5, <2>6 DEF w, m, t
<1> QED BY <1>3, <1>4 DEF AfterCommit

LEMMA InlinePanicEffect ==
  ASSUME TypeInv, NEW g \in Goroutines, InlineHookPanics(g)
  PROVE  LET w == cur[g].write IN
         /\ w \in Written /\ Only(w) /\ mctx[modelOf[g]] = NoTx
         /\ writes'[w].crossed = crossed[g] /\ writes'[w].hook = writes[w].hook
         /\ writes'[w].fate = "panicked"
         /\ pc[g] = "hook" /\ pc'[g] = "off"
         /\ \A h \in Goroutines \ {g} :
              pc'[h] = pc[h] /\ cur'[h] = cur[h] /\ loaded'[h] = loaded[h]
         /\ UNCHANGED <<phase, modelOf, mtable, hooks, log, shared>>
<1> DEFINE w == cur[g].write
           e == [writes[w] EXCEPT !.crossed = crossed[g], !.fate = "panicked"]
<1>1. w \in Written /\ writes[w] \in Writes /\ crossed[g] \in BOOLEAN
  BY WriteType DEF InlineHookPanics, TypeInv, TypeOK
<1>2. e \in Writes /\ writes' = [writes EXCEPT ![w] = e]
  BY <1>1 DEF InlineHookPanics, Writes
<1>3. /\ e.tx = writes[w].tx /\ e.model = writes[w].model /\ e.table = writes[w].table
      /\ e.hook = writes[w].hook /\ e.crossed = crossed[g] /\ e.fate = "panicked"
  BY <1>1 DEF Writes
<1>4. /\ pc[g] = "hook" /\ pc'[g] = "off" /\ mctx[modelOf[g]] = NoTx
      /\ \A h \in Goroutines \ {g} :
           pc'[h] = pc[h] /\ cur'[h] = cur[h] /\ loaded'[h] = loaded[h]
      /\ UNCHANGED <<phase, modelOf, mtable, hooks, log, shared>>
  BY DEF InlineHookPanics, EndUse, Unwind, Idle, txs, TypeInv, TypeOK
<1> HIDE DEF e, w
<1>5. /\ writes' \in Seq(Writes) /\ Written' = Written /\ writes'[w] = e
      /\ \A v \in Written : v # w => writes'[v] = writes[v]
  BY <1>1, <1>2, OneWrite DEF TypeInv
<1>6. Only(w)
  BY <1>3, <1>5 DEF Only
<1> QED BY <1>1, <1>3, <1>4, <1>5, <1>6 DEF w

LEMMA AppendEffect ==
  ASSUME TypeInv, NEW g \in Goroutines, AppendHook(g)
  PROVE  LET w == cur[g].write  t == cur[g].tx  n == Len(log) + 1 IN
         /\ w \in Written /\ t \in Txs /\ Only(w) /\ Moves(g, "append", "idle")
         /\ writes'[w].hook = writes[w].hook /\ writes'[w].crossed = writes[w].crossed
         /\ writes'[w].fate = "hooked"
         /\ 1 .. Len(log') = (1 .. Len(log)) \cup {n} /\ n \notin 1 .. Len(log)
         /\ log'[n].tx = t /\ log'[n].write = w
         /\ \A k \in 1 .. Len(log) : log'[k] = log[k]
         /\ hooks'[t] = Append(loaded[g], n)
         /\ \A u \in Txs \ {t} : hooks'[u] = hooks[u]
         /\ shared' = IF t \in ToSet(stack[g]) THEN shared ELSE shared \cup {t}
         /\ UNCHANGED <<panicked, unacked, queue>>
<1> DEFINE w == cur[g].write  t == cur[g].tx  n == Len(log) + 1
           e == [writes[w] EXCEPT !.fate = "hooked"]  r == [tx |-> t, write |-> w]
<1>1. w \in Written /\ w \in Nat /\ t \in Txs /\ writes[w] \in Writes
  BY WriteType DEF AppendHook, Goto, TypeInv, TypeOK, Written
<1>2. e \in Writes /\ writes' = [writes EXCEPT ![w] = e]
  BY <1>1 DEF AppendHook, Writes
<1>3. /\ e.tx = writes[w].tx /\ e.model = writes[w].model /\ e.table = writes[w].table
      /\ e.hook = writes[w].hook /\ e.crossed = writes[w].crossed /\ e.fate = "hooked"
  BY <1>1 DEF Writes
<1>4. Moves(g, "append", "idle")
  BY DEF AppendHook, Idle, Moves, Goto, models, frames, TypeInv, TypeOK
<1>5. /\ hooks'[t] = Append(loaded[g], n)
      /\ \A u \in Txs \ {t} : hooks'[u] = hooks[u]
      /\ shared' = IF t \in ToSet(stack[g]) THEN shared ELSE shared \cup {t}
      /\ UNCHANGED <<panicked, unacked, queue>>
  BY <1>1 DEF AppendHook, TypeInv, TypeOK
<1>6. /\ log' = Append(log, r) /\ log \in Seq([tx : Txs, write : Nat])
      /\ r \in [tx : Txs, write : Nat] /\ r.tx = t /\ r.write = w
  BY <1>1 DEF AppendHook, TypeInv, TypeOK
<1> HIDE DEF e, r, w, t
<1>7. /\ Len(log') = Len(log) + 1 /\ Len(log) \in Nat /\ log'[Len(log) + 1] = r
      /\ \A k \in 1 .. Len(log) : log'[k] = log[k]
  BY <1>6, AppendProperties, LenProperties
<1>8. 1 .. Len(log') = (1 .. Len(log)) \cup {n} /\ n \notin 1 .. Len(log)
  BY <1>7
<1>9. /\ writes' \in Seq(Writes) /\ Written' = Written /\ writes'[w] = e
      /\ \A v \in Written : v # w => writes'[v] = writes[v]
  BY <1>1, <1>2, OneWrite DEF TypeInv
<1>10. Only(w)
  BY <1>3, <1>9 DEF Only
<1> HIDE DEF n
<1>11. log'[n].tx = t /\ log'[n].write = w
  BY <1>6, <1>7 DEF n
<1> QED BY <1>1, <1>3, <1>4, <1>5, <1>7, <1>8, <1>9, <1>10, <1>11 DEF w, t, n

LEMMA RunEffect ==
  ASSUME TypeInv, NEW g \in Goroutines, runAfterCommit(g)
  PROVE  LET n == Head(queue[g])  w == log[n].write IN
         /\ n \in 1 .. Len(log) /\ n = queue[g][1] /\ w \in Written /\ Only(w)
         /\ Moves(g, "hooks", "hooks")
         /\ UNCHANGED <<hooks, log, cur, loaded, shared, panicked, unacked, crossed>>
         /\ writes'[w].hook = writes[w].hook /\ writes'[w].crossed = writes[w].crossed
         /\ writes'[w].fate = IF mtable[writes[w].model] = writes[w].table
                              THEN "right" ELSE "wrong"
         /\ queue[g] # <<>> /\ queue[g] \in Seq(Nat) /\ queue'[g] = Tail(queue[g])
         /\ \A h \in Goroutines \ {g} : queue'[h] = queue[h]
<1> DEFINE n == Head(queue[g])  w == log[n].write
<1>1. pc[g] = "hooks" /\ Pop(g) /\ Invalidate(w)
  BY DEF runAfterCommit, Goto
<1>2. n \in 1 .. Len(log) /\ n = queue[g][1] /\ w \in Written
  BY <1>1, PopType
<1>3. /\ Moves(g, "hooks", "hooks")
      /\ UNCHANGED <<hooks, log, cur, loaded, shared, panicked, unacked, crossed>>
  BY DEF runAfterCommit, Goto, Moves, txs, models, frames, TypeInv, TypeOK
<1>4. /\ queue[g] # <<>> /\ queue[g] \in Seq(Nat) /\ queue'[g] = Tail(queue[g])
      /\ \A h \in Goroutines \ {g} : queue'[h] = queue[h]
  BY <1>1 DEF runAfterCommit, Pop, TypeInv, TypeOK
<1> HIDE DEF w, n
<1>5. /\ writes' \in Seq(Writes) /\ Len(writes') = Len(writes)
      /\ writes'[w].fate = IF mtable[writes[w].model] = writes[w].table
                           THEN "right" ELSE "wrong"
      /\ writes'[w].tx = writes[w].tx /\ writes'[w].hook = writes[w].hook
      /\ writes'[w].model = writes[w].model /\ writes'[w].table = writes[w].table
      /\ writes'[w].crossed = writes[w].crossed
      /\ \A v \in Written : v # w => writes'[v] = writes[v]
  BY <1>1, <1>2, InvalidateWrites DEF TypeInv
<1>6. Only(w)
  BY <1>5 DEF Only, Written
<1> QED BY <1>2, <1>3, <1>4, <1>5, <1>6 DEF w, n

LEMMA EveryStep ==
  ASSUME TypeInv, Next
  PROVE  \/ Calm
         \/ \E g \in Goroutines :
              \/ Exec(g) \/ ExecUnacked(g)
              \/ AfterCommit(g) \/ InlineHookPanics(g) \/ AppendHook(g)
              \/ runAfterCommit(g)
BY CalmSteps DEF Next, EndTx, Use

LEMMA CalmWrite == ASSUME TypeInv, WriteInv, Calm PROVE WriteInv'
<1>1. \A g \in Goroutines : /\ Holding(g)' <=> Holding(g)
                            /\ Holding(g)' => pc'[g] = pc[g]
  BY DEF Calm, Holding
<1>2. Written' = Written /\ UNCHANGED <<writes, log, cur, modelOf>>
  BY DEF Calm, Written
<1>3. ASSUME NEW w \in Written
      PROVE  /\ writes[w].table <= mtable'[writes[w].model]
             /\ writes[w].fate = "wrong" => writes[w].table # mtable'[writes[w].model]
  <2>1. /\ writes[w].table \in Nat /\ writes[w].model \in Models
        /\ mtable[writes[w].model] \in Nat
    BY WriteType DEF Writes, TypeInv, TypeOK
  <2>2. /\ writes[w].table <= mtable[writes[w].model]
        /\ writes[w].fate = "wrong" => writes[w].table # mtable[writes[w].model]
    BY DEF WriteInv
  <2>3. /\ mtable'[writes[w].model] \in Nat
        /\ mtable[writes[w].model] <= mtable'[writes[w].model]
    BY <2>1 DEF Calm
  <2> QED BY <2>1, <2>2, <2>3
<1>4. \A w \in Written' :
        /\ writes'[w].table <= mtable'[writes'[w].model]
        /\ writes'[w].fate = "wrong" => writes'[w].table # mtable'[writes'[w].model]
  BY <1>2, <1>3
<1>5. /\ \A g \in Goroutines : Holding(g)' => writes'[cur'[g].write].fate = "made"
      /\ \A g \in Goroutines : pc'[g] = "hook" =>
           writes'[cur'[g].write].model = modelOf'[g]
      /\ \A g \in Goroutines : pc'[g] = "append" =>
           writes'[cur'[g].write].hook = cur'[g].tx
      /\ \A g, h \in Goroutines :
           Holding(g)' /\ Holding(h)' /\ cur'[g].write = cur'[h].write => g = h
  <2>1. \A g \in Goroutines : pc'[g] \in {"hook", "append"} => pc'[g] = pc[g]
    BY <1>1 DEF Holding
  <2> QED BY <1>1, <1>2, <2>1 DEF WriteInv
<1>6. /\ \A n \in 1 .. Len(log') :
           /\ writes'[log'[n].write].fate # "made"
           /\ writes'[log'[n].write].hook = log'[n].tx
      /\ \A w \in Written' : writes'[w].fate = "made" =>
           \E g \in Goroutines : Holding(g)' /\ cur'[g].write = w
      /\ \A w \in Written' : writes'[w].fate = "hooked" =>
           \E n \in 1 .. Len(log') : log'[n].write = w
  BY <1>1, <1>2 DEF WriteInv
<1> QED BY <1>4, <1>5, <1>6 DEF WriteInv

LEMMA ExecWrite ==
  ASSUME TypeInv, WriteInv, NEW g \in Goroutines, Exec(g) PROVE WriteInv'
<1> DEFINE w == Len(writes) + 1
<1>1. /\ Moves(g, "exec", "hook") /\ UNCHANGED <<hooks, log, shared, crossed>>
      /\ w \notin Written /\ Written' = Written \cup {w}
      /\ \A v \in Written : writes'[v] = writes[v]
      /\ writes'[w].hook = NoTx /\ writes'[w].model = modelOf[g]
      /\ writes'[w].table = mtable[modelOf[g]] /\ writes'[w].fate = "made"
      /\ cur'[g].write = w
  <2>1. writes'[w] = [tx |-> mdb[modelOf[g]], hook |-> NoTx, model |-> modelOf[g],
                      table |-> mtable[modelOf[g]], crossed |-> FALSE, fate |-> "made"]
    BY ExecEffect
  <2>2. /\ writes'[w].hook = NoTx /\ writes'[w].model = modelOf[g]
        /\ writes'[w].table = mtable[modelOf[g]] /\ writes'[w].fate = "made"
    BY <2>1
  <2> HIDE DEF w
  <2>3. /\ Moves(g, "exec", "hook") /\ UNCHANGED <<hooks, log, shared, crossed>>
        /\ w \notin Written /\ Written' = Written \cup {w}
        /\ \A v \in Written : writes'[v] = writes[v]
        /\ cur'[g].write = w
    BY ExecEffect DEF w
  <2> QED BY <2>2, <2>3
<1> HIDE DEF w
<1>2. /\ \A h \in Goroutines : Holding(h)' <=> Holding(h) \/ h = g
      /\ \A h \in Goroutines \ {g} : pc'[h] = pc[h] /\ cur'[h] = cur[h]
      /\ pc'[g] = "hook" /\ ~Holding(g)
      /\ UNCHANGED <<modelOf, mtable>>
  BY <1>1 DEF Moves, Holding
<1>3. \A h \in Goroutines : Holding(h) => cur[h].write \in Written
  BY DEF TypeInv, Holding
<1>4. \A n \in 1 .. Len(log) : log[n].write \in Written
  BY DEF TypeInv
<1>5. mtable[modelOf[g]] \in Nat
  BY DEF TypeInv, TypeOK
<1>6. ASSUME NEW h \in Goroutines, Holding(h)'
      PROVE  /\ writes'[cur'[h].write].fate = "made"
             /\ pc'[h] = "hook" => writes'[cur'[h].write].model = modelOf'[h]
             /\ pc'[h] = "append" => writes'[cur'[h].write].hook = cur'[h].tx
  <2>1. CASE h = g
    BY <1>1, <1>2, <2>1
  <2>2. CASE h # g
    <3>1. /\ Holding(h) /\ cur[h].write \in Written /\ cur'[h] = cur[h] /\ pc'[h] = pc[h]
          /\ writes'[cur[h].write] = writes[cur[h].write] /\ modelOf' = modelOf
      BY <1>1, <1>2, <1>3, <1>6, <2>2
    <3> QED BY <3>1 DEF WriteInv
  <2> QED BY <2>1, <2>2
<1>7. ASSUME NEW h \in Goroutines, NEW k \in Goroutines,
             Holding(h)', Holding(k)', cur'[h].write = cur'[k].write
      PROVE  h = k
  <2>1. CASE h # g /\ k # g
    <3>1. Holding(h) /\ Holding(k) /\ cur[h].write = cur[k].write
      BY <1>2, <1>7, <2>1
    <3> QED BY <3>1 DEF WriteInv
  <2>2. CASE h = g \/ k = g
    <3>1. \A j \in Goroutines \ {g} : Holding(j)' => cur'[j].write # w
      BY <1>1, <1>2, <1>3
    <3> QED BY <1>1, <1>7, <2>2, <3>1
  <2> QED BY <2>1, <2>2
<1>8. \A n \in 1 .. Len(log') :
        /\ writes'[log'[n].write].fate # "made"
        /\ writes'[log'[n].write].hook = log'[n].tx
  BY <1>1, <1>4 DEF WriteInv
<1>9. ASSUME NEW v \in Written'
      PROVE  /\ writes'[v].fate = "made" =>
                  \E h \in Goroutines : Holding(h)' /\ cur'[h].write = v
             /\ writes'[v].fate = "hooked" =>
                  \E n \in 1 .. Len(log') : log'[n].write = v
             /\ writes'[v].table <= mtable'[writes'[v].model]
             /\ writes'[v].fate = "wrong" => writes'[v].table # mtable'[writes'[v].model]
  <2>1. CASE v = w
    <3>1. Holding(g)' /\ cur'[g].write = v
      BY <1>1, <1>2, <2>1
    <3> QED BY <1>1, <1>2, <1>5, <2>1, <3>1
  <2>2. CASE v \in Written
    <3>1. writes'[v] = writes[v] /\ log' = log /\ mtable' = mtable
      BY <1>1, <1>2, <2>2
    <3>2. writes[v].fate = "made" =>
            \E h \in Goroutines : Holding(h)' /\ cur'[h].write = v
      <4>1. ASSUME NEW h \in Goroutines, Holding(h), cur[h].write = v
            PROVE  Holding(h)' /\ cur'[h].write = v
        BY <1>2, <4>1
      <4> QED BY <2>2, <4>1 DEF WriteInv
    <3> QED BY <2>2, <3>1, <3>2 DEF WriteInv
  <2> QED BY <1>1, <2>1, <2>2
<1> QED BY <1>6, <1>7, <1>8, <1>9 DEF WriteInv, Holding

LEMMA ExecUnackedWrite ==
  ASSUME TypeInv, WriteInv, NEW g \in Goroutines, ExecUnacked(g) PROVE WriteInv'
<1> DEFINE w == Len(writes) + 1
<1>1. /\ Moves(g, "exec", "idle") /\ UNCHANGED log
      /\ w \notin Written /\ Written' = Written \cup {w}
      /\ \A v \in Written : writes'[v] = writes[v]
      /\ writes'[w].model = modelOf[g] /\ writes'[w].table = mtable[modelOf[g]]
      /\ writes'[w].fate = "unanswered"
  <2>1. writes'[w] = [tx |-> NoTx, hook |-> NoTx, model |-> modelOf[g],
                      table |-> mtable[modelOf[g]], crossed |-> crossed[g],
                      fate |-> "unanswered"]
    BY ExecUnackedEffect
  <2>2. /\ writes'[w].model = modelOf[g] /\ writes'[w].table = mtable[modelOf[g]]
        /\ writes'[w].fate = "unanswered"
    BY <2>1
  <2> HIDE DEF w
  <2>3. /\ Moves(g, "exec", "idle") /\ UNCHANGED log
        /\ w \notin Written /\ Written' = Written \cup {w}
        /\ \A v \in Written : writes'[v] = writes[v]
    BY ExecUnackedEffect DEF w
  <2> QED BY <2>2, <2>3
<1> HIDE DEF w
<1>2. /\ \A h \in Goroutines : Holding(h)' <=> Holding(h)
      /\ \A h \in Goroutines : Holding(h) =>
           pc'[h] = pc[h] /\ cur'[h] = cur[h] /\ cur[h].write \in Written
      /\ UNCHANGED <<modelOf, mtable>> /\ mtable[modelOf[g]] \in Nat
  BY <1>1 DEF Moves, Holding, TypeInv, TypeOK
<1>3. ASSUME NEW h \in Goroutines, Holding(h)'
      PROVE  /\ writes'[cur'[h].write].fate = "made"
             /\ pc'[h] = "hook" => writes'[cur'[h].write].model = modelOf'[h]
             /\ pc'[h] = "append" => writes'[cur'[h].write].hook = cur'[h].tx
  <2>1. /\ Holding(h) /\ cur'[h] = cur[h] /\ pc'[h] = pc[h] /\ modelOf' = modelOf
        /\ writes'[cur[h].write] = writes[cur[h].write]
    BY <1>1, <1>2, <1>3
  <2> QED BY <2>1 DEF WriteInv
<1>4. ASSUME NEW h \in Goroutines, NEW k \in Goroutines,
             Holding(h)', Holding(k)', cur'[h].write = cur'[k].write
      PROVE  h = k
  <2>1. Holding(h) /\ Holding(k) /\ cur[h].write = cur[k].write
    BY <1>2, <1>4
  <2> QED BY <2>1 DEF WriteInv
<1>5. \A n \in 1 .. Len(log) : log[n].write \in Written
  BY DEF TypeInv
<1>6. \A n \in 1 .. Len(log') :
        /\ writes'[log'[n].write].fate # "made"
        /\ writes'[log'[n].write].hook = log'[n].tx
  BY <1>1, <1>5 DEF WriteInv
<1>7. ASSUME NEW v \in Written'
      PROVE  /\ writes'[v].fate = "made" =>
                  \E h \in Goroutines : Holding(h)' /\ cur'[h].write = v
             /\ writes'[v].fate = "hooked" =>
                  \E n \in 1 .. Len(log') : log'[n].write = v
             /\ writes'[v].table <= mtable'[writes'[v].model]
             /\ writes'[v].fate = "wrong" => writes'[v].table # mtable'[writes'[v].model]
  <2>1. CASE v = w
    BY <1>1, <1>2, <2>1
  <2>2. CASE v \in Written
    <3>1. writes'[v] = writes[v] /\ log' = log /\ mtable' = mtable
      BY <1>1, <1>2, <2>2
    <3>2. ASSUME NEW h \in Goroutines, Holding(h), cur[h].write = v
          PROVE  Holding(h)' /\ cur'[h].write = v
      BY <1>2, <3>2
    <3>3. writes[v].fate = "made" =>
            \E h \in Goroutines : Holding(h)' /\ cur'[h].write = v
      BY <2>2, <3>2 DEF WriteInv
    <3> QED BY <2>2, <3>1, <3>3 DEF WriteInv
  <2> QED BY <1>1, <2>1, <2>2
<1> QED BY <1>3, <1>4, <1>6, <1>7 DEF WriteInv, Holding

(* What the write of a holder, or one that is logged, becomes in a step    *)
(* after which nobody holds it.                                            *)
LEMMA OnlyWrite ==
  ASSUME TypeInv, WriteInv, NEW w \in Written, Only(w), UNCHANGED <<mtable, modelOf>>,
         NEW g \in Goroutines,
         \A h \in Goroutines \ {g} : pc'[h] = pc[h] /\ cur'[h] = cur[h],
         \A h \in Goroutines \ {g} : Holding(h) => cur[h].write # w,
         Holding(g) => cur[g].write = w,
         Holding(g)' => /\ pc'[g] = "append" /\ cur'[g].write = w
                        /\ writes'[w].fate = "made" /\ writes'[w].hook = cur'[g].tx,
         writes'[w].fate = "made" => Holding(g)',
         \A n \in 1 .. Len(log) : n \in 1 .. Len(log') /\ log'[n] = log[n],
         \A n \in 1 .. Len(log') :
           \/ n \in 1 .. Len(log) /\ log[n].write # w
           \/ /\ log'[n].write = w /\ writes'[w].hook = log'[n].tx
              /\ writes'[w].fate # "made",
         writes'[w].fate = "hooked" => \E n \in 1 .. Len(log') : log'[n].write = w,
         writes'[w].fate = "wrong" => writes[w].table # mtable[writes[w].model]
  PROVE  WriteInv'
<1>1. /\ Written' = Written /\ \A v \in Written \ {w} : writes'[v] = writes[v]
      /\ writes'[w].model = writes[w].model /\ writes'[w].table = writes[w].table
  BY DEF Only
<1>2. \A h \in Goroutines \ {g} : Holding(h)' <=> Holding(h)
  BY DEF Holding
<1>3. \A h \in Goroutines : Holding(h) => cur[h].write \in Written
  BY DEF TypeInv, Holding
<1>4. ASSUME NEW h \in Goroutines, Holding(h)'
      PROVE  /\ writes'[cur'[h].write].fate = "made"
             /\ pc'[h] = "hook" => writes'[cur'[h].write].model = modelOf'[h]
             /\ pc'[h] = "append" => writes'[cur'[h].write].hook = cur'[h].tx
  <2>1. CASE h = g
    BY <1>4, <2>1
  <2>2. CASE h # g
    <3>1. /\ Holding(h) /\ cur[h].write \in Written \ {w} /\ cur'[h] = cur[h]
          /\ pc'[h] = pc[h] /\ modelOf' = modelOf
      BY <1>2, <1>3, <1>4, <2>2
    <3>2. writes'[cur[h].write] = writes[cur[h].write]
      BY <1>1, <3>1
    <3> QED BY <3>1, <3>2 DEF WriteInv
  <2> QED BY <2>1, <2>2
<1>5. ASSUME NEW h \in Goroutines, NEW k \in Goroutines,
             Holding(h)', Holding(k)', cur'[h].write = cur'[k].write
      PROVE  h = k
  <2>1. CASE h # g /\ k # g
    <3>1. Holding(h) /\ Holding(k) /\ cur[h].write = cur[k].write
      BY <1>2, <1>5, <2>1
    <3> QED BY <3>1 DEF WriteInv
  <2>2. CASE h = g \/ k = g
    <3>1. \A j \in Goroutines \ {g} : Holding(j)' => cur'[j].write # w
      BY <1>2
    <3>2. Holding(g)' => cur'[g].write = w
      OBVIOUS
    <3> QED BY <1>5, <2>2, <3>1, <3>2
  <2> QED BY <2>1, <2>2
<1>6. ASSUME NEW n \in 1 .. Len(log')
      PROVE  /\ writes'[log'[n].write].fate # "made"
             /\ writes'[log'[n].write].hook = log'[n].tx
  <2>1. CASE n \in 1 .. Len(log) /\ log[n].write # w
    <3>1. log'[n] = log[n] /\ log[n].write \in Written \ {w}
      BY <2>1 DEF TypeInv
    <3>2. writes'[log[n].write] = writes[log[n].write]
      BY <1>1, <3>1
    <3> QED BY <2>1, <3>1, <3>2 DEF WriteInv
  <2>2. CASE /\ log'[n].write = w /\ writes'[w].hook = log'[n].tx
             /\ writes'[w].fate # "made"
    BY <2>2
  <2> QED BY <1>6, <2>1, <2>2
<1>7. ASSUME NEW v \in Written', v # w
      PROVE  /\ writes'[v].fate = "made" =>
                  \E h \in Goroutines : Holding(h)' /\ cur'[h].write = v
             /\ writes'[v].fate = "hooked" =>
                  \E n \in 1 .. Len(log') : log'[n].write = v
             /\ writes'[v].table <= mtable'[writes'[v].model]
             /\ writes'[v].fate = "wrong" => writes'[v].table # mtable'[writes'[v].model]
  <2>1. v \in Written /\ writes'[v] = writes[v] /\ mtable' = mtable
    BY <1>1, <1>7
  <2>2. writes[v].fate = "made" =>
          \E h \in Goroutines : Holding(h)' /\ cur'[h].write = v
    <3>1. ASSUME NEW h \in Goroutines, Holding(h), cur[h].write = v
          PROVE  Holding(h)' /\ cur'[h].write = v
      <4>1. h # g
        BY <1>7, <3>1
      <4> QED BY <1>2, <3>1, <4>1
    <3> QED BY <2>1, <3>1 DEF WriteInv
  <2>3. writes[v].fate = "hooked" => \E n \in 1 .. Len(log') : log'[n].write = v
    <3>1. ASSUME NEW n \in 1 .. Len(log), log[n].write = v
          PROVE  n \in 1 .. Len(log') /\ log'[n].write = v
      BY <3>1
    <3> QED BY <2>1, <3>1 DEF WriteInv
  <2> QED BY <2>1, <2>2, <2>3 DEF WriteInv
<1>8. /\ writes'[w].fate = "made" =>
           \E h \in Goroutines : Holding(h)' /\ cur'[h].write = w
      /\ writes'[w].table <= mtable'[writes'[w].model]
      /\ writes'[w].fate = "wrong" => writes'[w].table # mtable'[writes'[w].model]
  <2>1. writes[w].table <= mtable[writes[w].model]
    BY DEF WriteInv
  <2> QED BY <1>1, <2>1
<1>9. \A v \in Written' :
        /\ writes'[v].fate = "made" =>
             \E h \in Goroutines : Holding(h)' /\ cur'[h].write = v
        /\ writes'[v].fate = "hooked" =>
             \E n \in 1 .. Len(log') : log'[n].write = v
        /\ writes'[v].table <= mtable'[writes'[v].model]
        /\ writes'[v].fate = "wrong" => writes'[v].table # mtable'[writes'[v].model]
  BY <1>7, <1>8
<1> QED BY <1>4, <1>5, <1>6, <1>9 DEF WriteInv, Holding

LEMMA AfterCommitWrite ==
  ASSUME TypeInv, WriteInv, NEW g \in Goroutines, AfterCommit(g) PROVE WriteInv'
<1> DEFINE w == cur[g].write  t == mctx[modelOf[g]]
<1>1. /\ w \in Written /\ Only(w) /\ UNCHANGED log
      /\ \/ /\ t = NoTx /\ Moves(g, "hook", "idle")
            /\ writes'[w].fate =
                 IF mtable[modelOf[g]] = writes[w].table THEN "right" ELSE "wrong"
         \/ /\ t \in Txs /\ Moves(g, "hook", "append")
            /\ writes'[w].hook = t /\ writes'[w].fate = writes[w].fate
            /\ cur'[g].write = w /\ cur'[g].tx = t
  BY AfterCommitEffect
<1>2. pc[g] = "hook" /\ Holding(g)
  BY <1>1 DEF Moves, Holding
<1>3. /\ writes[w].model = modelOf[g] /\ writes[w].fate = "made"
      /\ \A h \in Goroutines \ {g} : Holding(h) => cur[h].write # w
      /\ \A n \in 1 .. Len(log) : log[n].write # w
  BY <1>2 DEF WriteInv
<1> HIDE DEF w, t
<1>4. /\ \A h \in Goroutines \ {g} : pc'[h] = pc[h] /\ cur'[h] = cur[h]
      /\ UNCHANGED <<mtable, modelOf>>
  BY <1>1 DEF Moves
<1>5. /\ Holding(g)' => /\ pc'[g] = "append" /\ cur'[g].write = w
                        /\ writes'[w].fate = "made" /\ writes'[w].hook = cur'[g].tx
      /\ writes'[w].fate = "made" => Holding(g)'
      /\ writes'[w].fate # "hooked"
      /\ writes'[w].fate = "wrong" => writes[w].table # mtable[writes[w].model]
  BY <1>1, <1>3 DEF Moves, Holding
<1>6. Holding(g) => cur[g].write = w
  BY DEF w
<1> QED BY <1>1, <1>3, <1>4, <1>5, <1>6, OnlyWrite

LEMMA InlinePanicWrite ==
  ASSUME TypeInv, WriteInv, NEW g \in Goroutines, InlineHookPanics(g) PROVE WriteInv'
<1> DEFINE w == cur[g].write
<1>1. /\ w \in Written /\ Only(w) /\ writes'[w].fate = "panicked"
      /\ pc[g] = "hook" /\ pc'[g] = "off"
      /\ \A h \in Goroutines \ {g} : pc'[h] = pc[h] /\ cur'[h] = cur[h]
      /\ UNCHANGED <<modelOf, mtable, log>>
  BY InlinePanicEffect
<1>2. Holding(g) /\ ~Holding(g)'
  BY <1>1 DEF Holding
<1>3. /\ writes[w].fate = "made"
      /\ \A h \in Goroutines \ {g} : Holding(h) => cur[h].write # w
      /\ \A n \in 1 .. Len(log) : log[n].write # w
  BY <1>2 DEF WriteInv
<1>4. Holding(g) => cur[g].write = w
  OBVIOUS
<1> HIDE DEF w
<1> QED BY <1>1, <1>2, <1>3, <1>4, OnlyWrite

LEMMA AppendWrite ==
  ASSUME TypeInv, WriteInv, NEW g \in Goroutines, AppendHook(g) PROVE WriteInv'
<1> DEFINE w == cur[g].write  t == cur[g].tx  n == Len(log) + 1
<1>1. /\ w \in Written /\ Only(w) /\ Moves(g, "append", "idle")
      /\ writes'[w].hook = writes[w].hook /\ writes'[w].fate = "hooked"
      /\ 1 .. Len(log') = (1 .. Len(log)) \cup {n}
      /\ log'[n].tx = t /\ log'[n].write = w
      /\ \A k \in 1 .. Len(log) : log'[k] = log[k]
  BY AppendEffect
<1>2. pc[g] = "append" /\ Holding(g) /\ ~Holding(g)'
  BY <1>1 DEF Moves, Holding
<1>3. /\ writes[w].hook = t /\ writes[w].fate = "made"
      /\ \A h \in Goroutines \ {g} : Holding(h) => cur[h].write # w
      /\ \A k \in 1 .. Len(log) : log[k].write # w
  BY <1>2 DEF WriteInv
<1>4. Holding(g) => cur[g].write = w
  OBVIOUS
<1> HIDE DEF w, t, n
<1>5. /\ \A h \in Goroutines \ {g} : pc'[h] = pc[h] /\ cur'[h] = cur[h]
      /\ UNCHANGED <<mtable, modelOf>>
  BY <1>1 DEF Moves
<1>6. \A k \in 1 .. Len(log') :
        \/ k \in 1 .. Len(log) /\ log[k].write # w
        \/ /\ log'[k].write = w /\ writes'[w].hook = log'[k].tx
           /\ writes'[w].fate # "made"
  BY <1>1, <1>3
<1>7. \A k \in 1 .. Len(log) : k \in 1 .. Len(log') /\ log'[k] = log[k]
  BY <1>1
<1>8. \E k \in 1 .. Len(log') : log'[k].write = w
  BY <1>1
<1>9. writes'[w].fate # "made" /\ writes'[w].fate # "wrong"
  BY <1>1
<1> QED BY <1>1, <1>2, <1>3, <1>4, <1>5, <1>6, <1>7, <1>8, <1>9, OnlyWrite

LEMMA RunWrite ==
  ASSUME TypeInv, WriteInv, NEW g \in Goroutines, runAfterCommit(g) PROVE WriteInv'
<1> DEFINE n == Head(queue[g])  w == log[n].write
<1>1. /\ n \in 1 .. Len(log) /\ w \in Written /\ Only(w) /\ Moves(g, "hooks", "hooks")
      /\ UNCHANGED <<log, cur>>
      /\ writes'[w].hook = writes[w].hook
      /\ writes'[w].fate = IF mtable[writes[w].model] = writes[w].table
                           THEN "right" ELSE "wrong"
  BY RunEffect
<1>2. ~Holding(g) /\ ~Holding(g)'
  BY <1>1 DEF Moves, Holding
<1>3. \A h \in Goroutines : Holding(h) => cur[h].write # w
  <2>1. writes[w].fate # "made"
    BY <1>1 DEF WriteInv
  <2>2. \A h \in Goroutines : Holding(h) => writes[cur[h].write].fate = "made"
    BY DEF WriteInv
  <2> QED BY <2>1, <2>2
<1>4. \A k \in 1 .. Len(log) : writes[log[k].write].hook = log[k].tx
  BY DEF WriteInv
<1> HIDE DEF w, n
<1>5. /\ \A h \in Goroutines \ {g} : pc'[h] = pc[h] /\ cur'[h] = cur[h]
      /\ UNCHANGED <<mtable, modelOf>>
  BY <1>1 DEF Moves
<1>6. /\ writes'[w].fate # "made" /\ writes'[w].fate # "hooked"
      /\ writes'[w].fate = "wrong" => writes[w].table # mtable[writes[w].model]
  BY <1>1
<1>7. \A k \in 1 .. Len(log') :
        \/ k \in 1 .. Len(log) /\ log[k].write # w
        \/ /\ log'[k].write = w /\ writes'[w].hook = log'[k].tx
           /\ writes'[w].fate # "made"
  BY <1>1, <1>4, <1>6
<1>8. \A k \in 1 .. Len(log) : k \in 1 .. Len(log') /\ log'[k] = log[k]
  BY <1>1
<1> QED BY <1>1, <1>2, <1>3, <1>5, <1>6, <1>7, <1>8, OnlyWrite

LEMMA StepWriteInv == TypeInv /\ WriteInv /\ [Next]_vars => WriteInv'
<1> SUFFICES ASSUME TypeInv, WriteInv, [Next]_vars PROVE WriteInv'
  OBVIOUS
<1>1. CASE UNCHANGED vars
  <2>1. Calm
    BY <1>1 DEF vars, txs, models, op, history, Calm, Holding, TypeInv, TypeOK
  <2> QED BY <2>1, CalmWrite
<1>2. CASE Next
  BY <1>2, EveryStep, CalmWrite, ExecWrite, ExecUnackedWrite, AfterCommitWrite,
     InlinePanicWrite, AppendWrite, RunWrite
<1> QED BY <1>1, <1>2

-----------------------------------------------------------------------------
(* No invalidation before the commit *)

(* A write that is not crossed is in the transaction that has its hook, or *)
(* on a connection of its own.                                             *)
FateInv ==
    /\ \A g \in Goroutines : pc[g] = "hook" =>
         crossed[g] \/ writes[cur[g].write].tx \in {CtxTx(g), NoTx}
    /\ \A w \in Written : writes[w].hook # NoTx =>
         writes[w].crossed \/ writes[w].tx \in {writes[w].hook, NoTx}
    /\ NothingInvalidatedEarly

LEMMA InitFateInv == Init => FateInv
BY DEF Init, FateInv, NothingInvalidatedEarly, Written

LEMMA CommittedStays ==
  ASSUME TypeInv, StackInv, Next, NEW t \in Txs, phase[t] = "committed"
  PROVE  phase'[t] = "committed"
<1>0. phase \in [Txs -> {"none", "open", "committed", "aborted"}]
  BY DEF TypeInv, TypeOK
<1>1. CASE Stays
  BY <1>1 DEF Stays
<1>2. ASSUME NEW g \in Goroutines, NEW u \in Txs, Pushes(g, u)
      PROVE  phase'[t] = "committed"
  BY <1>0, <1>2 DEF Pushes
<1>3. ASSUME NEW g \in Goroutines, Commits(g) PROVE phase'[t] = "committed"
  BY <1>0, <1>3 DEF Commits
<1>4. ASSUME NEW g \in Goroutines, Pops(g) PROVE phase'[t] = "committed"
  <2>1. CASE UNCHANGED phase
    BY <2>1
  <2>2. CASE pc[g] = "idle"
    <3>1. stack[g] # <<>> /\ stack[g] \in Seq(Txs)
      BY <1>4 DEF Pops, TypeInv, TypeOK
    <3>2. Innermost(g) = stack[g][Len(stack[g])] /\ Len(stack[g]) \in 1 .. Len(stack[g])
      <4>1. Last(stack[g]) = stack[g][Len(stack[g])] /\ Len(stack[g]) \in Nat \ {0}
        BY <3>1, LastFront
      <4> QED BY <4>1 DEF Innermost
    <3>3. phase[Innermost(g)] = "open"
      BY <2>2, <3>2 DEF StackInv, Ending
    <3> QED BY <1>0, <1>4, <3>3 DEF Pops
  <2> QED BY <1>4, <2>1, <2>2 DEF Pops
<1>5. ASSUME NEW g \in Goroutines, Unwinds(g) PROVE phase'[t] = "committed"
  BY <1>5 DEF Unwinds
<1> QED BY <1>1, <1>2, <1>3, <1>4, <1>5, StackSteps

(* A goroutine that has made its statement keeps its context and mark.     *)
LEMMA HookKeeps ==
  ASSUME TypeInv, UseInv, Next, NEW h \in Goroutines, pc[h] = "hook", pc'[h] = "hook"
  PROVE  CtxTx(h)' = CtxTx(h) /\ (crossed[h] => crossed'[h])
<1>1. pc'[h] \in Using /\ pc[h] \in Using
  BY DEF Using
<1>2. ASSUME NEW g \in Goroutines, Away(g) PROVE Keeps(h)
  BY <1>2, AwayKeeps
<1>3. ASSUME NEW g \in Goroutines, Use(g) PROVE Keeps(h)
  BY <1>1, <1>3, UseKeeps
<1>4. Keeps(h)
  BY <1>2, <1>3, AwaySteps, GoSafeAway DEF Next
<1> QED BY <1>1, <1>4 DEF Keeps

LEMMA CalmFate ==
  ASSUME TypeInv, StackInv, UseInv, FateInv, Next, Calm PROVE FateInv'
<1>1. UNCHANGED <<writes, cur>> /\ Written' = Written
  BY DEF Calm, Written
<1>2. ASSUME NEW h \in Goroutines, pc'[h] = "hook"
      PROVE  crossed'[h] \/ writes'[cur'[h].write].tx \in {CtxTx(h)', NoTx}
  <2>1. pc[h] = "hook"
    BY <1>2 DEF Calm, Holding
  <2>2. CtxTx(h)' = CtxTx(h) /\ (crossed[h] => crossed'[h])
    BY <1>2, <2>1, HookKeeps
  <2> QED BY <1>1, <2>1, <2>2 DEF FateInv
<1>3. ASSUME NEW w \in Written, Durable(w) PROVE Durable(w)'
  <2>1. writes[w].tx \in Txs \cup {NoTx}
    BY WriteType DEF Writes, TypeInv
  <2> QED BY <1>1, <1>3, <2>1, CommittedStays DEF Durable
<1>4. NothingInvalidatedEarly'
  BY <1>1, <1>3 DEF FateInv, NothingInvalidatedEarly
<1> QED BY <1>1, <1>2, <1>4 DEF FateInv

LEMMA ExecFate ==
  ASSUME TypeInv, StackInv, UseInv, FateInv, Next, NEW g \in Goroutines, Exec(g)
  PROVE  FateInv'
<1> DEFINE w == Len(writes) + 1
<1>1. writes'[w] = [tx |-> mdb[modelOf[g]], hook |-> NoTx, model |-> modelOf[g],
                    table |-> mtable[modelOf[g]], crossed |-> FALSE, fate |-> "made"]
  BY ExecEffect
<1>2. /\ writes'[w].tx = mdb[modelOf[g]] /\ writes'[w].hook = NoTx
      /\ writes'[w].fate = "made"
  BY <1>1
<1> HIDE DEF w
<1>3. /\ Moves(g, "exec", "hook") /\ crossed' = crossed
      /\ w \notin Written /\ Written' = Written \cup {w}
      /\ \A v \in Written : writes'[v] = writes[v]
      /\ cur'[g].write = w
  BY ExecEffect DEF w
<1>4. CtxTx(g)' = CtxTx(g) /\ pc[g] = "exec" /\ phase' = phase
  BY <1>3 DEF Moves, CtxTx, Innermost
<1>5. ASSUME NEW h \in Goroutines, pc'[h] = "hook"
      PROVE  crossed'[h] \/ writes'[cur'[h].write].tx \in {CtxTx(h)', NoTx}
  <2>1. CASE h = g
    <3>1. modelOf[g] \in Models
      BY DEF TypeInv, TypeOK
    <3>2. crossed[g] \/ mdb[modelOf[g]] \in {CtxTx(g), NoTx}
      BY <1>4, <3>1 DEF UseInv, StatementsStayInTx
    <3> QED BY <1>2, <1>3, <1>4, <2>1, <3>2
  <2>2. CASE h # g
    <3>1. pc[h] = "hook" /\ cur'[h] = cur[h]
      BY <1>3, <1>5, <2>2 DEF Moves
    <3>2. cur[h].write \in Written
      BY <3>1 DEF TypeInv
    <3>3. CtxTx(h)' = CtxTx(h) /\ (crossed[h] => crossed'[h])
      BY <1>5, <3>1, HookKeeps
    <3> QED BY <1>3, <3>1, <3>2, <3>3 DEF FateInv
  <2> QED BY <2>1, <2>2
<1>6. NothingInvalidatedEarly'
  BY <1>2, <1>3, <1>4 DEF FateInv, NothingInvalidatedEarly, Durable
<1>7. \A v \in Written' : writes'[v].hook # NoTx =>
        writes'[v].crossed \/ writes'[v].tx \in {writes'[v].hook, NoTx}
  BY <1>2, <1>3 DEF FateInv
<1> QED BY <1>5, <1>6, <1>7 DEF FateInv

LEMMA ExecUnackedFate ==
  ASSUME TypeInv, StackInv, UseInv, FateInv, Next, NEW g \in Goroutines, ExecUnacked(g)
  PROVE  FateInv'
<1> DEFINE w == Len(writes) + 1
<1>1. writes'[w] = [tx |-> NoTx, hook |-> NoTx, model |-> modelOf[g],
                    table |-> mtable[modelOf[g]], crossed |-> crossed[g],
                    fate |-> "unanswered"]
  BY ExecUnackedEffect
<1>2. writes'[w].tx = NoTx /\ writes'[w].hook = NoTx
  BY <1>1
<1> HIDE DEF w
<1>3. /\ Moves(g, "exec", "idle")
      /\ w \notin Written /\ Written' = Written \cup {w}
      /\ \A v \in Written : writes'[v] = writes[v]
  BY ExecUnackedEffect DEF w
<1>4. ASSUME NEW h \in Goroutines, pc'[h] = "hook"
      PROVE  crossed'[h] \/ writes'[cur'[h].write].tx \in {CtxTx(h)', NoTx}
  <2>1. pc[h] = "hook" /\ cur'[h] = cur[h]
    BY <1>3, <1>4 DEF Moves
  <2>2. cur[h].write \in Written
    BY <2>1 DEF TypeInv
  <2>3. CtxTx(h)' = CtxTx(h) /\ (crossed[h] => crossed'[h])
    BY <1>4, <2>1, HookKeeps
  <2> QED BY <1>3, <2>1, <2>2, <2>3 DEF FateInv
<1>5. phase' = phase
  BY <1>3 DEF Moves
<1>6. NothingInvalidatedEarly'
  BY <1>2, <1>3, <1>5 DEF FateInv, NothingInvalidatedEarly, Durable
<1>7. \A v \in Written' : writes'[v].hook # NoTx =>
        writes'[v].crossed \/ writes'[v].tx \in {writes'[v].hook, NoTx}
  BY <1>2, <1>3 DEF FateInv
<1> QED BY <1>4, <1>6, <1>7 DEF FateInv

(* A step that changes one write, after which its goroutine has no         *)
(* statement without a hook.                                               *)
LEMMA OnlyFate ==
  ASSUME TypeInv, StackInv, UseInv, WriteInv, FateInv, Next,
         NEW w \in Written, Only(w), UNCHANGED phase,
         \A h \in Goroutines : pc'[h] = "hook" =>
           pc[h] = "hook" /\ cur'[h] = cur[h] /\ cur[h].write # w,
         writes'[w].hook # NoTx =>
           writes'[w].crossed \/ writes'[w].tx \in {writes'[w].hook, NoTx},
         writes'[w].fate \in {"right", "wrong", "panicked"} =>
           Durable(w) \/ writes'[w].crossed
  PROVE  FateInv'
<1>1. /\ Written' = Written /\ \A v \in Written \ {w} : writes'[v] = writes[v]
      /\ writes'[w].tx = writes[w].tx
  BY DEF Only
<1>2. ASSUME NEW h \in Goroutines, pc'[h] = "hook"
      PROVE  crossed'[h] \/ writes'[cur'[h].write].tx \in {CtxTx(h)', NoTx}
  <2>1. pc[h] = "hook" /\ cur'[h] = cur[h] /\ cur[h].write \in Written \ {w}
    BY <1>2 DEF TypeInv
  <2>2. CtxTx(h)' = CtxTx(h) /\ (crossed[h] => crossed'[h])
    BY <1>2, <2>1, HookKeeps
  <2> QED BY <1>1, <2>1, <2>2 DEF FateInv
<1>3. \A v \in Written : Durable(v)' <=> Durable(v)
  BY <1>1 DEF Durable
<1>4. NothingInvalidatedEarly'
  BY <1>1, <1>3 DEF FateInv, NothingInvalidatedEarly
<1>5. \A v \in Written' : writes'[v].hook # NoTx =>
        writes'[v].crossed \/ writes'[v].tx \in {writes'[v].hook, NoTx}
  BY <1>1 DEF FateInv
<1> QED BY <1>2, <1>4, <1>5 DEF FateInv

LEMMA AfterCommitFate ==
  ASSUME TypeInv, StackInv, UseInv, WriteInv, FateInv, Next,
         NEW g \in Goroutines, AfterCommit(g)
  PROVE  FateInv'
<1> DEFINE w == cur[g].write  t == mctx[modelOf[g]]
<1>1. /\ w \in Written /\ Only(w) /\ writes'[w].crossed = crossed[g]
      /\ \/ /\ t = NoTx /\ Moves(g, "hook", "idle")
            /\ writes'[w].hook = writes[w].hook
         \/ /\ t \in Txs /\ Moves(g, "hook", "append")
            /\ writes'[w].hook = t /\ writes'[w].fate = writes[w].fate
  BY AfterCommitEffect
<1>2. pc[g] = "hook" /\ Holding(g) /\ pc[g] \in Using
  BY <1>1 DEF Moves, Holding, Using
<1>3. /\ crossed[g] \/ t = CtxTx(g)
      /\ crossed[g] \/ writes[w].tx \in {CtxTx(g), NoTx}
  BY <1>2 DEF UseInv, FateInv
<1>4. /\ writes[w].fate = "made"
      /\ \A h \in Goroutines \ {g} : pc[h] = "hook" => cur[h].write # w
  BY <1>2 DEF WriteInv, Holding
<1> HIDE DEF w, t
<1>5. /\ phase' = phase /\ pc'[g] # "hook"
      /\ \A h \in Goroutines \ {g} : pc'[h] = pc[h] /\ cur'[h] = cur[h]
  BY <1>1 DEF Moves
<1>6. writes'[w].tx = writes[w].tx
  BY <1>1 DEF Only
<1>7. writes'[w].hook # NoTx =>
        writes'[w].crossed \/ writes'[w].tx \in {writes'[w].hook, NoTx}
  BY <1>1, <1>3, <1>6
<1>8. writes'[w].fate \in {"right", "wrong", "panicked"} =>
        Durable(w) \/ writes'[w].crossed
  BY <1>1, <1>3, <1>4 DEF Durable
<1>9. \A h \in Goroutines : pc'[h] = "hook" =>
        pc[h] = "hook" /\ cur'[h] = cur[h] /\ cur[h].write # w
  BY <1>4, <1>5
<1> QED BY <1>1, <1>5, <1>7, <1>8, <1>9, OnlyFate

LEMMA InlinePanicFate ==
  ASSUME TypeInv, StackInv, UseInv, WriteInv, FateInv, Next,
         NEW g \in Goroutines, InlineHookPanics(g)
  PROVE  FateInv'
<1> DEFINE w == cur[g].write
<1>1. /\ w \in Written /\ Only(w) /\ mctx[modelOf[g]] = NoTx
      /\ writes'[w].crossed = crossed[g] /\ writes'[w].hook = writes[w].hook
      /\ pc[g] = "hook" /\ pc'[g] = "off"
      /\ \A h \in Goroutines \ {g} : pc'[h] = pc[h] /\ cur'[h] = cur[h]
      /\ UNCHANGED phase
  BY InlinePanicEffect
<1>2. Holding(g) /\ pc[g] \in Using
  BY <1>1 DEF Holding, Using
<1>3. /\ crossed[g] \/ CtxTx(g) = NoTx
      /\ crossed[g] \/ writes[w].tx \in {CtxTx(g), NoTx}
  BY <1>1, <1>2 DEF UseInv, FateInv
<1>4. \A h \in Goroutines \ {g} : pc[h] = "hook" => cur[h].write # w
  BY <1>2 DEF WriteInv, Holding
<1> HIDE DEF w
<1>5. writes'[w].tx = writes[w].tx
  BY <1>1 DEF Only
<1>6. writes'[w].hook # NoTx =>
        writes'[w].crossed \/ writes'[w].tx \in {writes'[w].hook, NoTx}
  BY <1>1, <1>3, <1>5
<1>7. Durable(w) \/ writes'[w].crossed
  BY <1>1, <1>3 DEF Durable
<1>8. \A h \in Goroutines : pc'[h] = "hook" =>
        pc[h] = "hook" /\ cur'[h] = cur[h] /\ cur[h].write # w
  BY <1>1, <1>4
<1> QED BY <1>1, <1>6, <1>7, <1>8, OnlyFate

LEMMA AppendFate ==
  ASSUME TypeInv, StackInv, UseInv, WriteInv, FateInv, Next,
         NEW g \in Goroutines, AppendHook(g)
  PROVE  FateInv'
<1> DEFINE w == cur[g].write
<1>1. /\ w \in Written /\ Only(w) /\ Moves(g, "append", "idle")
      /\ writes'[w].hook = writes[w].hook /\ writes'[w].crossed = writes[w].crossed
      /\ writes'[w].fate = "hooked"
  BY AppendEffect
<1>2. pc[g] = "append" /\ Holding(g)
  BY <1>1 DEF Moves, Holding
<1>3. \A h \in Goroutines \ {g} : pc[h] = "hook" => cur[h].write # w
  BY <1>2 DEF WriteInv, Holding
<1> HIDE DEF w
<1>4. /\ phase' = phase /\ pc'[g] # "hook"
      /\ \A h \in Goroutines \ {g} : pc'[h] = pc[h] /\ cur'[h] = cur[h]
  BY <1>1 DEF Moves
<1>5. writes'[w].tx = writes[w].tx
  BY <1>1 DEF Only
<1>6. writes'[w].hook # NoTx =>
        writes'[w].crossed \/ writes'[w].tx \in {writes'[w].hook, NoTx}
  BY <1>1, <1>5 DEF FateInv
<1>7. \A h \in Goroutines : pc'[h] = "hook" =>
        pc[h] = "hook" /\ cur'[h] = cur[h] /\ cur[h].write # w
  BY <1>3, <1>4
<1> QED BY <1>1, <1>4, <1>6, <1>7, OnlyFate

(* The hooks that are run belong to a transaction that is committed.       *)
LEMMA RunCommitted ==
  ASSUME TypeInv, StackInv, OrderInv, NEW g \in Goroutines, runAfterCommit(g)
  PROVE  LET t == log[Head(queue[g])].tx IN
         t = Innermost(g) /\ t \in Txs /\ phase[t] = "committed"
<1>1. /\ Head(queue[g]) = queue[g][1] /\ Moves(g, "hooks", "hooks")
      /\ queue[g] # <<>> /\ queue[g] \in Seq(Nat)
  BY RunEffect
<1>2. pc[g] = "hooks" /\ 1 \in 1 .. Len(queue[g])
  BY <1>1, EmptySeq, LenProperties DEF Moves
<1>3. log[queue[g][1]].tx = Innermost(g)
  BY <1>2 DEF OrderInv, HooksOf
<1>4. Innermost(g) \in Txs
  BY <1>2, InnermostType DEF TypeInv
<1>5. phase[Innermost(g)] = "committed"
  BY <1>2 DEF StackInv, Ending
<1> QED BY <1>1, <1>3, <1>4, <1>5

LEMMA RunFate ==
  ASSUME TypeInv, StackInv, OrderInv, UseInv, WriteInv, FateInv, Next,
         NEW g \in Goroutines, runAfterCommit(g)
  PROVE  FateInv'
<1> DEFINE n == Head(queue[g])  w == log[n].write  t == log[n].tx
<1>1. /\ n \in 1 .. Len(log) /\ w \in Written /\ Only(w) /\ Moves(g, "hooks", "hooks")
      /\ UNCHANGED cur
      /\ writes'[w].hook = writes[w].hook /\ writes'[w].crossed = writes[w].crossed
  BY RunEffect
<1>2. t \in Txs /\ phase[t] = "committed"
  BY RunCommitted
<1>3. writes[w].hook = t /\ writes[w].fate # "made"
  BY <1>1 DEF WriteInv
<1>4. \A h \in Goroutines : Holding(h) => writes[cur[h].write].fate = "made"
  BY DEF WriteInv
<1> HIDE DEF n, w, t
<1>5. t # NoTx
  BY <1>2, NoTxNotTx
<1>6. writes[w].crossed \/ writes[w].tx \in {t, NoTx}
  BY <1>1, <1>3, <1>5 DEF FateInv
<1>7. Durable(w) \/ writes'[w].crossed
  BY <1>1, <1>2, <1>6 DEF Durable
<1>8. /\ phase' = phase /\ pc'[g] # "hook"
      /\ \A h \in Goroutines \ {g} : pc'[h] = pc[h] /\ cur'[h] = cur[h]
  BY <1>1 DEF Moves
<1>9. \A h \in Goroutines : pc'[h] = "hook" =>
        pc[h] = "hook" /\ cur'[h] = cur[h] /\ cur[h].write # w
  BY <1>3, <1>4, <1>8 DEF Holding
<1>10. writes'[w].hook # NoTx =>
         writes'[w].crossed \/ writes'[w].tx \in {writes'[w].hook, NoTx}
  <2>1. writes'[w].tx = writes[w].tx
    BY <1>1 DEF Only
  <2> QED BY <1>1, <1>3, <1>6, <2>1
<1> QED BY <1>1, <1>7, <1>8, <1>9, <1>10, OnlyFate

LEMMA StepFateInv ==
  /\ TypeInv /\ StackInv /\ OrderInv /\ UseInv /\ WriteInv /\ FateInv /\ [Next]_vars
  => FateInv'
<1> SUFFICES ASSUME TypeInv, StackInv, OrderInv, UseInv, WriteInv, FateInv, [Next]_vars
             PROVE  FateInv'
  OBVIOUS
<1>1. CASE UNCHANGED vars
  BY <1>1 DEF vars, txs, frames, op, history, FateInv, NothingInvalidatedEarly, Durable,
     Written, CtxTx, Innermost
<1>2. CASE Next
  BY <1>2, EveryStep, CalmFate, ExecFate, ExecUnackedFate, AfterCommitFate,
     InlinePanicFate, AppendFate, RunFate
<1> QED BY <1>1, <1>2

SafetyInv == ContractInv /\ UseInv /\ WriteInv /\ FateInv

LEMMA InitSafetyInv == Init => SafetyInv
BY InitContractInv, InitUseInv, InitWriteInv, InitFateInv DEF SafetyInv

LEMMA StepSafetyInv == SafetyInv /\ [Next]_vars => SafetyInv'
BY StepContractInv, StepUseInv, StepWriteInv, StepFateInv DEF SafetyInv, ContractInv

(* The invalidation of a write runs when the write is committed, not       *)
(* before, unless goroutines used the model at once.                       *)
THEOREM InvalidatesAfterCommit == Spec => []NothingInvalidatedEarly
<1>1. SafetyInv => NothingInvalidatedEarly
  BY DEF SafetyInv, FateInv
<1> QED BY InitSafetyInv, StepSafetyInv, <1>1, PTL DEF Spec


-----------------------------------------------------------------------------
(* No invalidation lost *)

(* n is an element of the list s of hooks.                                 *)
Has(s, n) == \E i \in 1 .. Len(s) : s[i] = n

(* The invalidation of hook n has run.                                     *)
Ran(n) == writes[log[n].write].fate \in {"right", "wrong"}

(* Goroutine g is yet to run hook n of its transaction.                    *)
ToRun(g, n) ==
    /\ \/ pc[g] = "range"
       \/ pc[g] = "hooks" /\ Has(queue[g], n)
    /\ Innermost(g) = log[n].tx

(* Transactions that may have lost a hook.                                 *)
Lossy == shared \cup panicked \cup unacked

(* When only the goroutine of a transaction adds hooks to it, what it has  *)
(* loaded is the list still, and the list has them all.                    *)
LoadedInv ==
    \A g \in Goroutines : pc[g] = "append" /\ cur[g].tx \in ToSet(stack[g]) =>
      cur[g].tx \in shared \/ loaded[g] = hooks[cur[g].tx]

ListedInv ==
    \A n \in 1 .. Len(log) : log[n].tx \in shared \/ Has(hooks[log[n].tx], n)

(* After the commit each hook has run or is going to.                      *)
RanInv ==
    \A n \in 1 .. Len(log) : phase[log[n].tx] = "committed" =>
      log[n].tx \in Lossy \/ Ran(n) \/ \E g \in Goroutines : ToRun(g, n)

KeptInv == LoadedInv /\ ListedInv /\ RanInv

LEMMA InitKeptInv == Init => KeptInv
BY DEF Init, KeptInv, LoadedInv, ListedInv, RanInv

LEMMA InStack ==
  ASSUME TypeInv, NEW g \in Goroutines, NEW t
  PROVE  t \in ToSet(stack[g]) <=> \E i \in 1 .. Len(stack[g]) : stack[g][i] = t
<1>1. stack[g] \in Seq(Txs)
  BY DEF TypeInv, TypeOK
<1>2. DOMAIN stack[g] = 1 .. Len(stack[g])
  BY <1>1, LenProperties
<1> QED BY <1>2 DEF ToSet

LEMMA StacksApart ==
  ASSUME TypeInv, StackInv, NEW g \in Goroutines, NEW h \in Goroutines,
         NEW t \in ToSet(stack[g]), t \in ToSet(stack[h])
  PROVE  g = h
<1>1. PICK i \in 1 .. Len(stack[g]) : stack[g][i] = t
  BY InStack
<1>2. PICK j \in 1 .. Len(stack[h]) : stack[h][j] = t
  BY InStack
<1> QED BY <1>1, <1>2 DEF StackInv

LEMMA InnermostInStack ==
  ASSUME TypeInv, NEW g \in Goroutines, stack[g] # <<>>
  PROVE  Innermost(g) \in ToSet(stack[g])
<1>1. Last(stack[g]) = stack[g][Len(stack[g])] /\ Len(stack[g]) \in Nat \ {0}
  BY LastFront DEF TypeInv, TypeOK
<1>2. Len(stack[g]) \in 1 .. Len(stack[g]) /\ Innermost(g) = stack[g][Len(stack[g])]
  BY <1>1 DEF Innermost
<1> QED BY <1>2, InStack

LEMMA LogType ==
  ASSUME TypeInv, NEW n \in 1 .. Len(log)
  PROVE  log[n].tx \in Txs /\ log[n].write \in Written
<1>1. log[n] \in [tx : Txs, write : Nat]
  BY ElementOfSeq DEF TypeInv, TypeOK
<1> QED BY <1>1 DEF TypeInv

(* A goroutine that is about to append keeps its transactions.             *)
LEMMA AppendStays ==
  ASSUME TypeInv, StackInv, Next, NEW h \in Goroutines, pc'[h] = "append"
  PROVE  stack'[h] = stack[h]
<1>1. CASE Stays
  BY <1>1 DEF Stays
<1>2. ASSUME NEW g \in Goroutines,
             (\E t \in Txs : Pushes(g, t)) \/ Commits(g) \/ Pops(g) \/ Unwinds(g)
      PROVE  stack'[h] = stack[h]
  BY <1>2 DEF Pushes, Commits, Pops, Unwinds, Alone
<1> QED BY <1>1, <1>2, StackSteps

LEMMA StepLoadedInv ==
  ASSUME TypeInv, StackInv, Next, LoadedInv PROVE LoadedInv'
<1> SUFFICES ASSUME NEW h \in Goroutines, pc'[h] = "append",
                    cur'[h].tx \in ToSet(stack'[h])
             PROVE  cur'[h].tx \in shared' \/ loaded'[h] = hooks'[cur'[h].tx]
  BY DEF LoadedInv
<1>0. cur'[h].tx \in ToSet(stack[h])
  BY AppendStays
<1>1. CASE Calm
  <2>1. pc[h] = "append" /\ UNCHANGED <<cur, loaded, hooks, shared>>
    BY <1>1 DEF Calm, Holding
  <2> QED BY <1>0, <2>1 DEF LoadedInv
<1>2. ASSUME NEW g \in Goroutines, Exec(g) \/ runAfterCommit(g)
      PROVE  cur'[h].tx \in shared' \/ loaded'[h] = hooks'[cur'[h].tx]
  <2>1. /\ Moves(g, "exec", "hook") \/ Moves(g, "hooks", "hooks")
        /\ UNCHANGED <<hooks, shared>>
    BY <1>2, ExecEffect, RunEffect
  <2>2. pc[h] = "append" /\ cur'[h] = cur[h] /\ loaded'[h] = loaded[h]
    BY <2>1 DEF Moves
  <2> QED BY <1>0, <2>1, <2>2 DEF LoadedInv
<1>3. ASSUME NEW g \in Goroutines, AfterCommit(g)
      PROVE  cur'[h].tx \in shared' \/ loaded'[h] = hooks'[cur'[h].tx]
  <2> DEFINE t == mctx[modelOf[g]]
  <2>1. /\ UNCHANGED <<hooks, shared>>
        /\ \/ Moves(g, "hook", "idle")
           \/ Moves(g, "hook", "append") /\ cur'[g].tx = t /\ loaded'[g] = hooks[t]
    BY <1>3, AfterCommitEffect
  <2> HIDE DEF t
  <2>2. CASE h = g
    BY <2>1, <2>2 DEF Moves
  <2>3. CASE h # g
    <3>1. pc[h] = "append" /\ cur'[h] = cur[h] /\ loaded'[h] = loaded[h]
      BY <2>1, <2>3 DEF Moves
    <3> QED BY <1>0, <2>1, <3>1 DEF LoadedInv
  <2> QED BY <2>2, <2>3
<1>4. ASSUME NEW g \in Goroutines, AppendHook(g)
      PROVE  cur'[h].tx \in shared' \/ loaded'[h] = hooks'[cur'[h].tx]
  <2> DEFINE t == cur[g].tx
  <2>1. /\ Moves(g, "append", "idle") /\ t \in Txs
        /\ \A u \in Txs \ {t} : hooks'[u] = hooks[u]
        /\ shared' = IF t \in ToSet(stack[g]) THEN shared ELSE shared \cup {t}
    BY <1>4, AppendEffect
  <2> HIDE DEF t
  <2>2. h # g /\ pc[h] = "append" /\ cur'[h] = cur[h] /\ loaded'[h] = loaded[h]
    BY <2>1 DEF Moves
  <2>3. cur[h].tx \in Txs
    BY <2>2 DEF TypeInv
  <2>4. CASE cur[h].tx # t
    <3>1. hooks'[cur[h].tx] = hooks[cur[h].tx] /\ shared \subseteq shared'
      BY <2>1, <2>3, <2>4
    <3> QED BY <1>0, <2>2, <3>1 DEF LoadedInv
  <2>5. CASE cur[h].tx = t
    <3>1. t \notin ToSet(stack[g])
      BY <1>0, <2>2, <2>5, StacksApart
    <3> QED BY <2>1, <2>2, <2>5, <3>1
  <2> QED BY <2>4, <2>5
<1>5. ASSUME NEW g \in Goroutines, ExecUnacked(g) \/ InlineHookPanics(g)
      PROVE  cur'[h].tx \in shared' \/ loaded'[h] = hooks'[cur'[h].tx]
  <2>1. UNCHANGED <<hooks, shared>>
    BY <1>5, ExecUnackedEffect, InlinePanicEffect
  <2>2. CASE ExecUnacked(g)
    <3>1. pc[h] = "append" /\ cur'[h] = cur[h] /\ loaded'[h] = loaded[h]
      BY <2>2, ExecUnackedEffect DEF Moves
    <3> QED BY <1>0, <2>1, <3>1 DEF LoadedInv
  <2>3. CASE InlineHookPanics(g)
    <3>1. pc[h] = "append" /\ cur'[h] = cur[h] /\ loaded'[h] = loaded[h]
      BY <2>3, InlinePanicEffect
    <3> QED BY <1>0, <2>1, <3>1 DEF LoadedInv
  <2> QED BY <1>5, <2>2, <2>3
<1> QED BY <1>1, <1>2, <1>3, <1>4, <1>5, EveryStep

(* The hooks, once registered, stay in the log; only AppendHook adds one.  *)
LEMMA LogStays ==
  ASSUME TypeInv, Next, ~\E g \in Goroutines : AppendHook(g)
  PROVE  UNCHANGED <<log, hooks, shared>>
BY EveryStep, ExecEffect, ExecUnackedEffect, AfterCommitEffect, InlinePanicEffect,
   RunEffect DEF Calm

LEMMA AppendListed ==
  ASSUME TypeInv, StackInv, LoadedInv, ListedInv, NEW g \in Goroutines, AppendHook(g)
  PROVE  ListedInv'
<1> DEFINE t == cur[g].tx  k == Len(log) + 1
<1>1. /\ Moves(g, "append", "idle") /\ t \in Txs
      /\ 1 .. Len(log') = (1 .. Len(log)) \cup {k} /\ log'[k].tx = t
      /\ \A n \in 1 .. Len(log) : log'[n] = log[n]
      /\ hooks'[t] = Append(loaded[g], k)
      /\ \A u \in Txs \ {t} : hooks'[u] = hooks[u]
      /\ shared' = IF t \in ToSet(stack[g]) THEN shared ELSE shared \cup {t}
  BY AppendEffect
<1>2. loaded[g] \in Seq(Nat) /\ k \in Nat
  <2>1. Len(log) \in Nat
    BY LenProperties DEF TypeInv, TypeOK
  <2> QED BY <2>1 DEF TypeInv, TypeOK
<1> HIDE DEF t, k
<1>3. \A n : Has(hooks'[t], n) <=> n = k \/ Has(loaded[g], n)
  <2> DEFINE s == Append(loaded[g], k)
  <2>1. /\ Len(loaded[g]) \in Nat /\ Len(s) = Len(loaded[g]) + 1
        /\ \A i \in 1 .. Len(loaded[g]) : s[i] = loaded[g][i]
        /\ s[Len(loaded[g]) + 1] = k
    BY <1>2, AppendProperties, LenProperties
  <2> HIDE DEF s
  <2>2. 1 .. Len(s) = (1 .. Len(loaded[g])) \cup {Len(loaded[g]) + 1}
    BY <2>1
  <2>3. \A n : Has(s, n) <=> n = k \/ Has(loaded[g], n)
    BY <2>1, <2>2 DEF Has
  <2> QED BY <1>1, <2>3 DEF s
<1>4. ASSUME NEW n \in 1 .. Len(log')
      PROVE  log'[n].tx \in shared' \/ Has(hooks'[log'[n].tx], n)
  <2>1. CASE n = k
    BY <1>1, <1>3, <2>1
  <2>2. CASE n \in 1 .. Len(log) /\ log[n].tx # t
    <3>1. log[n].tx \in Txs
      BY <2>2, LogType
    <3>2. hooks'[log[n].tx] = hooks[log[n].tx] /\ shared \subseteq shared'
      BY <1>1, <2>2, <3>1
    <3> QED BY <1>1, <2>2, <3>2 DEF ListedInv
  <2>3. CASE n \in 1 .. Len(log) /\ log[n].tx = t /\ t \in ToSet(stack[g])
    <3>1. t \in shared \/ loaded[g] = hooks[t]
      BY <1>1, <2>3 DEF LoadedInv, Moves, t
    <3>2. t \in shared \/ Has(loaded[g], n)
      BY <2>3, <3>1 DEF ListedInv
    <3> QED BY <1>1, <1>3, <2>3, <3>2
  <2>4. CASE n \in 1 .. Len(log) /\ log[n].tx = t /\ t \notin ToSet(stack[g])
    BY <1>1, <2>4
  <2> QED BY <1>1, <2>1, <2>2, <2>3, <2>4
<1> QED BY <1>4 DEF ListedInv

LEMMA StepListedInv ==
  ASSUME TypeInv, StackInv, Next, LoadedInv, ListedInv PROVE ListedInv'
BY LogStays, AppendListed DEF ListedInv

(* A hook that has run has run for good.                                   *)
LEMMA RanStays ==
  ASSUME TypeInv, WriteInv, Next, NEW n \in 1 .. Len(log), Ran(n)
  PROVE  log'[n] = log[n] /\ Ran(n)'
<1>1. log[n].write \in Written /\ writes[log[n].write].fate \in {"right", "wrong"}
  BY LogType DEF Ran
<1>2. \A g \in Goroutines : Holding(g) => cur[g].write # log[n].write
  BY <1>1 DEF WriteInv
<1>3. CASE Calm
  BY <1>1, <1>3 DEF Calm, Ran
<1>4. ASSUME NEW g \in Goroutines, Exec(g) PROVE log'[n] = log[n] /\ Ran(n)'
  BY <1>1, <1>4, ExecEffect DEF Ran
<1>5. ASSUME NEW g \in Goroutines, AfterCommit(g) PROVE log'[n] = log[n] /\ Ran(n)'
  <2>1. pc[g] = "hook" /\ Only(cur[g].write) /\ UNCHANGED log
    BY <1>5, AfterCommitEffect DEF Moves
  <2> QED BY <1>1, <1>2, <2>1 DEF Ran, Only, Holding
<1>6. ASSUME NEW g \in Goroutines, AppendHook(g) PROVE log'[n] = log[n] /\ Ran(n)'
  <2>1. pc[g] = "append" /\ Only(cur[g].write) /\ log'[n] = log[n]
    BY <1>6, AppendEffect DEF Moves
  <2> QED BY <1>1, <1>2, <2>1 DEF Ran, Only, Holding
<1>7. ASSUME NEW g \in Goroutines, runAfterCommit(g) PROVE log'[n] = log[n] /\ Ran(n)'
  <2> DEFINE w == log[Head(queue[g])].write
  <2>1. Only(w) /\ UNCHANGED log /\ writes'[w].fate \in {"right", "wrong"}
    BY <1>7, RunEffect
  <2> HIDE DEF w
  <2> QED BY <1>1, <2>1 DEF Ran, Only
<1>8. ASSUME NEW g \in Goroutines, ExecUnacked(g) PROVE log'[n] = log[n] /\ Ran(n)'
  BY <1>1, <1>8, ExecUnackedEffect DEF Ran
<1>9. ASSUME NEW g \in Goroutines, InlineHookPanics(g)
      PROVE  log'[n] = log[n] /\ Ran(n)'
  <2>1. pc[g] = "hook" /\ Only(cur[g].write) /\ UNCHANGED log
    BY <1>9, InlinePanicEffect
  <2> QED BY <1>1, <1>2, <2>1 DEF Ran, Only, Holding
<1> QED BY <1>3, <1>4, <1>5, <1>6, <1>7, <1>8, <1>9, EveryStep

(* What keeps RanInv: a hook whose transaction is committed by the step,   *)
(* or that the step registers, is accounted for, and one that a goroutine  *)
(* was to run it is still to run, or has run, or a panic has lost it.      *)
LEMMA KeepRan ==
  ASSUME TypeInv, WriteInv, RanInv, Next, Lossy \subseteq Lossy',
         \A n \in 1 .. Len(log') : phase'[log'[n].tx] = "committed" =>
           \/ log'[n].tx \in Lossy'
           \/ \E g \in Goroutines : ToRun(g, n)'
           \/ n \in 1 .. Len(log) /\ log'[n] = log[n] /\ phase[log[n].tx] = "committed",
         \A n \in 1 .. Len(log) : \A g \in Goroutines : ToRun(g, n) =>
           ToRun(g, n)' \/ Ran(n)' \/ log[n].tx \in Lossy'
  PROVE  RanInv'
<1> SUFFICES ASSUME NEW n \in 1 .. Len(log'), phase'[log'[n].tx] = "committed"
             PROVE  \/ log'[n].tx \in Lossy' \/ Ran(n)'
                    \/ \E g \in Goroutines : ToRun(g, n)'
  BY DEF RanInv
<1>1. CASE n \in 1 .. Len(log) /\ log'[n] = log[n] /\ phase[log[n].tx] = "committed"
  BY <1>1, RanStays DEF RanInv
<1> QED BY <1>1

(* A step that ends nothing: the goroutines that run hooks are not it.     *)
Rests ==
    /\ \A g \in Goroutines : Ending(g) =>
         pc'[g] = pc[g] /\ queue'[g] = queue[g] /\ stack'[g] = stack[g]
    /\ Lossy \subseteq Lossy'

LEMMA RestsRan ==
  ASSUME TypeInv, WriteInv, RanInv, Next, Rests,
         \A n \in 1 .. Len(log') : phase'[log'[n].tx] = "committed" =>
           \/ log'[n].tx \in Lossy'
           \/ \E g \in Goroutines : ToRun(g, n)'
           \/ n \in 1 .. Len(log) /\ log'[n] = log[n] /\ phase[log[n].tx] = "committed"
  PROVE  RanInv'
<1>1. \A n \in 1 .. Len(log) : log'[n] = log[n]
  <2>1. ASSUME NEW g \in Goroutines, AppendHook(g)
        PROVE  \A n \in 1 .. Len(log) : log'[n] = log[n]
    BY <2>1, AppendEffect
  <2> QED BY <2>1, LogStays
<1>2. \A n \in 1 .. Len(log) : \A g \in Goroutines : ToRun(g, n) => ToRun(g, n)'
  BY <1>1 DEF Rests, ToRun, Has, Innermost, Ending
<1> QED BY <1>2, KeepRan DEF Rests

(* Everything but the steps that run hooks.                                *)
LEMMA RestSteps ==
  ASSUME TypeInv, NEW g \in Goroutines,
         \/ \E r \in Requests \cup {NoReq} : Serve(g, r)
         \/ \E h \in Goroutines : GoSafe(g, h)
         \/ End(g) \/ BeginFails(g)
         \/ \E t \in Txs : Transaction(g, t)
         \/ Rollback(g) \/ FnPanics(g) \/ Commit(g) \/ CommitFails(g) \/ Use(g)
  PROVE  Rests
<1> USE DEF Rests, Ending, Lossy, Goto
<1>0. /\ pc \in [Goroutines -> PCs] /\ stack \in [Goroutines -> Seq(Txs)]
      /\ queue \in [Goroutines -> Seq(Nat)]
  BY DEF TypeInv, TypeOK
<1>1. ASSUME NEW r, Serve(g, r) PROVE Rests
  BY <1>0, <1>1 DEF Serve, op, history
<1>2. ASSUME NEW h \in Goroutines, GoSafe(g, h) PROVE Rests
  BY <1>0, <1>2 DEF GoSafe, op, history
<1>3. CASE End(g)
  BY <1>0, <1>3 DEF End, op, history
<1>4. CASE BeginFails(g)
  BY <1>0, <1>4 DEF BeginFails, frames, op, history
<1>5. ASSUME NEW t \in Txs, Transaction(g, t) PROVE Rests
  BY <1>0, <1>5 DEF Transaction, op, history
<1>6. CASE Rollback(g) \/ CommitFails(g)
  BY <1>0, <1>6 DEF Rollback, CommitFails, Leave, op
<1>7. CASE FnPanics(g)
  BY <1>0, <1>7 DEF FnPanics, Unwind
<1>8. CASE Commit(g)
  BY <1>0, <1>8 DEF Commit, frames, op, history
<1>9. CASE Read(g) \/ Update(g) \/ getDB(g) \/ ExecFails(g) \/ ExecUnacked(g)
  BY <1>0, <1>9 DEF Read, Update, getDB, ExecFails, ExecUnacked, frames, op, history
<1>10. CASE Exec(g) \/ AfterCommit(g)
  BY <1>0, <1>10 DEF Exec, AfterCommit, frames
<1>11. CASE InlineHookPanics(g)
  BY <1>0, <1>11 DEF InlineHookPanics, Unwind
<1>12. CASE AppendHook(g)
  BY <1>0, <1>12 DEF AppendHook, frames
<1> QED BY <1>1, <1>2, <1>3, <1>4, <1>5, <1>6, <1>7, <1>8, <1>9, <1>10, <1>11, <1>12 DEF Use

(* A transaction is committed by its goroutine, which goes on to run its   *)
(* hooks, unless Commit returns an error.                                  *)
LEMMA NewlyCommitted ==
  ASSUME TypeInv, NEW g \in Goroutines, NEW t \in Txs,
         \/ \E r \in Requests \cup {NoReq} : Serve(g, r)
         \/ \E h \in Goroutines : GoSafe(g, h)
         \/ End(g) \/ BeginFails(g)
         \/ \E u \in Txs : Transaction(g, u)
         \/ EndTx(g) \/ Use(g),
         phase'[t] = "committed", phase[t] # "committed"
  PROVE  t \in unacked' \/ (pc'[g] = "range" /\ Innermost(g)' = t)
<1>0. phase \in [Txs -> {"none", "open", "committed", "aborted"}] /\ pc \in [Goroutines -> PCs]
  BY DEF TypeInv, TypeOK
<1>1. UNCHANGED phase => FALSE
  OBVIOUS
<1>2. ~\E r \in Requests \cup {NoReq} : Serve(g, r)
  BY <1>1 DEF Serve, txs
<1>3. /\ ~\E h \in Goroutines : GoSafe(g, h)
      /\ ~End(g) /\ ~BeginFails(g) /\ ~FnPanics(g) /\ ~RangeHooks(g)
      /\ ~runAfterCommit(g) /\ ~HookPanics(g) /\ ~CommitReturns(g)
  BY <1>1 DEF GoSafe, End, BeginFails, FnPanics, RangeHooks, runAfterCommit,
     HookPanics, CommitReturns, txs
<1>4. ~Use(g)
  BY <1>1 DEF Use, Read, Update, getDB, Exec, ExecUnacked, ExecFails, AfterCommit,
     InlineHookPanics, AppendHook, txs
<1>5. ~\E u \in Txs : Transaction(g, u)
  BY <1>0 DEF Transaction, SetPhase
<1>6. ~Rollback(g)
  BY <1>0 DEF Rollback, SetPhase
<1>7. CASE Commit(g)
  <2>1. stack'[g] = stack[g] /\ pc'[g] = "range" /\ t = Innermost(g)
    BY <1>0, <1>7 DEF Commit, Goto, SetPhase, frames
  <2> QED BY <2>1 DEF Innermost
<1>8. CASE CommitFails(g)
  BY <1>0, <1>8 DEF CommitFails, SetPhase
<1> QED BY <1>2, <1>3, <1>4, <1>5, <1>6, <1>7, <1>8 DEF EndTx

LEMMA AppendRan ==
  ASSUME TypeInv, StackInv, WriteInv, RanInv, Next, NEW g \in Goroutines, AppendHook(g)
  PROVE  RanInv'
<1> DEFINE t == cur[g].tx  k == Len(log) + 1
<1>1. /\ Moves(g, "append", "idle") /\ t \in Txs
      /\ 1 .. Len(log') = (1 .. Len(log)) \cup {k} /\ log'[k].tx = t
      /\ \A n \in 1 .. Len(log) : log'[n] = log[n]
      /\ shared' = IF t \in ToSet(stack[g]) THEN shared ELSE shared \cup {t}
  BY AppendEffect
<1>2. phase' = phase /\ pc[g] = "append"
  BY <1>1 DEF Moves
<1> HIDE DEF t, k
<1>3. ASSUME t \in ToSet(stack[g]) PROVE phase[t] = "open"
  <2>1. PICK i \in 1 .. Len(stack[g]) : stack[g][i] = t
    BY <1>3, InStack
  <2>2. ~Ending(g)
    BY <1>2 DEF Ending
  <2> QED BY <2>1, <2>2 DEF StackInv
<1>4. t \in Lossy' \/ phase'[t] # "committed"
  BY <1>1, <1>2, <1>3 DEF Lossy
<1>5. \A n \in 1 .. Len(log') : phase'[log'[n].tx] = "committed" =>
        \/ log'[n].tx \in Lossy'
        \/ n \in 1 .. Len(log) /\ log'[n] = log[n] /\ phase[log[n].tx] = "committed"
  BY <1>1, <1>2, <1>4
<1>6. Rests
  BY RestSteps DEF Use
<1> QED BY <1>5, <1>6, RestsRan

LEMMA RestRan ==
  ASSUME TypeInv, StackInv, WriteInv, RanInv, Next, NEW g \in Goroutines,
         \/ \E r \in Requests \cup {NoReq} : Serve(g, r)
         \/ \E h \in Goroutines : GoSafe(g, h)
         \/ End(g) \/ BeginFails(g)
         \/ \E t \in Txs : Transaction(g, t)
         \/ Rollback(g) \/ FnPanics(g) \/ Commit(g) \/ CommitFails(g) \/ Use(g)
  PROVE  RanInv'
<1>1. CASE AppendHook(g)
  BY <1>1, AppendRan
<1>2. CASE ~\E h \in Goroutines : AppendHook(h)
  <2>1. UNCHANGED log
    BY <1>2, LogStays
  <2>2. ASSUME NEW n \in 1 .. Len(log), phase'[log[n].tx] = "committed"
        PROVE  \/ log[n].tx \in Lossy'
               \/ ToRun(g, n)'
               \/ phase[log[n].tx] = "committed"
    <3>1. log[n].tx \in Txs
      BY LogType
    <3>2. CASE phase[log[n].tx] # "committed"
      <4>1. log[n].tx \in unacked' \/ (pc'[g] = "range" /\ Innermost(g)' = log[n].tx)
        BY <2>2, <3>1, <3>2, NewlyCommitted DEF EndTx
      <4> QED BY <2>1, <4>1 DEF Lossy, ToRun
    <3> QED BY <3>2
  <2>3. Rests
    BY RestSteps
  <2> QED BY <2>1, <2>2, <2>3, RestsRan
<1>3. CASE (\E h \in Goroutines : AppendHook(h)) /\ ~AppendHook(g)
  BY <1>3, AppendRan
<1> QED BY <1>1, <1>2, <1>3

(* A step of g's own loop over its hooks.                                  *)
LEMMA LoopRan ==
  ASSUME TypeInv, WriteInv, RanInv, Next, UNCHANGED <<phase, log>>,
         Lossy \subseteq Lossy', NEW g \in Goroutines,
         \A h \in Goroutines \ {g} :
           pc'[h] = pc[h] /\ queue'[h] = queue[h] /\ stack'[h] = stack[h],
         \A n \in 1 .. Len(log) : ToRun(g, n) =>
           ToRun(g, n)' \/ Ran(n)' \/ log[n].tx \in Lossy'
  PROVE  RanInv'
<1>1. \A n \in 1 .. Len(log) : \A h \in Goroutines \ {g} : ToRun(h, n) => ToRun(h, n)'
  BY DEF ToRun, Has, Innermost
<1>2. \A n \in 1 .. Len(log) : \A h \in Goroutines : ToRun(h, n) =>
        ToRun(h, n)' \/ Ran(n)' \/ log[n].tx \in Lossy'
  BY <1>1
<1> QED BY <1>2, KeepRan

LEMMA RangeRan ==
  ASSUME TypeInv, WriteInv, ListedInv, RanInv, Next, NEW g \in Goroutines, RangeHooks(g)
  PROVE  RanInv'
<1>1. /\ UNCHANGED <<phase, log, stack, shared, panicked, unacked>>
      /\ pc[g] = "range" /\ pc'[g] = "hooks" /\ queue'[g] = hooks[Innermost(g)]
      /\ \A h \in Goroutines \ {g} : pc'[h] = pc[h] /\ queue'[h] = queue[h]
  BY DEF RangeHooks, Goto, txs, frames, history, TypeInv, TypeOK
<1>2. Lossy' = Lossy /\ shared \subseteq Lossy
  BY <1>1 DEF Lossy
<1>3. \A n \in 1 .. Len(log) : ToRun(g, n) => ToRun(g, n)' \/ log[n].tx \in Lossy'
  BY <1>1, <1>2 DEF ToRun, ListedInv, Has, Innermost
<1> QED BY <1>1, <1>2, <1>3, LoopRan

LEMMA PanicRan ==
  ASSUME TypeInv, WriteInv, RanInv, Next, NEW g \in Goroutines, HookPanics(g)
  PROVE  RanInv'
<1>1. /\ UNCHANGED <<phase, log, shared, unacked>>
      /\ pc[g] = "hooks" /\ panicked' = panicked \cup ToSet(stack[g])
      /\ \A h \in Goroutines \ {g} :
           pc'[h] = pc[h] /\ queue'[h] = queue[h] /\ stack'[h] = stack[h]
  BY DEF HookPanics, Unwind, txs, TypeInv, TypeOK
<1>2. Lossy \subseteq Lossy' /\ ToSet(stack[g]) \subseteq Lossy'
  BY <1>1 DEF Lossy
<1>3. Innermost(g) \in ToSet(stack[g])
  BY <1>1, InnermostInStack DEF TypeInv
<1>4. \A n \in 1 .. Len(log) : ToRun(g, n) => log[n].tx \in Lossy'
  BY <1>2, <1>3 DEF ToRun
<1> QED BY <1>1, <1>2, <1>4, LoopRan

LEMMA ReturnRan ==
  ASSUME TypeInv, WriteInv, RanInv, Next, NEW g \in Goroutines, CommitReturns(g)
  PROVE  RanInv'
<1>1. /\ UNCHANGED <<phase, log, shared, panicked, unacked>>
      /\ pc[g] = "hooks" /\ queue[g] = <<>>
      /\ \A h \in Goroutines \ {g} :
           pc'[h] = pc[h] /\ queue'[h] = queue[h] /\ stack'[h] = stack[h]
  BY DEF CommitReturns, Leave, Goto, op, TypeInv, TypeOK
<1>2. Lossy' = Lossy
  BY <1>1 DEF Lossy
<1>3. \A n \in 1 .. Len(log) : ~ToRun(g, n)
  BY <1>1 DEF ToRun, Has
<1> QED BY <1>1, <1>2, <1>3, LoopRan

LEMMA RunRan ==
  ASSUME TypeInv, WriteInv, RanInv, Next, NEW g \in Goroutines, runAfterCommit(g)
  PROVE  RanInv'
<1> DEFINE k == Head(queue[g])
<1>1. /\ Moves(g, "hooks", "hooks") /\ k = queue[g][1]
      /\ UNCHANGED <<log, shared, panicked, unacked>>
      /\ queue[g] # <<>> /\ queue[g] \in Seq(Nat) /\ queue'[g] = Tail(queue[g])
      /\ \A h \in Goroutines \ {g} : queue'[h] = queue[h]
      /\ writes'[log[k].write].fate \in {"right", "wrong"}
  BY RunEffect
<1> HIDE DEF k
<1>2. /\ Len(queue[g]) \in Nat /\ Len(queue'[g]) = Len(queue[g]) - 1
      /\ \A i \in 1 .. Len(queue'[g]) : queue'[g][i] = queue[g][i + 1]
  BY <1>1, HeadTailProperties, LenProperties
<1>3. ASSUME NEW n, Has(queue[g], n), n # k PROVE Has(queue'[g], n)
  <2>1. PICK i \in 1 .. Len(queue[g]) : queue[g][i] = n
    BY <1>3 DEF Has
  <2>2. i # 1
    BY <1>1, <1>3, <2>1
  <2>3. i - 1 \in 1 .. Len(queue'[g]) /\ (i - 1) + 1 = i
    BY <1>2, <2>1, <2>2
  <2>4. queue'[g][i - 1] = queue[g][(i - 1) + 1]
    BY <1>2, <2>3
  <2> QED BY <2>1, <2>3, <2>4 DEF Has
<1>4. ASSUME NEW n, n = k PROVE Ran(n)'
  BY <1>1, <1>4 DEF Ran
<1>5. UNCHANGED <<phase, stack>> /\ pc'[g] = "hooks" /\ pc[g] = "hooks"
  BY <1>1 DEF Moves
<1>6. \A n \in 1 .. Len(log) : ToRun(g, n) => ToRun(g, n)' \/ Ran(n)'
  BY <1>1, <1>3, <1>4, <1>5 DEF ToRun, Innermost
<1>7. /\ Lossy' = Lossy
      /\ \A h \in Goroutines \ {g} :
           pc'[h] = pc[h] /\ queue'[h] = queue[h] /\ stack'[h] = stack[h]
  BY <1>1 DEF Lossy, Moves
<1> QED BY <1>1, <1>5, <1>6, <1>7, LoopRan

LEMMA StepKeptInv ==
  TypeInv /\ StackInv /\ WriteInv /\ KeptInv /\ [Next]_vars => KeptInv'
<1> SUFFICES ASSUME TypeInv, StackInv, WriteInv, KeptInv, [Next]_vars PROVE KeptInv'
  OBVIOUS
<1>1. CASE UNCHANGED vars
  BY <1>1 DEF vars, txs, frames, op, history, KeptInv, LoadedInv, ListedInv, RanInv,
     Has, Ran, ToRun, Lossy, Innermost
<1>2. CASE Next
  <2>1. LoadedInv' /\ ListedInv'
    BY <1>2, StepLoadedInv, StepListedInv DEF KeptInv
  <2>2. RanInv'
    BY <1>2, RestRan, RangeRan, RunRan, PanicRan, ReturnRan DEF Next, EndTx, KeptInv
  <2> QED BY <2>1, <2>2 DEF KeptInv
<1> QED BY <1>1, <1>2

LEMMA KeptDone ==
  ASSUME TypeInv, WriteInv, KeptInv PROVE InvalidationsDone
<1> SUFFICES ASSUME NEW w \in Written, Durable(w), Settled(w), ~Excuse(w)
             PROVE  writes[w].fate = "right"
  BY DEF InvalidationsDone
<1>1. writes[w].fate \in {"made", "hooked", "right", "wrong"}
  BY WriteType DEF Writes, TypeInv, Excuse
<1>2. writes[w].fate # "made"
  BY DEF WriteInv, Settled, Holding
<1>3. writes[w].fate # "wrong"
  BY DEF WriteInv, Excuse
<1>4. ASSUME writes[w].fate = "hooked" PROVE FALSE
  <2>1. PICK n \in 1 .. Len(log) : log[n].write = w
    BY <1>4 DEF WriteInv
  <2>2. /\ writes[w].hook = log[n].tx /\ log[n].tx \in Txs /\ log[n].tx # NoTx
    BY <2>1, LogType, NoTxNotTx DEF WriteInv
  <2>3. log[n].tx \notin Lossy /\ writes[w].tx = log[n].tx
    BY <2>2 DEF Excuse, Lossy
  <2>4. phase[log[n].tx] = "committed"
    BY <2>2, <2>3 DEF Durable
  <2>5. ~Running(log[n].tx)
    BY <2>2 DEF Settled
  <2>6. ~Ran(n) /\ ~\E g \in Goroutines : ToRun(g, n)
    BY <1>4, <2>1, <2>5 DEF Ran, ToRun, Running
  <2> QED BY <2>3, <2>4, <2>6 DEF KeptInv, RanInv
<1> QED BY <1>1, <1>2, <1>3, <1>4

(* The invalidation of every committed write has run, and for its table,   *)
(* when its call and its transaction are over, but for the excuses.        *)
THEOREM NoInvalidationLost == Spec => []InvalidationsDone
<1>1. Init => SafetyInv /\ KeptInv
  BY InitSafetyInv, InitKeptInv
<1>2. SafetyInv /\ KeptInv /\ [Next]_vars => (SafetyInv /\ KeptInv)'
  BY StepSafetyInv, StepKeptInv DEF SafetyInv, ContractInv
<1>3. SafetyInv /\ KeptInv => InvalidationsDone
  BY KeptDone DEF SafetyInv, ContractInv
<1> QED BY <1>1, <1>2, <1>3, PTL DEF Spec

=============================================================================
