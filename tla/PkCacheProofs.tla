---------------------------- MODULE PkCacheProofs ----------------------------
(***************************************************************************)
(* Theorems about PkCache for any number of processes, goroutines and keys *)
(* and any bounds.                                                         *)
(***************************************************************************)
EXTENDS PkCache, SequenceTheorems, FiniteSetTheorems, TLAPS

(* Where the hooks and the writes of a transaction are when.               *)
Control ==
    \A g \in Goroutines :
      /\ ~open[g] => own[g] = [k \in Keys |-> Miss]
      /\ pc[g] \in {"delRedis", "delL1"} => ~open[g] /\ hooks[g] # <<>>
      /\ ~open[g] /\ pc[g] \notin {"delRedis", "delL1"} => hooks[g] = <<>>
      /\ pc[g] \in {"redis", "fillL1", "recheck", "setRedis", "setL1", "lock"} => ~open[g]
      /\ pc[g] \in {"fillL1", "setRedis", "setL1"} => val[g] \in Rows

TypeInv == TypeOK /\ Control

USE PkCacheAssumption

LEMMA Values ==
  /\ Absent \in Rows /\ Stamps \subseteq Rows /\ Absent \notin Stamps
  /\ Miss \notin Rows /\ Failed \notin Rows /\ Miss # Failed
BY DEF Rows, Stamps, Absent, Miss, Failed

LEMMA NextStamp == TypeOK /\ clock < MaxStamp => clock + 1 \in Stamps
BY DEF TypeOK, Stamps

LEMMA ViewType ==
  ASSUME TypeOK, NEW g \in Goroutines, NEW k \in Keys
  PROVE  View(g, k) \in Rows
BY Values DEF TypeOK, View

LEMMA TailOfHooks ==
  ASSUME TypeOK, NEW g \in Goroutines, hooks[g] # <<>>
  PROVE  Head(hooks[g]) \in Keys /\ Tail(hooks[g]) \in Seq(Keys)
BY HeadTailProperties DEF TypeOK

LEMMA InitTypeInv == Init => TypeInv
BY DEF Init, TypeInv, TypeOK, Control, Rows, Stamps, Absent, Miss, Failed, PCs

-----------------------------------------------------------------------------
(* Types *)

LEMMA StartGetTypeInv ==
  ASSUME TypeInv, NEW g \in Goroutines, NEW k \in Keys, NEW next \in PCs,
         StartGet(g, k, next),
         next \in {"redis", "done", "sf"}, next = "redis" => ~open[g],
         val' \in [Goroutines -> Rows \cup {Miss, Failed}],
         \A h \in Goroutines \ {g} : val'[h] = val[h]
  PROVE  TypeInv'
<1> USE DEF TypeInv, TypeOK, StartGet, Goto, data, caches, txs
<1>1. floor' \in [Goroutines -> Rows]
  BY Values
<1>2. pc' \in [Goroutines -> PCs] /\ key' \in [Goroutines -> Keys]
  OBVIOUS
<1>3. Control'
  BY DEF Control
<1> QED BY <1>1, <1>2, <1>3

LEMMA TakeTypeInv ==
  ASSUME TypeInv, NEW g \in Goroutines, NEW from, NEW to \in PCs,
         NEW x \in Rows \cup {Miss, Failed},
         Take(g, from, to, x),
         from \notin {"delRedis", "delL1", "idle"},
         to \notin {"delRedis", "delL1", "redis", "recheck", "lock"},
         to \in {"fillL1", "setRedis", "setL1"} => ~open[g] /\ x \in Rows
  PROVE  TypeInv'
<1> USE DEF TypeInv, TypeOK, Take, Goto, data, caches, txs
<1>1. TypeOK' OBVIOUS
<1>2. Control' BY DEF Control
<1> QED BY <1>1, <1>2

LEMMA SkipTypeInv ==
  ASSUME TypeInv, NEW g \in Goroutines, NEW from, NEW to \in PCs,
         Skip(g, from, to),
         from \notin {"delRedis", "delL1", "idle"},
         to \notin {"delRedis", "delL1", "redis", "recheck", "fillL1", "setRedis", "lock"},
         to = "setL1" => from = "setRedis"
  PROVE  TypeInv'
<1> USE DEF TypeInv, TypeOK, Skip, Goto, data, caches, call, txs
<1>1. TypeOK' OBVIOUS
<1>2. Control' BY DEF Control
<1> QED BY <1>1, <1>2

LEMMA StepTypeInv == TypeInv /\ [Next]_vars => TypeInv'
<1> SUFFICES ASSUME TypeInv, [Next]_vars PROVE TypeInv'
  OBVIOUS
<1> USE DEF data, caches, call, txs, Goto, PCs
<1>1. ASSUME NEW g \in Goroutines, NEW k \in Keys, GetByPK(g, k) PROVE TypeInv'
  <2>1. CASE HitL1(g, k)
    <3>1. StartGet(g, k, "done") /\ val' = [val EXCEPT ![g] = l1[InstanceOf[g]][k]]
      BY <2>1 DEF HitL1
    <3>2. /\ val' \in [Goroutines -> Rows \cup {Miss, Failed}]
          /\ \A h \in Goroutines \ {g} : val'[h] = val[h]
      BY <3>1 DEF TypeInv, TypeOK
    <3> QED BY <3>1, <3>2, StartGetTypeInv
  <2>2. CASE MissL1(g, k) /\ open[g]
    <3>1. StartGet(g, k, "sf") /\ val' = val
      BY <2>2 DEF MissL1, TypeInv, TypeOK
    <3>2. /\ val' \in [Goroutines -> Rows \cup {Miss, Failed}]
          /\ \A h \in Goroutines \ {g} : val'[h] = val[h]
      BY <3>1 DEF TypeInv, TypeOK
    <3> QED BY <3>1, <3>2, StartGetTypeInv
  <2>3. CASE MissL1(g, k) /\ ~open[g]
    <3>1. StartGet(g, k, "redis") /\ val' = val
      BY <2>3 DEF MissL1, TypeInv, TypeOK
    <3>2. /\ val' \in [Goroutines -> Rows \cup {Miss, Failed}]
          /\ \A h \in Goroutines \ {g} : val'[h] = val[h]
      BY <3>1 DEF TypeInv, TypeOK
    <3> QED BY <2>3, <3>1, <3>2, StartGetTypeInv
  <2> QED BY <1>1, <2>1, <2>2, <2>3 DEF GetByPK
<1>2. ASSUME NEW g \in Goroutines, GetRedis(g) PROVE TypeInv'
  <2>1. PICK x \in Rows \cup {Miss} : x = redis[key[g]]
    BY DEF TypeInv, TypeOK
  <2>2. CASE x # Miss /\ Take(g, "redis", "fillL1", x)
    <3>1. ~open[g]
      BY <2>2 DEF Take, Control, TypeInv
    <3> QED BY <2>2, <3>1, TakeTypeInv
  <2>3. CASE redis[key[g]] = Miss /\ Skip(g, "redis", "sf")
    BY <2>3, SkipTypeInv
  <2>4. CASE Take(g, "redis", "done", Failed)
    BY <2>4, TakeTypeInv
  <2> QED BY <1>2, <2>1, <2>2, <2>3, <2>4 DEF GetRedis
<1>3. ASSUME NEW g \in Goroutines, FillL1(g) PROVE TypeInv'
  BY <1>3 DEF FillL1, PutL1, Control, TypeInv, TypeOK
<1>4. ASSUME NEW g \in Goroutines, SfDo(g) PROVE TypeInv'
  <2>1. ASSUME NEW next \in {"load", "recheck"}, Lead(g, next),
               next = "recheck" => ~open[g]
        PROVE  TypeInv'
    BY <2>1 DEF Lead, Control, TypeInv, TypeOK
  <2>2. CASE Follow(g)
    BY <2>2, SkipTypeInv DEF Follow
  <2> QED BY <1>4, <2>1, <2>2 DEF SfDo
<1>5. ASSUME NEW g \in Goroutines, Recheck(g) PROVE TypeInv'
  <2>1. redis[key[g]] \in Rows \cup {Miss, Failed}
    BY DEF TypeInv, TypeOK
  <2>2. CASE Take(g, "recheck", "share", redis[key[g]])
    BY <2>1, <2>2, TakeTypeInv
  <2>3. CASE Skip(g, "recheck", "load")
    BY <2>3, SkipTypeInv
  <2> QED BY <1>5, <2>2, <2>3 DEF Recheck
<1>6. ASSUME NEW g \in Goroutines, Load(g) PROVE TypeInv'
  <2>1. PICK x \in Rows : x = View(g, key[g])
    BY ViewType DEF TypeInv, TypeOK
  <2>2. CASE Take(g, "load", "share", x)
    BY <2>2, TakeTypeInv
  <2>3. CASE ~open[g] /\ Take(g, "load", "setRedis", x)
    BY <2>3, TakeTypeInv
  <2>4. CASE Take(g, "load", "share", Failed)
    BY <2>4, TakeTypeInv
  <2> QED BY <1>6, <2>1, <2>2, <2>3, <2>4 DEF Load
<1>7. ASSUME NEW g \in Goroutines, SetRedis(g) PROVE TypeInv'
  <2>1. CASE redis' = [redis EXCEPT ![key[g]] = val[g]] /\ Goto(g, "setRedis", "setL1")
             /\ UNCHANGED <<data, l1, leader, call, txs, excused>>
    BY <2>1 DEF Control, TypeInv, TypeOK
  <2>2. CASE Skip(g, "setRedis", "setL1")
    BY <2>2, SkipTypeInv
  <2> QED BY <1>7, <2>1, <2>2 DEF SetRedis
<1>8. ASSUME NEW g \in Goroutines, SetL1(g) PROVE TypeInv'
  BY <1>8 DEF SetL1, PutL1, Control, TypeInv, TypeOK
<1>9. ASSUME NEW g \in Goroutines, Share(g) PROVE TypeInv'
  BY <1>9 DEF Share, Served, Control, TypeInv, TypeOK
<1>10. ASSUME NEW g \in Goroutines, Return(g) PROVE TypeInv'
  BY <1>10, Values DEF Return, Control, TypeInv, TypeOK
<1>11. ASSUME NEW g \in Goroutines, NEW k \in Keys, Update(g, k) PROVE TypeInv'
  <2>1. /\ clock + 1 \in Stamps /\ clock' = clock + 1 /\ pc[g] \in {"idle", "lock"}
        /\ Append(hooks[g], k) \in Seq(Keys) /\ Append(hooks[g], k) # <<>>
        /\ hooks' = [hooks EXCEPT ![g] = Append(hooks[g], k)]
        /\ UNCHANGED <<redis, l1, leader, call, open, excused>>
    <3>1. clock + 1 \in Stamps /\ clock' = clock + 1 /\ pc[g] \in {"idle", "lock"}
      BY <1>11, NextStamp DEF Update, Exec, Ready, TypeInv
    <3>2. /\ hooks' = [hooks EXCEPT ![g] = Append(hooks[g], k)]
          /\ UNCHANGED <<redis, l1, leader, call, open, excused>>
      BY <1>11 DEF Update, AfterCommit
    <3> QED BY <3>1, <3>2, AppendProperties DEF TypeInv, TypeOK
  <2>2. CASE open[g]
    <3>1. UNCHANGED <<pc, db, history>> /\ own' = [own EXCEPT ![g][k] = clock + 1]
      BY <1>11, <2>2 DEF Update, Exec, AfterCommit, TypeInv, TypeOK
    <3> QED BY <2>1, <2>2, <3>1, Values DEF Control, TypeInv, TypeOK
  <2>3. CASE ~open[g]
    <3>1. /\ pc' = [pc EXCEPT ![g] = "delRedis"]
          /\ UNCHANGED own
          /\ db' = [db EXCEPT ![k] = clock + 1]
          /\ history' = [history EXCEPT ![k] = @ \cup {clock + 1}]
      BY <1>11, <2>3 DEF Update, Exec, AfterCommit, TypeInv, TypeOK
    <3> QED BY <2>1, <2>3, <3>1, Values DEF Control, TypeInv, TypeOK
  <2> QED BY <2>2, <2>3
<1>12. ASSUME NEW g \in Goroutines, NEW k \in Keys, UpdateNoRow(g, k) PROVE TypeInv'
  <2>1. /\ pc[g] \in {"idle", "lock"}
        /\ Append(hooks[g], k) \in Seq(Keys) /\ Append(hooks[g], k) # <<>>
        /\ hooks' = [hooks EXCEPT ![g] = Append(hooks[g], k)]
        /\ UNCHANGED <<data, caches, leader, call, open, own, excused>>
        /\ \/ open[g] /\ UNCHANGED pc
           \/ ~open[g] /\ pc' = [pc EXCEPT ![g] = "delRedis"]
    <3>1. Append(hooks[g], k) \in Seq(Keys) /\ Append(hooks[g], k) # <<>>
      <4>1. hooks[g] \in Seq(Keys)
        BY DEF TypeInv, TypeOK
      <4> QED BY <4>1, AppendProperties
    <3> QED BY <1>12, <3>1 DEF UpdateNoRow, Ready, AfterCommit
  <2> QED BY <2>1 DEF Control, TypeInv, TypeOK
<1>13. ASSUME NEW g \in Goroutines, NEW k \in Keys, Insert(g, k) PROVE TypeInv'
  <2>1. /\ clock + 1 \in Stamps /\ clock' = clock + 1
        /\ UNCHANGED <<caches, leader, call, open, hooks, excused>>
        /\ pc[g] \in {"idle", "lock"} /\ pc' = [pc EXCEPT ![g] = "idle"]
    BY <1>13, NextStamp DEF Insert, Exec, Ready, TypeInv, TypeOK
  <2>2. CASE open[g]
    <3>1. UNCHANGED <<db, history>> /\ own' = [own EXCEPT ![g][k] = clock + 1]
      BY <1>13, <2>2 DEF Insert, Exec, TypeInv, TypeOK
    <3> QED BY <2>1, <2>2, <3>1, Values DEF Control, TypeInv, TypeOK
  <2>3. CASE ~open[g]
    <3>1. /\ UNCHANGED own
          /\ db' = [db EXCEPT ![k] = clock + 1]
          /\ history' = [history EXCEPT ![k] = @ \cup {clock + 1}]
      BY <1>13, <2>3 DEF Insert, Exec, TypeInv, TypeOK
    <3> QED BY <2>1, <2>3, <3>1, Values DEF Control, TypeInv, TypeOK
  <2> QED BY <2>2, <2>3
<1>13a. ASSUME NEW g \in Goroutines, NEW k \in Keys, UpdateUnacked(g, k) PROVE TypeInv'
  <2>1. /\ clock + 1 \in Stamps /\ clock' = clock + 1 /\ ~open[g]
        /\ UNCHANGED <<caches, leader, call, open, own, hooks>>
        /\ pc[g] \in {"idle", "lock"} /\ pc' = [pc EXCEPT ![g] = "idle"]
        /\ db' = [db EXCEPT ![k] = clock + 1]
        /\ history' = [history EXCEPT ![k] = @ \cup {clock + 1}]
        /\ excused' = excused \cup {k}
    BY <1>13a, NextStamp DEF UpdateUnacked, Exec, Ready, TypeInv, TypeOK
  <2> QED BY <2>1, Values DEF Control, TypeInv, TypeOK
<1>13b. ASSUME NEW g \in Goroutines, NEW k \in Keys, AwaitLock(g, k) PROVE TypeInv'
  BY <1>13b DEF AwaitLock, Control, TypeInv, TypeOK
<1>13c. ASSUME NEW g \in Goroutines, LockEnds(g) PROVE TypeInv'
  BY <1>13c, SkipTypeInv DEF LockEnds
<1>14. ASSUME NEW g \in Goroutines, Begin(g) PROVE TypeInv'
  BY <1>14 DEF Begin, Control, TypeInv, TypeOK
<1>15. ASSUME NEW g \in Goroutines, Apply(g)
       PROVE db' \in [Keys -> Rows] /\ history' \in [Keys -> SUBSET Stamps]
  BY <1>15, ViewType DEF Apply, TypeInv, TypeOK
<1>16. ASSUME NEW g \in Goroutines, Commit(g) PROVE TypeInv'
  <2>1. db' \in [Keys -> Rows] /\ history' \in [Keys -> SUBSET Stamps]
    BY <1>15, <1>16 DEF Commit
  <2>2. CASE hooks[g] = <<>> /\ UNCHANGED pc
    BY <1>16, <2>1, <2>2 DEF Commit, EndTx, Control, TypeInv, TypeOK
  <2>3. CASE hooks[g] # <<>> /\ Goto(g, "idle", "delRedis")
    BY <1>16, <2>1, <2>3 DEF Commit, EndTx, Control, TypeInv, TypeOK
  <2> QED BY <1>16, <2>2, <2>3 DEF Commit
<1>17. ASSUME NEW g \in Goroutines, CommitFails(g) PROVE TypeInv'
  <2>1. /\ db' \in [Keys -> Rows] /\ history' \in [Keys -> SUBSET Stamps]
        /\ excused' \subseteq Keys
    BY <1>15, <1>17 DEF CommitFails, TypeInv, TypeOK
  <2> QED BY <1>17, <2>1 DEF CommitFails, EndTx, Control, TypeInv, TypeOK
<1>18. ASSUME NEW g \in Goroutines, Rollback(g) PROVE TypeInv'
  BY <1>18 DEF Rollback, EndTx, Control, TypeInv, TypeOK
<1>19. ASSUME NEW g \in Goroutines, DelRedis(g) PROVE TypeInv'
  <2>1. Head(hooks[g]) \in Keys
    BY <1>19, TailOfHooks DEF DelRedis, Control, TypeInv, TypeOK
  <2>2. redis' \in [Keys -> Rows \cup {Miss}] /\ excused' \subseteq Keys
    BY <1>19, <2>1 DEF DelRedis, TypeInv, TypeOK
  <2> QED BY <1>19, <2>2 DEF DelRedis, Control, TypeInv, TypeOK
<1>20. ASSUME NEW g \in Goroutines, DelL1(g) PROVE TypeInv'
  <2>1. Head(hooks[g]) \in Keys /\ Tail(hooks[g]) \in Seq(Keys)
    BY <1>20, TailOfHooks DEF DelL1, Control, TypeInv, TypeOK
  <2>2. l1' \in [Instances -> [Keys -> Rows \cup {Miss}]]
    BY <1>20, <2>1 DEF DelL1, DelFromL1, PutL1, TypeInv, TypeOK
  <2>3. CASE Goto(g, "delL1", "idle") /\ Tail(hooks[g]) = <<>>
    BY <1>20, <2>1, <2>2, <2>3 DEF DelL1, Control, TypeInv, TypeOK
  <2>4. CASE Goto(g, "delL1", "delRedis") /\ Tail(hooks[g]) # <<>>
    BY <1>20, <2>1, <2>2, <2>4 DEF DelL1, Control, TypeInv, TypeOK
  <2> QED BY <1>20, <2>3, <2>4 DEF DelL1
<1>21. ASSUME NEW k \in Keys, RedisExpire(k) PROVE TypeInv'
  BY <1>21 DEF RedisExpire, Control, TypeInv, TypeOK
<1>22. ASSUME NEW i \in Instances, NEW k \in Keys, L1Expire(i, k) PROVE TypeInv'
  BY <1>22 DEF L1Expire, Control, TypeInv, TypeOK
<1>23. ASSUME NEW i \in Instances, Crash(i) PROVE TypeInv'
  <2>1. excused' \subseteq Keys /\ l1' \in [Instances -> [Keys -> Rows \cup {Miss}]]
    BY <1>23 DEF Crash, TypeInv, TypeOK
  <2>2. /\ pc' \in [Goroutines -> PCs]
        /\ val' \in [Goroutines -> Rows \cup {Miss, Failed}]
        /\ floor' \in [Goroutines -> Rows]
        /\ open' \in [Goroutines -> BOOLEAN]
        /\ own' \in [Goroutines -> [Keys -> Stamps \cup {Miss}]]
        /\ hooks' \in [Goroutines -> Seq(Keys)]
    BY <1>23, Values, EmptySeq DEF Crash, TypeInv, TypeOK
  <2>3. Control'
    BY <1>23 DEF Crash, Control, TypeInv, TypeOK
  <2> QED BY <1>23, <2>1, <2>2, <2>3 DEF Crash, TypeInv, TypeOK
<1>24. CASE UNCHANGED vars
  BY <1>24 DEF vars, Control, TypeInv, TypeOK
<1> QED
  BY <1>1, <1>2, <1>3, <1>4, <1>5, <1>6, <1>7, <1>8, <1>9, <1>10, <1>11, <1>12,
     <1>13, <1>13a, <1>13b, <1>13c, <1>14, <1>16, <1>17, <1>18, <1>19, <1>20, <1>21,
     <1>22, <1>23, <1>24
  DEF Next, Step, Start, Expire

(* Every variable keeps its type, a transaction's writes and hooks belong  *)
(* to an open transaction or to one whose hooks are being run, and only    *)
(* calls outside transactions reach a step that fills a cache.             *)
THEOREM TypeCorrect == Spec => []TypeOK
<1>1. TypeInv => TypeOK
  BY DEF TypeInv
<1> QED BY InitTypeInv, StepTypeInv, <1>1, PTL DEF Spec

-----------------------------------------------------------------------------
(* What the caches hold *)

FillPCs == {"fillL1", "setRedis", "setL1"}

(* The rows and what is on its way to a cache, besides the caches.         *)
CommittedInv ==
    /\ CachedWasCommitted
    /\ \A k \in Keys : db[k] \in EverCommitted(k) /\ (db[k] = Absent => history[k] = {})
    /\ \A g \in Goroutines : pc[g] \in FillPCs => val[g] \in EverCommitted(key[g])

LEMMA InitCommittedInv == Init => CommittedInv
BY DEF Init, CommittedInv, CachedWasCommitted, EverCommitted, FillPCs, Absent, Miss

(* A step that leaves rows and caches alone, and puts nothing on its way.  *)
LEMMA QuietCommittedInv ==
  ASSUME CommittedInv, UNCHANGED <<db, history, redis, l1>>,
         \A g \in Goroutines : pc'[g] \in FillPCs =>
             \/ pc[g] \in FillPCs /\ val'[g] = val[g] /\ key'[g] = key[g]
             \/ val'[g] \in EverCommitted(key'[g])
  PROVE  CommittedInv'
BY DEF CommittedInv, CachedWasCommitted, EverCommitted

(* A step that only removes entries of the caches.                         *)
LEMMA RemoveCommittedInv ==
  ASSUME CommittedInv, UNCHANGED <<db, history>>,
         \A k \in Keys : redis'[k] \in {redis[k], Miss},
         \A i \in Instances, k \in Keys : l1'[i][k] \in {l1[i][k], Miss},
         \A g \in Goroutines : pc'[g] \in FillPCs =>
             pc[g] \in FillPCs /\ val'[g] = val[g] /\ key'[g] = key[g]
  PROVE  CommittedInv'
BY DEF CommittedInv, CachedWasCommitted, EverCommitted

(* A step that commits rows and keeps the caches.                          *)
LEMMA WriteCommittedInv ==
  ASSUME TypeInv, CommittedInv, UNCHANGED <<redis, l1, val, key>>,
         \A k \in Keys :
           \/ db'[k] = db[k] /\ history'[k] = history[k]
           \/ db'[k] \in Stamps /\ history'[k] = history[k] \cup {db'[k]},
         \A g \in Goroutines : pc'[g] \in FillPCs => pc[g] \in FillPCs
  PROVE  CommittedInv'
<1>1. \A k \in Keys : EverCommitted(k) \subseteq EverCommitted(k)'
  BY DEF EverCommitted
<1>2. CachedWasCommitted'
  BY <1>1 DEF CommittedInv, CachedWasCommitted
<1>3. \A k \in Keys : db'[k] \in EverCommitted(k)' /\ (db'[k] = Absent => history'[k] = {})
  BY <1>1, Values DEF CommittedInv, EverCommitted
<1>4. \A g \in Goroutines : key[g] \in Keys
  BY DEF TypeInv, TypeOK
<1> QED BY <1>1, <1>2, <1>3, <1>4 DEF CommittedInv

LEMMA StepCommittedInv == TypeInv /\ CommittedInv /\ [Next]_vars => CommittedInv'
<1> SUFFICES ASSUME TypeInv, CommittedInv, [Next]_vars PROVE CommittedInv'
  OBVIOUS
<1> USE DEF data, caches, call, txs, Goto, FillPCs
<1>1. ASSUME NEW g \in Goroutines, NEW k \in Keys, GetByPK(g, k) PROVE CommittedInv'
  <2>1. /\ UNCHANGED <<db, history, redis, l1>>
        /\ \A h \in Goroutines : pc'[h] \in FillPCs =>
             pc[h] \in FillPCs /\ val'[h] = val[h] /\ key'[h] = key[h]
    BY <1>1 DEF GetByPK, HitL1, MissL1, StartGet, TypeInv, TypeOK
  <2> QED BY <2>1, QuietCommittedInv
<1>2. ASSUME NEW g \in Goroutines, NEW from, NEW to, Skip(g, from, to), to \notin FillPCs
      PROVE CommittedInv'
  <2>1. /\ UNCHANGED <<db, history, redis, l1>>
        /\ \A h \in Goroutines : pc'[h] \in FillPCs =>
             pc[h] \in FillPCs /\ val'[h] = val[h] /\ key'[h] = key[h]
    BY <1>2 DEF Skip, TypeInv, TypeOK
  <2> QED BY <2>1, QuietCommittedInv
<1>3. ASSUME NEW g \in Goroutines, NEW from, NEW to, NEW x, Take(g, from, to, x),
             to \in FillPCs => x \in EverCommitted(key[g])
      PROVE CommittedInv'
  <2>1. /\ UNCHANGED <<db, history, redis, l1>>
        /\ \A h \in Goroutines : pc'[h] \in FillPCs =>
             \/ pc[h] \in FillPCs /\ val'[h] = val[h] /\ key'[h] = key[h]
             \/ val'[h] \in EverCommitted(key'[h])
    BY <1>3 DEF Take, TypeInv, TypeOK
  <2> QED BY <2>1, QuietCommittedInv
<1>4. ASSUME NEW g \in Goroutines, GetRedis(g) PROVE CommittedInv'
  <2>1. PICK x : x = redis[key[g]]
    OBVIOUS
  <2>2. CASE x # Miss /\ Take(g, "redis", "fillL1", x)
    <3>1. x \in EverCommitted(key[g])
      BY <2>1, <2>2 DEF CommittedInv, CachedWasCommitted, TypeInv, TypeOK
    <3> QED BY <1>3, <2>2, <3>1
  <2>3. CASE Skip(g, "redis", "sf")
    BY <1>2, <2>3
  <2>4. CASE Take(g, "redis", "done", Failed)
    BY <1>3, <2>4
  <2> QED BY <1>4, <2>1, <2>2, <2>3, <2>4 DEF GetRedis
<1>5. ASSUME NEW g \in Goroutines, FillL1(g) \/ SetL1(g) PROVE CommittedInv'
  <2>1. val[g] \in EverCommitted(key[g]) /\ key[g] \in Keys
    BY <1>5 DEF FillL1, SetL1, CommittedInv, TypeInv, TypeOK
  <2>2. \A i \in Instances, k \in Keys :
          l1'[i][k] = l1[i][k] \/ (k = key[g] /\ l1'[i][k] = val[g])
    <3>1. PutL1(g, key[g], val[g])
      BY <1>5 DEF FillL1, SetL1
    <3>2. CASE EnableL1Cache
      <4>1. l1' = [l1 EXCEPT ![InstanceOf[g]][key[g]] = val[g]]
        BY <3>1, <3>2 DEF PutL1
      <4> QED BY <4>1, <2>1 DEF TypeInv, TypeOK
    <3>3. CASE ~EnableL1Cache
      BY <3>1, <3>3 DEF PutL1
    <3> QED BY <3>2, <3>3
  <2>3. /\ UNCHANGED <<db, history, redis, key, val>>
        /\ \A h \in Goroutines : pc'[h] \in FillPCs => pc[h] \in FillPCs
    BY <1>5 DEF FillL1, SetL1, TypeInv, TypeOK
  <2> QED BY <2>1, <2>2, <2>3 DEF CommittedInv, CachedWasCommitted, EverCommitted
<1>6. ASSUME NEW g \in Goroutines, SfDo(g) PROVE CommittedInv'
  <2>1. ASSUME NEW next \in {"load", "recheck"}, Lead(g, next) PROVE CommittedInv'
    <3>1. /\ UNCHANGED <<db, history, redis, l1>>
          /\ \A h \in Goroutines : pc'[h] \in FillPCs =>
               pc[h] \in FillPCs /\ val'[h] = val[h] /\ key'[h] = key[h]
      BY <2>1 DEF Lead, TypeInv, TypeOK
    <3> QED BY <3>1, QuietCommittedInv
  <2> QED BY <1>2, <1>6, <2>1 DEF SfDo, Follow
<1>7. ASSUME NEW g \in Goroutines, Recheck(g) PROVE CommittedInv'
  <2>1. PICK x : x = redis[key[g]]
    OBVIOUS
  <2>2. CASE Take(g, "recheck", "share", x)
    BY <1>3, <2>2
  <2>3. CASE Skip(g, "recheck", "load")
    BY <1>2, <2>3
  <2> QED BY <1>7, <2>1, <2>2, <2>3 DEF Recheck
<1>8. ASSUME NEW g \in Goroutines, Load(g) PROVE CommittedInv'
  <2>1. PICK x : x = View(g, key[g])
    OBVIOUS
  <2>2. CASE Take(g, "load", "share", x)
    BY <1>3, <2>2
  <2>3. CASE ~open[g] /\ Take(g, "load", "setRedis", x)
    <3>1. x = db[key[g]] /\ key[g] \in Keys
      BY <2>1, <2>3 DEF View, TypeInv, TypeOK, Control
    <3>2. x \in EverCommitted(key[g])
      BY <3>1 DEF CommittedInv
    <3> QED BY <1>3, <2>3, <3>2
  <2>4. CASE Take(g, "load", "share", Failed)
    BY <1>3, <2>4
  <2> QED BY <1>8, <2>1, <2>2, <2>3, <2>4 DEF Load
<1>9. ASSUME NEW g \in Goroutines, SetRedis(g) PROVE CommittedInv'
  <2>1. val[g] \in EverCommitted(key[g]) /\ key[g] \in Keys
    BY <1>9 DEF SetRedis, Skip, CommittedInv, TypeInv, TypeOK
  <2>2. \A k \in Keys : redis'[k] = redis[k] \/ (k = key[g] /\ redis'[k] = val[g])
    BY <1>9 DEF SetRedis, Skip, TypeInv, TypeOK
  <2>3. /\ UNCHANGED <<db, history, l1, key, val>>
        /\ \A h \in Goroutines : pc'[h] \in FillPCs => pc[h] \in FillPCs
    BY <1>9 DEF SetRedis, Skip, TypeInv, TypeOK
  <2> QED BY <2>1, <2>2, <2>3 DEF CommittedInv, CachedWasCommitted, EverCommitted
<1>10. ASSUME NEW g \in Goroutines, Share(g) \/ Return(g) PROVE CommittedInv'
  <2>1. /\ UNCHANGED <<db, history, redis, l1>>
        /\ \A h \in Goroutines : pc'[h] \in FillPCs =>
             pc[h] \in FillPCs /\ val'[h] = val[h] /\ key'[h] = key[h]
    BY <1>10 DEF Share, Served, Return, TypeInv, TypeOK
  <2> QED BY <2>1, QuietCommittedInv
<1>11. ASSUME NEW g \in Goroutines, NEW k \in Keys,
              Update(g, k) \/ UpdateUnacked(g, k) \/ Insert(g, k)
       PROVE CommittedInv'
  <2>1. Exec(g, k) /\ UNCHANGED <<redis, l1, val, key>>
    BY <1>11 DEF Update, UpdateUnacked, Insert, AfterCommit
  <2>2. \A h \in Goroutines : pc'[h] \in FillPCs => pc[h] \in FillPCs
    BY <1>11 DEF Update, UpdateUnacked, Insert, AfterCommit, TypeInv, TypeOK
  <2>3. clock + 1 \in Stamps
    BY <2>1, NextStamp DEF Exec, TypeInv
  <2>4. CASE UNCHANGED <<db, history>>
    BY <2>1, <2>2, <2>4, WriteCommittedInv
  <2>5. CASE /\ db' = [db EXCEPT ![k] = clock + 1]
             /\ history' = [history EXCEPT ![k] = @ \cup {clock + 1}]
    <3>1. \A j \in Keys :
            \/ db'[j] = db[j] /\ history'[j] = history[j]
            \/ db'[j] \in Stamps /\ history'[j] = history[j] \cup {db'[j]}
      BY <2>3, <2>5 DEF TypeInv, TypeOK
    <3> QED BY <2>1, <2>2, <3>1, WriteCommittedInv
  <2> QED BY <2>1, <2>4, <2>5 DEF Exec
<1>12. ASSUME NEW g \in Goroutines, NEW k \in Keys, UpdateNoRow(g, k) PROVE CommittedInv'
  <2>1. /\ UNCHANGED <<db, history, redis, l1>>
        /\ \A h \in Goroutines : pc'[h] \in FillPCs =>
             pc[h] \in FillPCs /\ val'[h] = val[h] /\ key'[h] = key[h]
    BY <1>12 DEF UpdateNoRow, AfterCommit, TypeInv, TypeOK
  <2> QED BY <2>1, QuietCommittedInv
<1>12a. ASSUME NEW g \in Goroutines, NEW k \in Keys, AwaitLock(g, k) PROVE CommittedInv'
  <2>1. /\ UNCHANGED <<db, history, redis, l1>>
        /\ \A h \in Goroutines : pc'[h] \in FillPCs =>
             pc[h] \in FillPCs /\ val'[h] = val[h] /\ key'[h] = key[h]
    BY <1>12a DEF AwaitLock, TypeInv, TypeOK
  <2> QED BY <2>1, QuietCommittedInv
<1>12b. ASSUME NEW g \in Goroutines, LockEnds(g) PROVE CommittedInv'
  BY <1>2, <1>12b DEF LockEnds
<1>13. ASSUME NEW g \in Goroutines, Begin(g) PROVE CommittedInv'
  BY <1>13, QuietCommittedInv DEF Begin
<1>14. ASSUME NEW g \in Goroutines, EndTx(g), UNCHANGED <<db, history>> \/ Apply(g),
             \A h \in Goroutines : pc'[h] \in FillPCs => pc[h] \in FillPCs
       PROVE CommittedInv'
  <2>1. \A j \in Keys :
          \/ db'[j] = db[j] /\ history'[j] = history[j]
          \/ db'[j] \in Stamps /\ history'[j] = history[j] \cup {db'[j]}
    <3>1. CASE UNCHANGED <<db, history>>
      BY <3>1
    <3>2. CASE Apply(g)
      BY <3>2 DEF Apply, View, TypeInv, TypeOK
    <3> QED BY <1>14, <3>1, <3>2
  <2>2. UNCHANGED <<redis, l1, val, key>>
    BY <1>14 DEF EndTx
  <2> QED BY <1>14, <2>1, <2>2, WriteCommittedInv
<1>15. ASSUME NEW g \in Goroutines, Commit(g) \/ CommitFails(g) \/ Rollback(g)
       PROVE CommittedInv'
  <2>1. /\ EndTx(g) /\ (UNCHANGED <<db, history>> \/ Apply(g))
        /\ \A h \in Goroutines : pc'[h] \in FillPCs => pc[h] \in FillPCs
    BY <1>15 DEF Commit, CommitFails, Rollback, TypeInv, TypeOK
  <2> QED BY <1>14, <2>1
<1>16. ASSUME NEW g \in Goroutines, DelRedis(g) PROVE CommittedInv'
  <2>1. /\ UNCHANGED <<db, history, l1, key, val>>
        /\ \A h \in Goroutines : pc'[h] \in FillPCs => pc[h] \in FillPCs
        /\ \A k \in Keys : redis'[k] \in {redis[k], Miss}
    BY <1>16 DEF DelRedis, TypeInv, TypeOK
  <2> QED BY <2>1, RemoveCommittedInv
<1>17. ASSUME NEW g \in Goroutines, DelL1(g) PROVE CommittedInv'
  <2>1. /\ UNCHANGED <<db, history, redis, key, val>>
        /\ \A h \in Goroutines : pc'[h] \in FillPCs => pc[h] \in FillPCs
    BY <1>17 DEF DelL1, TypeInv, TypeOK
  <2>2. \A i \in Instances, k \in Keys : l1'[i][k] \in {l1[i][k], Miss}
    BY <1>17 DEF DelL1, DelFromL1, PutL1, TypeInv, TypeOK
  <2> QED BY <2>1, <2>2, RemoveCommittedInv
<1>18. ASSUME NEW k \in Keys, RedisExpire(k) PROVE CommittedInv'
  <2>1. /\ UNCHANGED <<db, history, l1, key, val, pc>>
        /\ \A j \in Keys : redis'[j] \in {redis[j], Miss}
    BY <1>18 DEF RedisExpire, TypeInv, TypeOK
  <2> QED BY <2>1, RemoveCommittedInv
<1>19. ASSUME NEW i \in Instances, NEW k \in Keys, L1Expire(i, k) PROVE CommittedInv'
  <2>1. /\ UNCHANGED <<db, history, redis, key, val, pc>>
        /\ \A n \in Instances, j \in Keys : l1'[n][j] \in {l1[n][j], Miss}
    BY <1>19 DEF L1Expire, TypeInv, TypeOK
  <2> QED BY <2>1, RemoveCommittedInv
<1>20. ASSUME NEW i \in Instances, Crash(i) PROVE CommittedInv'
  <2>1. /\ UNCHANGED <<db, history, redis, key>>
        /\ \A h \in Goroutines : pc'[h] \in FillPCs =>
             pc[h] \in FillPCs /\ val'[h] = val[h]
    BY <1>20 DEF Crash, TypeInv, TypeOK
  <2>2. \A n \in Instances, j \in Keys : l1'[n][j] \in {l1[n][j], Miss}
    BY <1>20 DEF Crash, TypeInv, TypeOK
  <2> QED BY <2>1, <2>2, RemoveCommittedInv
<1>21. CASE UNCHANGED vars
  BY <1>21, QuietCommittedInv DEF vars
<1> QED
  BY <1>1, <1>4, <1>5, <1>6, <1>7, <1>8, <1>9, <1>10, <1>11, <1>12, <1>12a, <1>12b,
     <1>13, <1>15, <1>16, <1>17, <1>18, <1>19, <1>20, <1>21
  DEF Next, Step, Start, Expire

(* No cache ever holds a row of an open or rolled back transaction, nor    *)
(* "__null__" for a row that always existed: what GetByPK loads inside a   *)
(* transaction is shared with other callers but never stored.              *)
THEOREM OnlyCommittedCached == Spec => []CachedWasCommitted
<1>1. Init => TypeInv /\ CommittedInv
  BY InitTypeInv, InitCommittedInv
<1>2. TypeInv /\ CommittedInv /\ [Next]_vars => (TypeInv /\ CommittedInv)'
  BY StepTypeInv, StepCommittedInv
<1>3. CommittedInv => CachedWasCommitted
  BY DEF CommittedInv
<1> QED BY <1>1, <1>2, <1>3, PTL DEF Spec

-----------------------------------------------------------------------------
(* Why a row in Redis may be outdated *)

InHooks(g, k) == \E n \in 1 .. Len(hooks[g]) : hooks[g][n] = k

(* A transaction that writes an existing row registers its invalidation,   *)
(* and holds the row's lock.                                               *)
TxInv ==
    /\ \A g \in Goroutines, k \in Keys :
         own[g][k] # Miss /\ db[k] # Absent => InHooks(g, k)
    /\ \A g, h \in Goroutines, k \in Keys :
         own[g][k] # Miss /\ own[h][k] # Miss => g = h

Explained(k) == k \in excused \/ \E g \in Goroutines : PendingDel(g, k)

StaleRow(k) == redis[k] \in Stamps /\ redis[k] # db[k]

(* What is in Redis, and what is about to be written there.                *)
ExplainInv == \A k \in Keys : StaleRow(k) \/ SomeStaleFill(k) => Explained(k)

LEMMA InitTxInv == Init => TxInv /\ ExplainInv
BY Values DEF Init, TxInv, ExplainInv, StaleRow, SomeStaleFill, StaleFill

LEMMA AppendHook ==
  ASSUME TypeOK, NEW g \in Goroutines, NEW k \in Keys,
         hooks' = [hooks EXCEPT ![g] = Append(@, k)]
  PROVE  /\ InHooks(g, k)'
         /\ \A h \in Goroutines, j \in Keys : InHooks(h, j) => InHooks(h, j)'
<1>1. /\ hooks'[g] = Append(hooks[g], k) /\ hooks[g] \in Seq(Keys)
      /\ \A h \in Goroutines \ {g} : hooks'[h] = hooks[h]
  BY DEF TypeOK
<1>2. /\ Len(hooks'[g]) = Len(hooks[g]) + 1 /\ Len(hooks[g]) \in Nat
      /\ hooks'[g][Len(hooks[g]) + 1] = k
      /\ \A n \in 1 .. Len(hooks[g]) : hooks'[g][n] = hooks[g][n]
  BY <1>1, AppendProperties, LenProperties
<1>3. InHooks(g, k)'
  BY <1>2 DEF InHooks
<1>4. \A j \in Keys : InHooks(g, j) => InHooks(g, j)'
  BY <1>2 DEF InHooks
<1>5. \A h \in Goroutines \ {g}, j \in Keys : InHooks(h, j) => InHooks(h, j)'
  BY <1>1 DEF InHooks
<1> QED BY <1>3, <1>4, <1>5

(* A step that commits nothing and registers nothing.                      *)
LEMMA KeepTxInv ==
  ASSUME TxInv, UNCHANGED <<db, own>>,
         \A g \in Goroutines, k \in Keys :
           own[g][k] # Miss /\ InHooks(g, k) => InHooks(g, k)'
  PROVE  TxInv'
BY DEF TxInv

(* The end of a transaction, whatever its outcome.                         *)
LEMMA EndTxInv ==
  ASSUME TypeInv, TxInv, NEW g \in Goroutines, EndTx(g),
         UNCHANGED db \/ Apply(g),
         \A h \in Goroutines \ {g} : hooks'[h] = hooks[h]
  PROVE  TxInv'
<1>1. \A k \in Keys : own'[g][k] = Miss /\ \A h \in Goroutines \ {g} : own'[h][k] = own[h][k]
  BY DEF EndTx, TypeInv, TypeOK
<1>2. \A k \in Keys : db'[k] = db[k] \/ own[g][k] # Miss
  BY DEF Apply, View, TypeInv, TypeOK
<1>3. \A h \in Goroutines \ {g}, k \in Keys : InHooks(h, k) => InHooks(h, k)'
  BY DEF InHooks
<1> QED BY <1>1, <1>2, <1>3 DEF TxInv

LEMMA StepTxInv == TypeInv /\ TxInv /\ [Next]_vars => TxInv'
<1> SUFFICES ASSUME TypeInv, TxInv, [Next]_vars PROVE TxInv'
  OBVIOUS
<1> USE DEF data, caches, call, txs
<1>1. CASE UNCHANGED <<db, own, hooks>>
  BY <1>1, KeepTxInv DEF InHooks
<1>2. ASSUME NEW g \in Goroutines, NEW k \in Keys, Update(g, k) PROVE TxInv'
  <2>1. /\ Exec(g, k) /\ hooks' = [hooks EXCEPT ![g] = Append(@, k)]
        /\ clock + 1 # Miss
    BY <1>2 DEF Update, AfterCommit, TypeInv, TypeOK, Stamps, Miss
  <2>2. /\ InHooks(g, k)'
        /\ \A h \in Goroutines, j \in Keys : InHooks(h, j) => InHooks(h, j)'
    BY <2>1, AppendHook DEF TypeInv
  <2>3. CASE open[g] /\ own' = [own EXCEPT ![g][k] = clock + 1] /\ UNCHANGED db
    <3>1. \A h \in Goroutines \ {g} : own[h][k] = Miss
      BY <2>1 DEF Exec, RowFree
    <3>2. \A h \in Goroutines, j \in Keys :
            own'[h][j] = own[h][j] \/ (h = g /\ j = k)
      BY <2>3 DEF TypeInv, TypeOK
    <3> QED BY <2>2, <2>3, <3>1, <3>2 DEF TxInv
  <2>4. CASE UNCHANGED own /\ db' = [db EXCEPT ![k] = clock + 1] /\ ~open[g]
    <3>1. \A h \in Goroutines : own[h][k] = Miss
      BY <2>1, <2>4 DEF Exec, RowFree, TypeInv, Control
    <3>2. \A j \in Keys : db'[j] = db[j] \/ j = k
      BY <2>4 DEF TypeInv, TypeOK
    <3> QED BY <2>2, <2>4, <3>1, <3>2 DEF TxInv
  <2> QED BY <2>1, <2>3, <2>4 DEF Exec
<1>3. ASSUME NEW g \in Goroutines, NEW k \in Keys, UpdateNoRow(g, k) PROVE TxInv'
  <2>1. UNCHANGED <<db, own>> /\ hooks' = [hooks EXCEPT ![g] = Append(@, k)]
    BY <1>3 DEF UpdateNoRow, AfterCommit
  <2> QED BY <2>1, AppendHook, KeepTxInv DEF TypeInv
<1>4. ASSUME NEW g \in Goroutines, NEW k \in Keys, Insert(g, k) PROVE TxInv'
  <2>1. Exec(g, k) /\ UNCHANGED hooks /\ clock + 1 # Miss
    BY <1>4 DEF Insert, TypeInv, TypeOK, Stamps, Miss
  <2>2. \A h \in Goroutines, j \in Keys : InHooks(h, j) => InHooks(h, j)'
    BY <2>1 DEF InHooks
  <2>3. CASE own' = [own EXCEPT ![g][k] = clock + 1] /\ UNCHANGED db
    <3>1. db[k] = Absent
      BY <1>4 DEF Insert, View, Absent, TypeInv, TypeOK, Stamps
    <3>2. \A h \in Goroutines \ {g} : own[h][k] = Miss
      BY <2>1 DEF Exec, RowFree
    <3>3. \A h \in Goroutines, j \in Keys :
            own'[h][j] = own[h][j] \/ (h = g /\ j = k)
      BY <2>3 DEF TypeInv, TypeOK
    <3> QED BY <2>2, <2>3, <3>1, <3>2, <3>3 DEF TxInv
  <2>4. CASE UNCHANGED own /\ db' = [db EXCEPT ![k] = clock + 1] /\ ~open[g]
    <3>1. \A h \in Goroutines : own[h][k] = Miss
      BY <2>1, <2>4 DEF Exec, RowFree, TypeInv, Control
    <3>2. \A j \in Keys : db'[j] = db[j] \/ j = k
      BY <2>4 DEF TypeInv, TypeOK
    <3> QED BY <2>2, <2>4, <3>1, <3>2 DEF TxInv
  <2> QED BY <2>1, <2>3, <2>4 DEF Exec
<1>4a. ASSUME NEW g \in Goroutines, NEW k \in Keys, UpdateUnacked(g, k) PROVE TxInv'
  <2>1. /\ Exec(g, k) /\ UNCHANGED <<own, hooks>> /\ ~open[g]
        /\ db' = [db EXCEPT ![k] = clock + 1]
    BY <1>4a DEF UpdateUnacked, Exec
  <2>2. \A h \in Goroutines : own[h][k] = Miss
    BY <2>1 DEF Exec, RowFree, TypeInv, Control
  <2>3. \A j \in Keys : db'[j] = db[j] \/ j = k
    BY <2>1 DEF TypeInv, TypeOK
  <2> QED BY <2>1, <2>2, <2>3 DEF TxInv, InHooks
<1>5. ASSUME NEW g \in Goroutines, Commit(g) \/ CommitFails(g) \/ Rollback(g)
      PROVE TxInv'
  <2>1. /\ EndTx(g) /\ (UNCHANGED db \/ Apply(g))
        /\ \A h \in Goroutines \ {g} : hooks'[h] = hooks[h]
    BY <1>5 DEF Commit, CommitFails, Rollback, TypeInv, TypeOK
  <2> QED BY <2>1, EndTxInv
<1>6. ASSUME NEW g \in Goroutines, DelL1(g) PROVE TxInv'
  <2>1. /\ UNCHANGED <<db, own>> /\ own[g] = [k \in Keys |-> Miss]
        /\ hooks' = [hooks EXCEPT ![g] = Tail(@)]
    BY <1>6 DEF DelL1, Goto, TypeInv, Control
  <2>2. \A h \in Goroutines, k \in Keys :
          own[h][k] # Miss /\ InHooks(h, k) => InHooks(h, k)'
    BY <2>1 DEF InHooks, TypeInv, TypeOK
  <2> QED BY <2>1, <2>2, KeepTxInv
<1>7. ASSUME NEW i \in Instances, Crash(i) PROVE TxInv'
  <2>1. \A h \in Goroutines :
          \/ own'[h] = own[h] /\ hooks'[h] = hooks[h]
          \/ own'[h] = [k \in Keys |-> Miss]
    BY <1>7 DEF Crash
  <2>2. UNCHANGED db
    BY <1>7 DEF Crash
  <2> QED BY <2>1, <2>2 DEF TxInv, InHooks
<1>8. ASSUME NEW g \in Goroutines,
             \/ Step(g) /\ ~DelL1(g)
             \/ Begin(g) \/ LockEnds(g)
             \/ \E k \in Keys : GetByPK(g, k) \/ AwaitLock(g, k)
      PROVE  UNCHANGED <<db, own, hooks>>
  BY <1>8 DEF Step, AwaitLock, LockEnds, GetRedis, FillL1, SfDo, Lead, Follow, Recheck, Load, SetRedis,
              SetL1, Share, Return, DelRedis, Take, Skip, Begin, GetByPK, HitL1,
              MissL1, StartGet
<1>9. ASSUME Expire \/ UNCHANGED vars PROVE UNCHANGED <<db, own, hooks>>
  BY <1>9 DEF Expire, RedisExpire, L1Expire, vars
<1> QED
  BY <1>1, <1>2, <1>3, <1>4, <1>4a, <1>5, <1>6, <1>7, <1>8, <1>9
  DEF Next, Step, Start

(* A step that leaves the database, Redis, the transactions and their      *)
(* hooks alone, and starts no fill with an older row.                      *)
LEMMA KeepExplained ==
  ASSUME ExplainInv, UNCHANGED <<db, redis, open, hooks, excused>>,
         \A g \in Goroutines : pc[g] = "delRedis" => pc'[g] = "delRedis",
         \A g \in Goroutines : pc'[g] = "setRedis" =>
           \/ pc[g] = "setRedis" /\ val'[g] = val[g] /\ key'[g] = key[g]
           \/ val'[g] = db[key'[g]]
  PROVE  ExplainInv'
<1>1. \A k \in Keys : StaleRow(k)' => StaleRow(k)
  BY DEF StaleRow
<1>2. \A k \in Keys : SomeStaleFill(k)' => SomeStaleFill(k)
  BY DEF SomeStaleFill, StaleFill
<1>3. \A k \in Keys : Explained(k) => Explained(k)'
  BY DEF Explained, PendingDel
<1> QED BY <1>1, <1>2, <1>3 DEF ExplainInv

(* A step that leaves Redis alone, and explains the rows it commits.       *)
LEMMA WriteExplained ==
  ASSUME ExplainInv, UNCHANGED <<redis, val, key>>,
         \A k \in Keys :
           \/ db'[k] = db[k]
           \/ StaleRow(k)' \/ SomeStaleFill(k)' => Explained(k)',
         \A k \in Keys : Explained(k) => Explained(k)',
         \A g \in Goroutines : pc'[g] = "setRedis" => pc[g] = "setRedis"
  PROVE  ExplainInv'
BY DEF ExplainInv, StaleRow, SomeStaleFill, StaleFill

(* Where no row was ever committed there is none to be outdated.           *)
LEMMA NeverCommitted ==
  ASSUME TypeInv, CommittedInv, NEW k \in Keys, db[k] = Absent,
         UNCHANGED <<redis, val, key>>,
         \A g \in Goroutines : pc'[g] = "setRedis" => pc[g] = "setRedis"
  PROVE  ~StaleRow(k)' /\ ~SomeStaleFill(k)'
<1>1. EverCommitted(k) \subseteq {Absent}
  BY DEF CommittedInv, EverCommitted
<1>2. redis[k] \notin Stamps
  BY <1>1, Values DEF CommittedInv, CachedWasCommitted
<1>3. \A g \in Goroutines : pc[g] = "setRedis" /\ key[g] = k => val[g] \notin Stamps
  BY <1>1, Values DEF CommittedInv, FillPCs
<1> QED BY <1>2, <1>3 DEF StaleRow, SomeStaleFill, StaleFill

LEMMA StepExplainInv ==
  TypeInv /\ CommittedInv /\ TxInv /\ ExplainInv /\ [Next]_vars => ExplainInv'
<1> SUFFICES ASSUME TypeInv, CommittedInv, TxInv, ExplainInv, [Next]_vars
             PROVE  ExplainInv'
  OBVIOUS
<1> USE DEF data, caches, call, txs, Goto
<1>1. ASSUME NEW g \in Goroutines, NEW k \in Keys, GetByPK(g, k) PROVE ExplainInv'
  <2>1. /\ UNCHANGED <<db, redis, open, hooks, excused>>
        /\ \A h \in Goroutines : pc[h] = "delRedis" => pc'[h] = "delRedis"
        /\ \A h \in Goroutines : pc'[h] = "setRedis" =>
             pc[h] = "setRedis" /\ val'[h] = val[h] /\ key'[h] = key[h]
    BY <1>1 DEF GetByPK, HitL1, MissL1, StartGet, TypeInv, TypeOK
  <2> QED BY <2>1, KeepExplained
<1>2. ASSUME NEW g \in Goroutines, NEW from, NEW to, Skip(g, from, to),
             from # "delRedis", to # "setRedis"
      PROVE ExplainInv'
  <2>1. /\ UNCHANGED <<db, redis, open, hooks, excused>>
        /\ \A h \in Goroutines : pc[h] = "delRedis" => pc'[h] = "delRedis"
        /\ \A h \in Goroutines : pc'[h] = "setRedis" =>
             pc[h] = "setRedis" /\ val'[h] = val[h] /\ key'[h] = key[h]
    BY <1>2 DEF Skip, TypeInv, TypeOK
  <2> QED BY <2>1, KeepExplained
<1>3. ASSUME NEW g \in Goroutines, NEW from, NEW to, NEW x, Take(g, from, to, x),
             from # "delRedis", to = "setRedis" => x = db[key[g]]
      PROVE ExplainInv'
  <2>1. /\ UNCHANGED <<db, redis, open, hooks, excused>>
        /\ \A h \in Goroutines : pc[h] = "delRedis" => pc'[h] = "delRedis"
        /\ \A h \in Goroutines : pc'[h] = "setRedis" =>
             \/ pc[h] = "setRedis" /\ val'[h] = val[h] /\ key'[h] = key[h]
             \/ val'[h] = db[key'[h]]
    BY <1>3 DEF Take, TypeInv, TypeOK
  <2> QED BY <2>1, KeepExplained
<1>4. ASSUME NEW g \in Goroutines, GetRedis(g) PROVE ExplainInv'
  <2>1. CASE Take(g, "redis", "fillL1", redis[key[g]])
    BY <1>3, <2>1
  <2>2. CASE Skip(g, "redis", "sf")
    BY <1>2, <2>2
  <2>3. CASE Take(g, "redis", "done", Failed)
    BY <1>3, <2>3
  <2> QED BY <1>4, <2>1, <2>2, <2>3 DEF GetRedis
<1>5. ASSUME NEW g \in Goroutines, SfDo(g) PROVE ExplainInv'
  <2>1. ASSUME NEW next \in {"load", "recheck"}, Lead(g, next) PROVE ExplainInv'
    <3>1. /\ UNCHANGED <<db, redis, open, hooks, excused>>
          /\ \A h \in Goroutines : pc[h] = "delRedis" => pc'[h] = "delRedis"
          /\ \A h \in Goroutines : pc'[h] = "setRedis" =>
               pc[h] = "setRedis" /\ val'[h] = val[h] /\ key'[h] = key[h]
      BY <2>1 DEF Lead, TypeInv, TypeOK
    <3> QED BY <3>1, KeepExplained
  <2> QED BY <1>2, <1>5, <2>1 DEF SfDo, Follow
<1>6. ASSUME NEW g \in Goroutines, Recheck(g) PROVE ExplainInv'
  <2>1. CASE Take(g, "recheck", "share", redis[key[g]])
    BY <1>3, <2>1
  <2>2. CASE Skip(g, "recheck", "load")
    BY <1>2, <2>2
  <2> QED BY <1>6, <2>1, <2>2 DEF Recheck
<1>7. ASSUME NEW g \in Goroutines, Load(g) PROVE ExplainInv'
  <2>1. CASE Take(g, "load", "share", View(g, key[g]))
    BY <1>3, <2>1
  <2>2. CASE ~open[g] /\ Take(g, "load", "setRedis", View(g, key[g]))
    <3>1. View(g, key[g]) = db[key[g]]
      BY <2>2 DEF View, TypeInv, TypeOK, Control
    <3> QED BY <1>3, <2>2, <3>1
  <2>3. CASE Take(g, "load", "share", Failed)
    BY <1>3, <2>3
  <2> QED BY <1>7, <2>1, <2>2, <2>3 DEF Load
<1>8. ASSUME NEW g \in Goroutines, FillL1(g) \/ SetL1(g) \/ Share(g) \/ Return(g)
      PROVE ExplainInv'
  <2>1. /\ UNCHANGED <<db, redis, open, hooks, excused>>
        /\ \A h \in Goroutines : pc[h] = "delRedis" => pc'[h] = "delRedis"
        /\ \A h \in Goroutines : pc'[h] = "setRedis" =>
             pc[h] = "setRedis" /\ val'[h] = val[h] /\ key'[h] = key[h]
    <3>1. CASE FillL1(g) \/ SetL1(g)
      BY <3>1 DEF FillL1, SetL1, TypeInv, TypeOK
    <3>2. CASE Share(g)
      BY <3>2 DEF Share, Served, TypeInv, TypeOK
    <3>3. CASE Return(g)
      BY <3>3 DEF Return, TypeInv, TypeOK
    <3> QED BY <1>8, <3>1, <3>2, <3>3
  <2> QED BY <2>1, KeepExplained
<1>9. ASSUME NEW g \in Goroutines, SetRedis(g) PROVE ExplainInv'
  <2>1. CASE Skip(g, "setRedis", "setL1")
    BY <1>2, <2>1
  <2>2. CASE /\ pc[g] = "setRedis" /\ pc' = [pc EXCEPT ![g] = "setL1"]
             /\ redis' = [redis EXCEPT ![key[g]] = val[g]]
             /\ UNCHANGED <<data, l1, leader, call, txs, excused>>
    <3>1. \A k \in Keys : StaleRow(k)' => StaleRow(k) \/ SomeStaleFill(k)
      BY <2>2 DEF StaleRow, SomeStaleFill, StaleFill, TypeInv, TypeOK
    <3>2. \A k \in Keys : SomeStaleFill(k)' => SomeStaleFill(k)
      BY <2>2 DEF SomeStaleFill, StaleFill, TypeInv, TypeOK
    <3>3. \A k \in Keys : Explained(k) => Explained(k)'
      BY <2>2 DEF Explained, PendingDel, TypeInv, TypeOK
    <3> QED BY <3>1, <3>2, <3>3 DEF ExplainInv
  <2> QED BY <1>9, <2>1, <2>2 DEF SetRedis
<1>10. ASSUME NEW g \in Goroutines, NEW k \in Keys, Update(g, k) PROVE ExplainInv'
  <2>1. /\ UNCHANGED <<redis, val, key, open, excused>> /\ pc[g] \in {"idle", "lock"}
        /\ hooks' = [hooks EXCEPT ![g] = Append(hooks[g], k)]
    BY <1>10 DEF Update, Exec, Ready, AfterCommit
  <2>2. CASE open[g]
    <3>1. UNCHANGED <<db, pc>>
      BY <1>10, <2>2 DEF Update, Exec, AfterCommit
    <3>2. \A j \in Keys : Explained(j) => Explained(j)'
      BY <2>1, <2>2, <3>1 DEF Explained, PendingDel, TypeInv, TypeOK
    <3> QED BY <2>1, <3>1, <3>2, WriteExplained
  <2>3. CASE ~open[g]
    <3>1. /\ db' = [db EXCEPT ![k] = clock + 1]
          /\ pc' = [pc EXCEPT ![g] = "delRedis"]
          /\ hooks[g] = <<>>
      BY <1>10, <2>1, <2>3 DEF Update, Exec, AfterCommit, TypeInv, Control
    <3>2. hooks'[g] = <<k>>
      BY <2>1, <3>1 DEF TypeInv, TypeOK
    <3>3. PendingDel(g, k)'
      BY <2>1, <2>3, <3>1, <3>2 DEF PendingDel, TypeInv, TypeOK
    <3>4. \A j \in Keys : Explained(j) => Explained(j)'
      BY <2>1, <3>1 DEF Explained, PendingDel, TypeInv, TypeOK
    <3>5. /\ \A j \in Keys \ {k} : db'[j] = db[j]
          /\ \A h \in Goroutines : pc'[h] = "setRedis" => pc[h] = "setRedis"
      BY <3>1 DEF TypeInv, TypeOK
    <3> QED BY <2>1, <3>3, <3>4, <3>5, WriteExplained DEF Explained
  <2> QED BY <2>2, <2>3
<1>11. ASSUME NEW g \in Goroutines, NEW k \in Keys, UpdateNoRow(g, k) PROVE ExplainInv'
  <2>1. /\ UNCHANGED <<db, redis, val, key, open, excused>>
        /\ hooks' = [hooks EXCEPT ![g] = Append(hooks[g], k)]
        /\ \A h \in Goroutines \ {g} : pc'[h] = pc[h]
        /\ pc'[g] # "setRedis"
        /\ open[g] \/ hooks[g] = <<>>
    BY <1>11 DEF UpdateNoRow, Ready, AfterCommit, TypeInv, TypeOK, Control
  <2>2. \A h \in Goroutines, j \in Keys : PendingDel(h, j) => PendingDel(h, j)'
    BY <2>1 DEF PendingDel
  <2> QED BY <2>1, <2>2, WriteExplained DEF Explained
<1>12. ASSUME NEW g \in Goroutines, NEW k \in Keys, Insert(g, k) PROVE ExplainInv'
  <2>1. /\ UNCHANGED <<redis, val, key, open, hooks, excused>>
        /\ \A j \in Keys \ {k} : db'[j] = db[j]
        /\ pc[g] \in {"idle", "lock"} /\ pc' = [pc EXCEPT ![g] = "idle"]
        /\ \A h \in Goroutines : pc'[h] = "setRedis" => pc[h] = "setRedis"
    BY <1>12 DEF Insert, Exec, Ready, TypeInv, TypeOK
  <2>2. \A j \in Keys : Explained(j) => Explained(j)'
    BY <2>1 DEF Explained, PendingDel, TypeInv, TypeOK
  <2>3. CASE open[g]
    <3>1. UNCHANGED db
      BY <1>12, <2>3 DEF Insert, Exec
    <3> QED BY <2>1, <2>2, <3>1, WriteExplained
  <2>4. CASE ~open[g]
    <3>1. db[k] = Absent
      BY <1>12, <2>4 DEF Insert, View, TypeInv, TypeOK, Control
    <3>2. ~StaleRow(k)' /\ ~SomeStaleFill(k)'
      BY <2>1, <3>1, NeverCommitted
    <3> QED BY <2>1, <2>2, <3>2, WriteExplained
  <2> QED BY <2>3, <2>4
<1>12a. ASSUME NEW g \in Goroutines, NEW k \in Keys, UpdateUnacked(g, k)
        PROVE ExplainInv'
  <2>1. /\ UNCHANGED <<redis, val, key, open, hooks>> /\ excused' = excused \cup {k}
        /\ \A j \in Keys \ {k} : db'[j] = db[j]
        /\ pc[g] \in {"idle", "lock"} /\ pc' = [pc EXCEPT ![g] = "idle"]
        /\ \A h \in Goroutines : pc'[h] = "setRedis" => pc[h] = "setRedis"
    BY <1>12a DEF UpdateUnacked, Exec, Ready, TypeInv, TypeOK
  <2>2. \A j \in Keys : Explained(j) => Explained(j)'
    BY <2>1 DEF Explained, PendingDel, TypeInv, TypeOK
  <2>3. Explained(k)'
    BY <2>1 DEF Explained
  <2> QED BY <2>1, <2>2, <2>3, WriteExplained
<1>12b. ASSUME NEW g \in Goroutines, NEW k \in Keys, AwaitLock(g, k) PROVE ExplainInv'
  <2>1. /\ UNCHANGED <<db, redis, open, hooks, excused, val>>
        /\ \A h \in Goroutines : pc[h] = "delRedis" => pc'[h] = "delRedis"
        /\ \A h \in Goroutines : pc'[h] = "setRedis" =>
             pc[h] = "setRedis" /\ val'[h] = val[h] /\ key'[h] = key[h]
    BY <1>12b DEF AwaitLock, TypeInv, TypeOK
  <2> QED BY <2>1, KeepExplained
<1>12c. ASSUME NEW g \in Goroutines, LockEnds(g) PROVE ExplainInv'
  BY <1>2, <1>12c DEF LockEnds
<1>13. ASSUME NEW g \in Goroutines, Begin(g) PROVE ExplainInv'
  <2>1. /\ UNCHANGED <<db, redis, val, key, pc, hooks, excused>>
        /\ open' = [open EXCEPT ![g] = TRUE] /\ hooks[g] = <<>>
    BY <1>13 DEF Begin, TypeInv, Control
  <2>2. \A h \in Goroutines, j \in Keys : PendingDel(h, j) => PendingDel(h, j)'
    BY <2>1 DEF PendingDel, TypeInv, TypeOK
  <2> QED BY <2>1, <2>2, WriteExplained DEF Explained
<1>14. ASSUME NEW g \in Goroutines, EndTx(g),
              \A h \in Goroutines \ {g} : pc'[h] = pc[h] /\ hooks'[h] = hooks[h],
              excused \subseteq excused', pc'[g] # "setRedis",
              \/ UNCHANGED db
              \/ /\ Apply(g)
                 /\ \A k \in Keys : own[g][k] # Miss /\ db[k] # Absent => Explained(k)'
       PROVE  ExplainInv'
  <2>1. /\ UNCHANGED <<redis, val, key>> /\ open[g]
        /\ \A h \in Goroutines \ {g} : open'[h] = open[h]
    BY <1>14 DEF EndTx, TypeInv, TypeOK
  <2>2. \A k \in Keys : Explained(k) => Explained(k)'
    BY <1>14, <2>1 DEF Explained, PendingDel
  <2>3. \A h \in Goroutines : pc'[h] = "setRedis" => pc[h] = "setRedis"
    BY <1>14
  <2>4. CASE UNCHANGED db
    BY <2>1, <2>2, <2>3, <2>4, WriteExplained
  <2>5. CASE /\ Apply(g)
             /\ \A k \in Keys : own[g][k] # Miss /\ db[k] # Absent => Explained(k)'
    <3>1. \A k \in Keys : own[g][k] = Miss => db'[k] = db[k]
      BY <2>5 DEF Apply, View
    <3>2. \A k \in Keys : own[g][k] # Miss /\ (StaleRow(k)' \/ SomeStaleFill(k)')
            => Explained(k)'
      BY <2>1, <2>3, <2>5, NeverCommitted
    <3> QED BY <2>1, <2>2, <2>3, <3>1, <3>2, WriteExplained
  <2> QED BY <1>14, <2>4, <2>5
<1>15. ASSUME NEW g \in Goroutines, Commit(g) PROVE ExplainInv'
  <2>1. /\ EndTx(g) /\ Apply(g) /\ UNCHANGED <<hooks, excused>>
        /\ \A h \in Goroutines \ {g} : pc'[h] = pc[h] /\ hooks'[h] = hooks[h]
        /\ pc'[g] # "setRedis"
    BY <1>15 DEF Commit, EndTx, TypeInv, TypeOK
  <2>2. ASSUME NEW k \in Keys, own[g][k] # Miss, db[k] # Absent PROVE Explained(k)'
    <3>1. InHooks(g, k)
      BY <2>2 DEF TxInv
    <3>2. hooks[g] # <<>>
      BY <3>1 DEF InHooks
    <3>3. pc'[g] = "delRedis" /\ ~open'[g]
      BY <1>15, <3>2 DEF Commit, EndTx, TypeInv, TypeOK
    <3> QED BY <2>1, <3>1, <3>3 DEF Explained, PendingDel, InHooks
  <2> QED BY <1>14, <2>1, <2>2
<1>16. ASSUME NEW g \in Goroutines, CommitFails(g) \/ Rollback(g) PROVE ExplainInv'
  <2>1. /\ EndTx(g) /\ UNCHANGED pc /\ pc[g] = "idle" /\ excused \subseteq excused'
        /\ \A h \in Goroutines \ {g} : hooks'[h] = hooks[h]
    BY <1>16 DEF CommitFails, Rollback, EndTx, TypeInv, TypeOK
  <2>2. \/ UNCHANGED db
        \/ Apply(g) /\ \A k \in Keys : own[g][k] # Miss => k \in excused'
    BY <1>16 DEF CommitFails, Rollback
  <2> QED BY <1>14, <2>1, <2>2 DEF Explained
<1>17. ASSUME NEW g \in Goroutines, DelRedis(g) PROVE ExplainInv'
  <2>1. PICK k \in Keys : k = Head(hooks[g])
    BY <1>17, TailOfHooks DEF DelRedis, TypeInv, Control
  <2>2. /\ UNCHANGED <<db, val, key, open, hooks>>
        /\ pc[g] = "delRedis" /\ pc' = [pc EXCEPT ![g] = "delL1"]
        /\ \A j \in Keys \ {k} : j \in excused => j \in excused'
        /\ \A j \in Keys \ {k} : redis'[j] = redis[j]
        /\ \/ redis'[k] = Miss /\ ~SomeStaleFill(k)
           \/ k \in excused'
    BY <1>17, <2>1 DEF DelRedis, TypeInv, TypeOK
  <2>3. \A h \in Goroutines, j \in Keys \ {k} : PendingDel(h, j) => PendingDel(h, j)'
    <3>1. hooks[g][1] = k
      BY <2>1, <2>2 DEF TypeInv, TypeOK, Control
    <3> QED BY <2>2, <3>1 DEF PendingDel, TypeInv, TypeOK
  <2>4. \A j \in Keys : SomeStaleFill(j)' => SomeStaleFill(j)
    BY <2>2 DEF SomeStaleFill, StaleFill, TypeInv, TypeOK
  <2>5. \A j \in Keys \ {k} : StaleRow(j)' => StaleRow(j)
    BY <2>2 DEF StaleRow
  <2>6. StaleRow(k)' \/ SomeStaleFill(k)' => Explained(k)'
    BY <2>2, <2>4, Values DEF StaleRow, Explained
  <2> QED BY <2>2, <2>3, <2>4, <2>5, <2>6 DEF ExplainInv, Explained
<1>18. ASSUME NEW g \in Goroutines, DelL1(g) PROVE ExplainInv'
  <2>1. /\ UNCHANGED <<db, redis, val, key, open, excused>>
        /\ pc[g] = "delL1" /\ hooks[g] # <<>> /\ hooks[g] \in Seq(Keys)
        /\ hooks'[g] = Tail(hooks[g])
        /\ \A h \in Goroutines \ {g} : hooks'[h] = hooks[h] /\ pc'[h] = pc[h]
        /\ pc'[g] # "setRedis"
        /\ Tail(hooks[g]) # <<>> => pc'[g] = "delRedis"
    BY <1>18 DEF DelL1, TypeInv, TypeOK, Control
  <2>2. ASSUME NEW k \in Keys, PendingDel(g, k) PROVE PendingDel(g, k)'
    <3>1. PICK n \in 1 .. Len(hooks[g]) : hooks[g][n] = k /\ n # 1
      BY <2>1, <2>2 DEF PendingDel
    <3>2. /\ Len(Tail(hooks[g])) = Len(hooks[g]) - 1 /\ Len(hooks[g]) \in Nat
          /\ \A m \in 1 .. Len(Tail(hooks[g])) : Tail(hooks[g])[m] = hooks[g][m + 1]
      BY <2>1, HeadTailProperties
    <3>3. n - 1 \in 1 .. Len(Tail(hooks[g])) /\ Tail(hooks[g])[n - 1] = k
      BY <3>1, <3>2
    <3>4. Tail(hooks[g]) # <<>>
      <4>1. Len(Tail(hooks[g])) # 0
        BY <3>2, <3>3
      <4>2. Tail(hooks[g]) \in Seq(Keys)
        BY <2>1, HeadTailProperties
      <4> QED BY <4>1, <4>2, EmptySeq
    <3> QED BY <2>1, <2>2, <3>3, <3>4 DEF PendingDel
  <2>3. \A h \in Goroutines, k \in Keys : PendingDel(h, k) => PendingDel(h, k)'
    <3>1. ASSUME NEW h \in Goroutines \ {g}, NEW k \in Keys, PendingDel(h, k)
          PROVE  PendingDel(h, k)'
      BY <2>1, <3>1 DEF PendingDel
    <3> QED BY <2>2, <3>1
  <2> QED BY <2>1, <2>3, WriteExplained DEF Explained
<1>19. ASSUME NEW k \in Keys, RedisExpire(k) PROVE ExplainInv'
  <2>1. /\ UNCHANGED <<db, val, key, open, hooks, pc>>
        /\ \A j \in Keys \ {k} : j \in excused => j \in excused'
        /\ \A j \in Keys \ {k} : redis'[j] = redis[j]
        /\ redis'[k] = Miss
        /\ SomeStaleFill(k) => excused' = excused
    BY <1>19 DEF RedisExpire, TypeInv, TypeOK
  <2>2. \A h \in Goroutines, j \in Keys : PendingDel(h, j) => PendingDel(h, j)'
    BY <2>1 DEF PendingDel
  <2>3. \A j \in Keys : SomeStaleFill(j)' => SomeStaleFill(j)
    BY <2>1 DEF SomeStaleFill, StaleFill
  <2>4. \A j \in Keys : StaleRow(j)' => StaleRow(j) /\ j # k
    BY <2>1, Values DEF StaleRow
  <2> QED BY <2>1, <2>2, <2>3, <2>4 DEF ExplainInv, Explained
<1>20. ASSUME NEW i \in Instances, NEW k \in Keys, L1Expire(i, k) PROVE ExplainInv'
  BY <1>20, KeepExplained DEF L1Expire
<1>21. ASSUME NEW i \in Instances, Crash(i) PROVE ExplainInv'
  <2>1. /\ UNCHANGED <<db, redis, key>> /\ excused \subseteq excused'
        /\ \A h \in Goroutines, k \in Keys :
             InstanceOf[h] = i /\ PendingDel(h, k) => k \in excused'
        /\ \A h \in Goroutines : InstanceOf[h] = i => pc'[h] = "idle"
        /\ \A h \in Goroutines : InstanceOf[h] # i =>
             pc'[h] = pc[h] /\ val'[h] = val[h] /\ open'[h] = open[h] /\ hooks'[h] = hooks[h]
    BY <1>21 DEF Crash
  <2>2. \A k \in Keys : Explained(k) => Explained(k)'
    BY <2>1 DEF Explained, PendingDel
  <2>3. \A k \in Keys : SomeStaleFill(k)' => SomeStaleFill(k)
    BY <2>1 DEF SomeStaleFill, StaleFill
  <2>4. \A k \in Keys : StaleRow(k)' => StaleRow(k)
    BY <2>1 DEF StaleRow
  <2> QED BY <2>2, <2>3, <2>4 DEF ExplainInv
<1>22. CASE UNCHANGED vars
  BY <1>22, KeepExplained DEF vars
<1> QED
  BY <1>1, <1>4, <1>5, <1>6, <1>7, <1>8, <1>9, <1>10, <1>11, <1>12, <1>12a, <1>12b,
     <1>12c, <1>13, <1>15, <1>16, <1>17, <1>18, <1>19, <1>20, <1>21, <1>22
  DEF Next, Step, Start, Expire

(* An outdated row in Redis is always about to be deleted by the call that *)
(* wrote, or its deletion was defeated in one of the ways that put its key *)
(* in "excused": the write paths of cache_update.go and gorm_tx.go leave   *)
(* no other window, for any number of processes, callers and transactions. *)
THEOREM OutdatedExplained == Spec => []StaleRowExplained
<1> DEFINE Inv == TypeInv /\ CommittedInv /\ TxInv /\ ExplainInv
<1>1. Init => Inv
  BY InitTypeInv, InitCommittedInv, InitTxInv
<1>2. Inv /\ [Next]_vars => Inv'
  BY StepTypeInv, StepCommittedInv, StepTxInv, StepExplainInv
<1>3. Inv => StaleRowExplained
  BY DEF ExplainInv, StaleRow, Explained, StaleRowExplained
<1> HIDE DEF Inv
<1> QED BY <1>1, <1>2, <1>3, PTL DEF Spec

-----------------------------------------------------------------------------
(* Loads of the database *)

LoadPCs   == {"load", "setRedis"}

(* Whoever runs sf.Do's function for a key is the leader of its process.   *)
FlightInv ==
    /\ \A g \in Goroutines :
         pc[g] \in FlightPCs => leader[InstanceOf[g]][key[g]] = g
    /\ LoadsOnlyOnMiss

LEMMA InitFlightInv == Init => FlightInv
BY DEF Init, FlightInv, FlightPCs, LoadsOnlyOnMiss

(* A step that starts and ends no flight, and stores nothing in Redis.     *)
LEMMA KeepFlight ==
  ASSUME TypeInv, FlightInv, UNCHANGED leader,
         \A k \in Keys : redis'[k] \in {redis[k], Miss},
         \A g \in Goroutines : pc'[g] \in FlightPCs =>
           /\ pc[g] \in FlightPCs /\ key'[g] = key[g] /\ open'[g] = open[g]
           /\ \/ pc'[g] \in LoadPCs => pc[g] \in LoadPCs
              \/ redis'[key[g]] = Miss
              \/ "redis" \in Faults
  PROVE  FlightInv'
<1>1. \A g \in Goroutines : key[g] \in Keys
  BY DEF TypeInv, TypeOK
<1>2. \A g \in Goroutines : pc'[g] \in FlightPCs => leader'[InstanceOf[g]][key'[g]] = g
  BY DEF FlightInv
<1>3. LoadsOnlyOnMiss'
  BY <1>1 DEF FlightInv, FlightPCs, LoadPCs, LoadsOnlyOnMiss, OneProcess
<1> QED BY <1>2, <1>3 DEF FlightInv

LEMMA StepFlightInv == TypeInv /\ FlightInv /\ [Next]_vars => FlightInv'
<1> SUFFICES ASSUME TypeInv, FlightInv, [Next]_vars PROVE FlightInv'
  OBVIOUS
<1> USE DEF data, caches, call, txs, Goto, FlightPCs, LoadPCs
<1>1. ASSUME NEW g \in Goroutines, NEW k \in Keys, GetByPK(g, k) PROVE FlightInv'
  <2>1. UNCHANGED <<leader, redis, open>>
    BY <1>1 DEF GetByPK, HitL1, MissL1, StartGet
  <2>2. \A h \in Goroutines : pc'[h] \in FlightPCs => pc'[h] = pc[h] /\ key'[h] = key[h]
    BY <1>1 DEF GetByPK, HitL1, MissL1, StartGet, TypeInv, TypeOK
  <2> QED BY <2>1, <2>2, KeepFlight
<1>2. ASSUME NEW g \in Goroutines, NEW from, NEW to, NEW x,
             Skip(g, from, to) \/ Take(g, from, to, x),
             \/ to \notin FlightPCs
             \/ /\ from \in FlightPCs
                /\ \/ to \in LoadPCs => from \in LoadPCs
                   \/ redis[key[g]] = Miss
                   \/ "redis" \in Faults
      PROVE  FlightInv'
  <2>1. UNCHANGED <<leader, redis, key, open>>
    BY <1>2 DEF Skip, Take
  <2>2. \A h \in Goroutines :
          pc'[h] = pc[h] \/ (h = g /\ pc[h] = from /\ pc'[h] = to)
    BY <1>2 DEF Skip, Take, TypeInv, TypeOK
  <2> QED BY <1>2, <2>1, <2>2, KeepFlight
<1>3. ASSUME NEW g \in Goroutines, GetRedis(g) \/ Recheck(g) \/ Load(g)
      PROVE FlightInv'
  BY <1>2, <1>3 DEF GetRedis, Recheck, Load
<1>4. ASSUME NEW g \in Goroutines, FillL1(g) \/ SetL1(g) \/ DelL1(g)
      PROVE FlightInv'
  <2>1. UNCHANGED <<leader, redis, key, open>>
    BY <1>4 DEF FillL1, SetL1, DelL1
  <2>2. \A h \in Goroutines : pc'[h] \in FlightPCs =>
          pc'[h] = pc[h] \/ (pc[h] = "setL1" /\ pc'[h] = "share")
    BY <1>4 DEF FillL1, SetL1, DelL1, TypeInv, TypeOK
  <2> QED BY <2>1, <2>2, KeepFlight
<1>5. ASSUME NEW g \in Goroutines, SfDo(g) PROVE FlightInv'
  <2>1. ASSUME NEW next \in {"load", "recheck"}, Lead(g, next),
               next = "load" => open[g]
        PROVE  FlightInv'
    <3>1. /\ UNCHANGED <<redis, key, open>> /\ pc[g] = "sf" /\ pc'[g] = next
          /\ leader[InstanceOf[g]][key[g]] = None
          /\ \A h \in Goroutines \ {g} : pc'[h] = pc[h]
      BY <2>1 DEF Lead, TypeInv, TypeOK
    <3>2. \A i \in Instances, k \in Keys :
            \/ leader'[i][k] = leader[i][k] /\ <<i, k>> # <<InstanceOf[g], key[g]>>
            \/ i = InstanceOf[g] /\ k = key[g] /\ leader'[i][k] = g
      BY <2>1 DEF Lead, TypeInv, TypeOK
    <3>3. \A h \in Goroutines : key[h] \in Keys /\ InstanceOf[h] \in Instances /\ h # None
      BY DEF TypeInv, TypeOK
    <3>4. \A h \in Goroutines \ {g} : pc[h] \in FlightPCs =>
            leader'[InstanceOf[h]][key[h]] = h
      BY <3>1, <3>2, <3>3 DEF FlightInv
    <3>5. leader'[InstanceOf[g]][key[g]] = g
      BY <3>2, <3>3
    <3>6. LoadsOnlyOnMiss'
      BY <2>1, <3>1 DEF FlightInv, LoadsOnlyOnMiss, OneProcess
    <3> QED BY <3>1, <3>4, <3>5, <3>6 DEF FlightInv
  <2>2. CASE Follow(g)
    BY <1>2, <2>2 DEF Follow
  <2> QED BY <1>5, <2>1, <2>2 DEF SfDo
<1>6. ASSUME NEW g \in Goroutines, SetRedis(g) PROVE FlightInv'
  <2>1. CASE Skip(g, "setRedis", "setL1")
    BY <1>2, <2>1
  <2>2. CASE /\ pc[g] = "setRedis" /\ pc' = [pc EXCEPT ![g] = "setL1"]
             /\ redis' = [redis EXCEPT ![key[g]] = val[g]]
             /\ UNCHANGED <<data, l1, leader, call, txs, excused>>
    <3>1. \A h \in Goroutines :
            (pc'[h] = pc[h] /\ h # g) \/ (h = g /\ pc'[h] = "setL1")
      BY <2>2 DEF TypeInv, TypeOK
    <3>2. \A h \in Goroutines : pc'[h] \in FlightPCs => leader'[InstanceOf[h]][key'[h]] = h
      BY <2>2, <3>1 DEF FlightInv
    <3>3. ASSUME OneProcess, "redis" \notin Faults,
                 NEW h \in Goroutines, pc'[h] \in LoadPCs, ~open'[h]
          PROVE  redis'[key'[h]] = Miss
      <4>1. h # g /\ pc[h] \in LoadPCs /\ ~open[h]
        BY <2>2, <3>1, <3>3
      <4>2. InstanceOf[h] = InstanceOf[g]
        BY <3>3 DEF OneProcess
      <4>3. key[h] # key[g]
        BY <2>2, <4>1, <4>2 DEF FlightInv
      <4>4. redis'[key[h]] = redis[key[h]]
        BY <2>2, <4>3 DEF TypeInv, TypeOK
      <4> QED BY <2>2, <3>3, <4>1, <4>4 DEF FlightInv, LoadsOnlyOnMiss
    <3> QED BY <3>2, <3>3 DEF FlightInv, LoadsOnlyOnMiss, OneProcess
  <2> QED BY <1>6, <2>1, <2>2 DEF SetRedis
<1>7. ASSUME NEW g \in Goroutines, Share(g) PROVE FlightInv'
  <2>1. /\ UNCHANGED <<redis, key, open>> /\ pc'[g] = "done" /\ pc[g] = "share"
        /\ \A h \in Goroutines : pc'[h] = pc[h] \/ pc'[h] = "done"
    BY <1>7 DEF Share, Served, TypeInv, TypeOK
  <2>2. \A i \in Instances, k \in Keys :
          leader'[i][k] = leader[i][k] \/ (i = InstanceOf[g] /\ k = key[g])
    BY <1>7 DEF Share, TypeInv, TypeOK
  <2>3. \A h \in Goroutines \ {g} : pc[h] \in FlightPCs =>
          leader'[InstanceOf[h]][key[h]] = h
    <3>1. ASSUME NEW h \in Goroutines \ {g}, pc[h] \in FlightPCs
          PROVE  leader'[InstanceOf[h]][key[h]] = leader[InstanceOf[h]][key[h]]
      <4>1. /\ key[h] \in Keys /\ InstanceOf[h] \in Instances
            /\ leader[InstanceOf[h]][key[h]] = h /\ leader[InstanceOf[g]][key[g]] = g
        BY <2>1, <3>1 DEF FlightInv, TypeInv, TypeOK
      <4> QED BY <2>2, <3>1, <4>1
    <3> QED BY <3>1 DEF FlightInv
  <2>4. LoadsOnlyOnMiss'
    BY <2>1 DEF FlightInv, LoadsOnlyOnMiss, OneProcess
  <2> QED BY <2>1, <2>3, <2>4 DEF FlightInv
<1>8. ASSUME NEW g \in Goroutines,
             \/ Return(g) \/ Begin(g) \/ Commit(g) \/ CommitFails(g) \/ Rollback(g)
             \/ \E k \in Keys : \/ Update(g, k) \/ UpdateUnacked(g, k)
                                \/ UpdateNoRow(g, k) \/ Insert(g, k)
      PROVE FlightInv'
  <2>1. UNCHANGED <<leader, redis, key>>
    BY <1>8 DEF Return, Begin, Commit, CommitFails, Rollback, EndTx, Update,
                UpdateUnacked, UpdateNoRow, Insert, AfterCommit
  <2>2. \A h \in Goroutines : pc'[h] \in FlightPCs => pc'[h] = pc[h] /\ h # g
    BY <1>8 DEF Return, Begin, Commit, CommitFails, Rollback, EndTx, Update, Exec,
                Ready, UpdateUnacked, UpdateNoRow, Insert, AfterCommit, TypeInv, TypeOK
  <2>3. \A h \in Goroutines \ {g} : open'[h] = open[h]
    BY <1>8 DEF Return, Begin, Commit, CommitFails, Rollback, EndTx, Update,
                UpdateUnacked, UpdateNoRow, Insert, TypeInv, TypeOK
  <2> QED BY <2>1, <2>2, <2>3, KeepFlight
<1>8a. ASSUME NEW g \in Goroutines, NEW k \in Keys, AwaitLock(g, k) PROVE FlightInv'
  <2>1. UNCHANGED <<leader, redis, open>>
    BY <1>8a DEF AwaitLock
  <2>2. \A h \in Goroutines : pc'[h] \in FlightPCs => pc'[h] = pc[h] /\ key'[h] = key[h]
    BY <1>8a DEF AwaitLock, TypeInv, TypeOK
  <2> QED BY <2>1, <2>2, KeepFlight
<1>8b. ASSUME NEW g \in Goroutines, LockEnds(g) PROVE FlightInv'
  BY <1>2, <1>8b DEF LockEnds
<1>9. ASSUME NEW g \in Goroutines, DelRedis(g) PROVE FlightInv'
  <2>1. /\ UNCHANGED <<leader, key, open>>
        /\ \A h \in Goroutines : pc'[h] \in FlightPCs => pc'[h] = pc[h]
        /\ \A k \in Keys : redis'[k] \in {redis[k], Miss}
    BY <1>9 DEF DelRedis, TypeInv, TypeOK
  <2> QED BY <2>1, KeepFlight
<1>10. ASSUME Expire PROVE FlightInv'
  <2>1. /\ UNCHANGED <<leader, key, open, pc>>
        /\ \A k \in Keys : redis'[k] \in {redis[k], Miss}
    BY <1>10 DEF Expire, RedisExpire, L1Expire, TypeInv, TypeOK
  <2> QED BY <2>1, KeepFlight
<1>11. ASSUME NEW i \in Instances, Crash(i) PROVE FlightInv'
  <2>1. /\ UNCHANGED <<redis, key>>
        /\ \A h \in Goroutines : InstanceOf[h] = i => pc'[h] = "idle"
        /\ \A h \in Goroutines : InstanceOf[h] # i => pc'[h] = pc[h] /\ open'[h] = open[h]
        /\ \A j \in Instances \ {i} : leader'[j] = leader[j]
    BY <1>11 DEF Crash, TypeInv, TypeOK
  <2>2. \A h \in Goroutines : pc'[h] \in FlightPCs => leader'[InstanceOf[h]][key'[h]] = h
    BY <2>1 DEF FlightInv
  <2>3. LoadsOnlyOnMiss'
    BY <2>1 DEF FlightInv, LoadsOnlyOnMiss, OneProcess
  <2> QED BY <2>2, <2>3 DEF FlightInv
<1>12. CASE UNCHANGED vars
  BY <1>12, KeepFlight DEF vars
<1> QED
  BY <1>1, <1>3, <1>4, <1>5, <1>6, <1>7, <1>8, <1>8a, <1>8b, <1>9, <1>10, <1>11, <1>12
  DEF Next, Step, Start

(* In one process whose Redis answers, GetByPK queries the database        *)
(* outside transactions only while Redis has no entry of the row: the      *)
(* singleflight leader looks into Redis again before it loads              *)
(* (cache_get.go 85-97), and no other flight of the key can store one.     *)
THEOREM LoadsAnswerMisses == Spec => []LoadsOnlyOnMiss
<1>1. Init => TypeInv /\ FlightInv
  BY InitTypeInv, InitFlightInv
<1>2. TypeInv /\ FlightInv /\ [Next]_vars => (TypeInv /\ FlightInv)'
  BY StepTypeInv, StepFlightInv
<1>3. FlightInv => LoadsOnlyOnMiss
  BY DEF FlightInv
<1> QED BY <1>1, <1>2, <1>3, PTL DEF Spec

-----------------------------------------------------------------------------
(* Who waits for whom *)

(* Every flight has its leader, who is running the function, and whoever   *)
(* waits does so for a flight; only transaction clients have transactions. *)
WaitInv ==
    /\ \A i \in Instances, k \in Keys : leader[i][k] # None =>
         /\ InstanceOf[leader[i][k]] = i /\ key[leader[i][k]] = k
         /\ pc[leader[i][k]] \in FlightPCs
    /\ \A g \in Goroutines : pc[g] = "wait" => leader[InstanceOf[g]][key[g]] # None
    /\ \A g \in Goroutines : open[g] => g \in TxClients
    /\ \A g \in Goroutines : pc[g] = "lock" => g \in Writers

LEMMA InitWaitInv == Init => WaitInv
BY DEF Init, WaitInv

(* A step that starts and ends no flight and begins no transaction.        *)
LEMMA KeepWait ==
  ASSUME TypeInv, WaitInv, UNCHANGED leader,
         \A g \in Goroutines :
           /\ pc[g] \in FlightPCs => pc'[g] \in FlightPCs /\ key'[g] = key[g]
           /\ pc'[g] = "wait" =>
                \/ pc[g] = "wait" /\ key'[g] = key[g]
                \/ leader[InstanceOf[g]][key'[g]] # None
           /\ open'[g] => open[g]
           /\ pc'[g] = "lock" => pc[g] = "lock" \/ g \in Writers
  PROVE  WaitInv'
<1>1. \A i \in Instances, k \in Keys : leader[i][k] # None => leader[i][k] \in Goroutines
  BY DEF TypeInv, TypeOK
<1> QED BY <1>1 DEF WaitInv

LEMMA StepWaitInv == TypeInv /\ WaitInv /\ [Next]_vars => WaitInv'
<1> SUFFICES ASSUME TypeInv, WaitInv, [Next]_vars PROVE WaitInv'
  OBVIOUS
<1> USE DEF data, caches, call, txs, Goto, FlightPCs
<1>1. ASSUME NEW g \in Goroutines, NEW from, NEW to, NEW x,
             Skip(g, from, to) \/ Take(g, from, to, x),
             from \in FlightPCs => to \in FlightPCs,
             to = "wait" => leader[InstanceOf[g]][key[g]] # None,
             to # "lock"
      PROVE  WaitInv'
  <2>1. UNCHANGED <<leader, key, open>>
    BY <1>1 DEF Skip, Take
  <2>2. \A h \in Goroutines :
          pc'[h] = pc[h] \/ (h = g /\ pc[h] = from /\ pc'[h] = to)
    BY <1>1 DEF Skip, Take, TypeInv, TypeOK
  <2> QED BY <1>1, <2>1, <2>2, KeepWait
<1>2. ASSUME NEW g \in Goroutines, GetRedis(g) \/ Recheck(g) \/ Load(g)
      PROVE WaitInv'
  BY <1>1, <1>2 DEF GetRedis, Recheck, Load
<1>3. ASSUME NEW g \in Goroutines,
             \/ \E k \in Keys : \/ GetByPK(g, k) \/ AwaitLock(g, k) \/ Update(g, k)
                                \/ UpdateUnacked(g, k) \/ UpdateNoRow(g, k) \/ Insert(g, k)
             \/ FillL1(g) \/ SetRedis(g) \/ SetL1(g) \/ Return(g)
             \/ Commit(g) \/ CommitFails(g) \/ Rollback(g)
             \/ DelRedis(g) \/ DelL1(g)
      PROVE WaitInv'
  <2>1. UNCHANGED leader
    BY <1>3 DEF GetByPK, HitL1, MissL1, StartGet, AwaitLock, Update, UpdateUnacked,
                UpdateNoRow, Insert, FillL1, SetRedis, Skip, SetL1, Return, Commit, CommitFails, Rollback, EndTx,
                DelRedis, DelL1
  <2>2. /\ \A h \in Goroutines \ {g} : pc'[h] = pc[h] /\ key'[h] = key[h]
        /\ \A h \in Goroutines : open'[h] => open[h]
    BY <1>3 DEF GetByPK, HitL1, MissL1, StartGet, AwaitLock, Update, Exec, Ready,
                UpdateUnacked, UpdateNoRow, Insert, AfterCommit, FillL1, SetRedis, Skip, SetL1, Return, Commit,
                CommitFails, Rollback, EndTx, DelRedis, DelL1, TypeInv, TypeOK
  <2>3. /\ pc[g] \in FlightPCs => pc'[g] \in FlightPCs /\ key'[g] = key[g]
        /\ pc'[g] # "wait" /\ (pc'[g] = "lock" => pc[g] = "lock" \/ g \in Writers)
    BY <1>3 DEF GetByPK, HitL1, MissL1, StartGet, AwaitLock, Update, Exec, Ready,
                UpdateUnacked, UpdateNoRow, Insert, AfterCommit, FillL1, SetRedis, Skip, SetL1, Return, Commit,
                CommitFails, Rollback, EndTx, DelRedis, DelL1, TypeInv, TypeOK
  <2> QED BY <2>1, <2>2, <2>3, KeepWait
<1>4. ASSUME NEW g \in Goroutines, Begin(g) PROVE WaitInv'
  BY <1>4 DEF Begin, WaitInv, TypeInv, TypeOK
<1>4a. ASSUME NEW g \in Goroutines, LockEnds(g) PROVE WaitInv'
  BY <1>1, <1>4a DEF LockEnds
<1>5. ASSUME NEW g \in Goroutines, SfDo(g) PROVE WaitInv'
  <2>1. ASSUME NEW next \in {"load", "recheck"}, Lead(g, next) PROVE WaitInv'
    <3>1. /\ UNCHANGED <<key, open>> /\ pc[g] = "sf" /\ pc'[g] = next
          /\ \A h \in Goroutines \ {g} : pc'[h] = pc[h]
          /\ \A i \in Instances, k \in Keys :
               \/ leader'[i][k] = leader[i][k]
               \/ i = InstanceOf[g] /\ k = key[g] /\ leader'[i][k] = g
          /\ leader'[InstanceOf[g]][key[g]] = g
      BY <2>1 DEF Lead, TypeInv, TypeOK
    <3>2. /\ \A i \in Instances, k \in Keys :
               leader[i][k] # None => leader[i][k] \in Goroutines
          /\ \A h \in Goroutines : key[h] \in Keys /\ InstanceOf[h] \in Instances
          /\ g # None
      BY DEF TypeInv, TypeOK
    <3>3. ASSUME NEW h \in Goroutines, pc'[h] = "wait"
          PROVE  leader'[InstanceOf[h]][key'[h]] # None
      <4>1. h # g /\ pc[h] = "wait" /\ leader[InstanceOf[h]][key[h]] # None
        BY <3>1, <3>3 DEF WaitInv
      <4> QED BY <3>1, <3>2, <4>1
    <3>4. ASSUME NEW i \in Instances, NEW k \in Keys, leader'[i][k] # None
          PROVE  /\ InstanceOf[leader'[i][k]] = i /\ key'[leader'[i][k]] = k
                 /\ pc'[leader'[i][k]] \in FlightPCs
      <4>1. CASE leader'[i][k] = leader[i][k]
        <5>1. /\ leader[i][k] \in Goroutines /\ InstanceOf[leader[i][k]] = i
              /\ key[leader[i][k]] = k /\ pc[leader[i][k]] \in FlightPCs
          BY <3>2, <3>4, <4>1 DEF WaitInv
        <5> QED BY <3>1, <4>1, <5>1
      <4>2. CASE i = InstanceOf[g] /\ k = key[g] /\ leader'[i][k] = g
        BY <3>1, <4>2
      <4> QED BY <3>1, <4>1, <4>2
    <3> QED BY <3>1, <3>3, <3>4 DEF WaitInv
  <2>2. CASE Follow(g)
    BY <1>1, <2>2 DEF Follow
  <2> QED BY <1>5, <2>1, <2>2 DEF SfDo
<1>6. ASSUME NEW g \in Goroutines, Share(g) PROVE WaitInv'
  <2>1. /\ UNCHANGED <<key, open>> /\ pc[g] = "share"
        /\ \A h \in Goroutines : pc'[h] = IF h \in Served(g) THEN "done" ELSE pc[h]
        /\ leader'[InstanceOf[g]][key[g]] = None
        /\ \A i \in Instances, k \in Keys :
             leader'[i][k] = leader[i][k] \/ (i = InstanceOf[g] /\ k = key[g])
    BY <1>6 DEF Share, TypeInv, TypeOK
  <2>2. /\ \A i \in Instances, k \in Keys :
             leader[i][k] # None => leader[i][k] \in Goroutines
        /\ \A h \in Goroutines : key[h] \in Keys /\ InstanceOf[h] \in Instances
    BY DEF TypeInv, TypeOK
  <2>3. ASSUME NEW h \in Goroutines, pc'[h] = "wait"
        PROVE  leader'[InstanceOf[h]][key'[h]] # None
    <3>1. pc[h] = "wait" /\ h \notin Served(g)
      BY <2>1, <2>3
    <3>2. InstanceOf[h] # InstanceOf[g] \/ key[h] # key[g]
      BY <3>1 DEF Served
    <3> QED BY <2>1, <2>2, <3>1, <3>2 DEF WaitInv
  <2>4. ASSUME NEW i \in Instances, NEW k \in Keys, leader'[i][k] # None
        PROVE  /\ InstanceOf[leader'[i][k]] = i /\ key'[leader'[i][k]] = k
               /\ pc'[leader'[i][k]] \in FlightPCs
    <3>1. leader'[i][k] = leader[i][k] /\ (i # InstanceOf[g] \/ k # key[g])
      BY <2>1, <2>4
    <3>2. /\ leader[i][k] \in Goroutines /\ InstanceOf[leader[i][k]] = i
          /\ key[leader[i][k]] = k /\ pc[leader[i][k]] \in FlightPCs
      BY <2>2, <2>4, <3>1 DEF WaitInv
    <3>3. leader[i][k] \notin Served(g)
      BY <3>1, <3>2 DEF Served
    <3> QED BY <2>1, <3>1, <3>2, <3>3
  <2> QED BY <2>1, <2>3, <2>4 DEF WaitInv
<1>7. ASSUME Expire PROVE WaitInv'
  BY <1>7, KeepWait DEF Expire, RedisExpire, L1Expire
<1>8. ASSUME NEW i \in Instances, Crash(i) PROVE WaitInv'
  <2>1. /\ UNCHANGED key
        /\ \A h \in Goroutines : InstanceOf[h] = i => pc'[h] = "idle" /\ ~open'[h]
        /\ \A h \in Goroutines : InstanceOf[h] # i => pc'[h] = pc[h] /\ open'[h] = open[h]
        /\ \A j \in Instances \ {i} : leader'[j] = leader[j]
        /\ \A k \in Keys : leader'[i][k] = None
    BY <1>8 DEF Crash, TypeInv, TypeOK
  <2>2. /\ \A j \in Instances, k \in Keys :
             leader[j][k] # None => leader[j][k] \in Goroutines
        /\ \A h \in Goroutines : key[h] \in Keys /\ InstanceOf[h] \in Instances
    BY DEF TypeInv, TypeOK
  <2> QED BY <2>1, <2>2 DEF WaitInv
<1>9. CASE UNCHANGED vars
  BY <1>9, KeepWait DEF vars
<1> QED
  BY <1>2, <1>3, <1>4, <1>4a, <1>5, <1>6, <1>7, <1>8, <1>9 DEF Next, Step, Start

(* Transactions, and the writes that wait for their locks, do not use up a *)
(* pool that is larger than the number of goroutines that write.           *)
LEMMA PoolLeavesConn == WaitInv /\ PoolSuffices => FreeConn
<1> SUFFICES ASSUME WaitInv, PoolSuffices PROVE FreeConn
  OBVIOUS
<1>1. Holders \subseteq Writers
  BY PkCacheAssumption DEF WaitInv, Holders
<1>2. IsFiniteSet(Holders) /\ Cardinality(Holders) <= Cardinality(Writers)
  BY <1>1, FS_Subset DEF PoolSuffices
<1>3. Cardinality(Holders) \in Nat /\ Cardinality(Writers) \in Nat
  BY <1>2, FS_CardinalityType DEF PoolSuffices
<1>4. Cardinality(Holders) < MaxOpenConns
  BY <1>2, <1>3 DEF PoolSuffices, PkCacheAssumption
<1> QED BY <1>4 DEF FreeConn

(* The safety half of ReadsReturn: no error, crash or late follower leaves *)
(* a flight of sf.Do (cache_get.go 85) without a leader that is running    *)
(* its function, and with a pool that suffices the leader's query has a    *)
(* connection, so the chain of waiting is one link long.                   *)
THEOREM NobodyIsStranded == Spec => []FlightsProceed
<1>1. Init => TypeInv /\ WaitInv
  BY InitTypeInv, InitWaitInv
<1>2. TypeInv /\ WaitInv /\ [Next]_vars => (TypeInv /\ WaitInv)'
  BY StepTypeInv, StepWaitInv
<1>3. TypeInv /\ WaitInv => FlightsProceed
  <2> SUFFICES ASSUME TypeInv, WaitInv, PoolSuffices,
                      NEW i \in Instances, NEW k \in AwaitedFlights(i)
               PROVE  \E h \in Goroutines :
                        /\ InstanceOf[h] = i /\ key[h] = k
                        /\ pc[h] \in FlightPCs
                        /\ pc[h] = "load" => open[h] \/ FreeConn
    BY DEF FlightsProceed
  <2>1. k \in Keys /\ leader[i][k] # None
    BY DEF AwaitedFlights, WaitInv, TypeInv, TypeOK
  <2>2. leader[i][k] \in Goroutines
    BY <2>1 DEF TypeInv, TypeOK
  <2>3. /\ InstanceOf[leader[i][k]] = i /\ key[leader[i][k]] = k
        /\ pc[leader[i][k]] \in FlightPCs
    BY <2>1 DEF WaitInv
  <2>4. FreeConn
    BY PoolLeavesConn
  <2> QED BY <2>2, <2>3, <2>4
<1> QED BY <1>1, <1>2, <1>3, PTL DEF Spec

-----------------------------------------------------------------------------
(* What a read returns *)

(* The value of a flight outside transactions was committed, and a read    *)
(* has another one only from a flight in a transaction.                    *)
DirtyInv ==
    /\ \A g \in Goroutines :
         pc[g] = "share" /\ ~open[g] => val[g] \in EverCommitted(key[g]) \cup {Failed}
    /\ DirtyReadsStayLocal

LEMMA InitDirtyInv == Init => DirtyInv
BY DEF Init, DirtyInv, DirtyReadsStayLocal

LEMMA HistoryGrows ==
  ASSUME TypeInv, [Next]_vars, NEW k \in Keys
  PROVE  EverCommitted(k) \subseteq EverCommitted(k)'
<1> USE DEF data, caches, call, txs, EverCommitted
<1>1. ASSUME NEW g \in Goroutines, NEW j \in Keys, Exec(g, j)
      PROVE  history[k] \subseteq history'[k]
  <2>1. CASE UNCHANGED history
    BY <2>1
  <2>2. CASE history' = [history EXCEPT ![j] = @ \cup {clock + 1}]
    BY <2>2 DEF TypeInv, TypeOK
  <2> QED BY <1>1, <2>1, <2>2 DEF Exec
<1>2. ASSUME NEW g \in Goroutines, Apply(g) PROVE history[k] \subseteq history'[k]
  BY <1>2 DEF Apply
<1>3. ASSUME NEW g \in Goroutines, Start(g) PROVE history[k] \subseteq history'[k]
  BY <1>1, <1>2, <1>3 DEF Start, GetByPK, HitL1, MissL1, StartGet, AwaitLock, LockEnds,
                          Skip, Update, UpdateUnacked, UpdateNoRow, Insert, Begin, Commit, CommitFails, Rollback
<1>4. ASSUME NEW g \in Goroutines, Step(g) PROVE UNCHANGED history
  BY <1>4 DEF Step, GetRedis, FillL1, SfDo, Lead, Follow, Recheck, Load, SetRedis,
              SetL1, Share, Return, DelRedis, DelL1, Take, Skip
<1>5. Expire \/ (\E i \in Instances : Crash(i)) \/ UNCHANGED vars => UNCHANGED history
  BY DEF Expire, RedisExpire, L1Expire, Crash, vars
<1> QED BY <1>3, <1>4, <1>5 DEF Next

(* A step after which every value to be returned is an old one, or was     *)
(* committed.                                                              *)
LEMMA KeepDirty ==
  ASSUME TypeInv, DirtyInv, [Next]_vars,
         \A g \in Goroutines : pc'[g] \in {"share", "done"} /\ ~open'[g] =>
           \/ pc'[g] = pc[g] /\ ~open[g] /\ val'[g] = val[g] /\ key'[g] = key[g]
           \/ val'[g] \in EverCommitted(key'[g]) \cup {Failed}
  PROVE  DirtyInv'
<1>1. \A g \in Goroutines : key[g] \in Keys /\ key'[g] \in Keys
  BY StepTypeInv DEF TypeInv, TypeOK
<1>2. \A k \in Keys : EverCommitted(k) \subseteq EverCommitted(k)'
  BY HistoryGrows
<1>3. ASSUME NEW g \in Goroutines, pc'[g] \in {"share", "done"}, ~open'[g],
             val'[g] \notin EverCommitted(key'[g]) \cup {Failed}
      PROVE  pc'[g] = pc[g] /\ ~open[g] /\ val'[g] = val[g] /\ key'[g] = key[g]
  BY <1>3
<1>4. ASSUME NEW g \in Goroutines, NEW k \in Keys, k = key'[g],
             pc'[g] = "share", ~open'[g]
      PROVE  val'[g] \in EverCommitted(k)' \cup {Failed}
  BY <1>2, <1>3, <1>4 DEF DirtyInv
<1>5. ASSUME NEW g \in Goroutines, NEW k \in Keys, k = key'[g],
             pc'[g] = "done", ~open'[g], val'[g] \notin EverCommitted(k)' \cup {Failed}
      PROVE  \E h \in TxClients \ {g} : InstanceOf[h] = InstanceOf[g]
  <2>1. val'[g] \notin EverCommitted(k) \cup {Failed}
    BY <1>2, <1>5
  <2> QED BY <1>3, <1>5, <2>1 DEF DirtyInv, DirtyReadsStayLocal
<1> QED BY <1>1, <1>4, <1>5 DEF DirtyInv, DirtyReadsStayLocal, EverCommitted

LEMMA StepDirtyInv ==
  TypeInv /\ CommittedInv /\ WaitInv /\ DirtyInv /\ [Next]_vars => DirtyInv'
<1> SUFFICES ASSUME TypeInv, CommittedInv, WaitInv, DirtyInv, [Next]_vars
             PROVE  DirtyInv'
  OBVIOUS
<1> USE DEF data, caches, call, txs, Goto
<1>0. \A g \in Goroutines :
        /\ key[g] \in Keys /\ InstanceOf[g] \in Instances
        /\ redis[key[g]] # Miss => redis[key[g]] \in EverCommitted(key[g])
  BY DEF CommittedInv, CachedWasCommitted, TypeInv, TypeOK
<1>1. ASSUME NEW g \in Goroutines, NEW k \in Keys, GetByPK(g, k) PROVE DirtyInv'
  <2>1. /\ UNCHANGED open /\ key'[g] = k /\ pc'[g] # "share"
        /\ \A h \in Goroutines \ {g} :
             pc'[h] = pc[h] /\ val'[h] = val[h] /\ key'[h] = key[h]
    BY <1>1 DEF GetByPK, HitL1, MissL1, StartGet, TypeInv, TypeOK
  <2>2. pc'[g] = "done" => val'[g] \in EverCommitted(k)
    BY <1>1 DEF GetByPK, HitL1, MissL1, StartGet, CommittedInv, CachedWasCommitted,
                TypeInv, TypeOK
  <2> QED BY <2>1, <2>2, KeepDirty
<1>2. ASSUME NEW g \in Goroutines, NEW from, NEW to, NEW x,
             \/ Skip(g, from, to) /\ to \notin {"share", "done"}
             \/ /\ Take(g, from, to, x)
                /\ to \in {"share", "done"} /\ ~open[g] =>
                     x \in EverCommitted(key[g]) \cup {Failed}
      PROVE  DirtyInv'
  <2>1. /\ UNCHANGED <<key, open>> /\ pc'[g] = to
        /\ \A h \in Goroutines \ {g} : pc'[h] = pc[h] /\ val'[h] = val[h]
        /\ to \in {"share", "done"} => val'[g] = x
    BY <1>2 DEF Skip, Take, TypeInv, TypeOK
  <2> QED BY <1>2, <2>1, KeepDirty
<1>3. ASSUME NEW g \in Goroutines, GetRedis(g) \/ Recheck(g) \/ Load(g)
      PROVE DirtyInv'
  <2>1. CASE GetRedis(g)
    BY <1>0, <1>2, <2>1 DEF GetRedis
  <2>2. CASE Recheck(g)
    BY <1>0, <1>2, <2>2 DEF Recheck
  <2>3. CASE Load(g)
    BY <1>2, <2>3 DEF Load
  <2> QED BY <1>3, <2>1, <2>2, <2>3
<1>4. ASSUME NEW g \in Goroutines, FillL1(g) \/ SetL1(g) \/ SetRedis(g) \/ SfDo(g)
      PROVE DirtyInv'
  <2>1. /\ UNCHANGED <<key, open, val>>
        /\ \A h \in Goroutines \ {g} : pc'[h] = pc[h]
    BY <1>4 DEF FillL1, SetL1, SetRedis, SfDo, Lead, Follow, Skip, TypeInv, TypeOK
  <2>2. pc'[g] \in {"share", "done"} => pc[g] \in FillPCs
    BY <1>4 DEF FillL1, SetL1, SetRedis, SfDo, Lead, Follow, Skip, FillPCs, TypeInv, TypeOK
  <2>3. pc'[g] \in {"share", "done"} => val'[g] \in EverCommitted(key'[g])
    BY <2>1, <2>2 DEF CommittedInv
  <2> QED BY <2>1, <2>3, KeepDirty
<1>5. ASSUME NEW g \in Goroutines, Share(g) PROVE DirtyInv'
  <2>1. /\ UNCHANGED <<key, open, history>> /\ pc[g] = "share"
        /\ \A h \in Served(g) : pc'[h] = "done" /\ val'[h] = val[g]
        /\ \A h \in Goroutines \ Served(g) : pc'[h] = pc[h] /\ val'[h] = val[h]
        /\ g \in Served(g) /\ Served(g) \subseteq Goroutines
    BY <1>5 DEF Share, Served
  <2>2. \A h \in Served(g) : key[h] = key[g] /\ InstanceOf[h] = InstanceOf[g]
    BY DEF Served
  <2>3. CASE open[g]
    <3>1. g \in TxClients
      BY <2>3 DEF WaitInv
    <3>2. \A h \in Served(g) : ~open[h] => g \in TxClients \ {h}
      BY <2>3, <3>1
    <3> QED BY <2>1, <2>2, <3>2 DEF DirtyInv, DirtyReadsStayLocal, EverCommitted
  <2>4. CASE ~open[g]
    <3>1. \A h \in Served(g) : val'[h] \in EverCommitted(key'[h]) \cup {Failed}
      BY <2>1, <2>2, <2>4 DEF DirtyInv
    <3> QED BY <2>1, <3>1, KeepDirty
  <2> QED BY <2>3, <2>4
<1>6. ASSUME NEW g \in Goroutines,
             \/ Return(g) \/ Begin(g) \/ Commit(g) \/ CommitFails(g) \/ Rollback(g)
             \/ DelRedis(g) \/ DelL1(g)
             \/ \E k \in Keys : \/ Update(g, k) \/ UpdateUnacked(g, k)
                                \/ UpdateNoRow(g, k) \/ Insert(g, k)
      PROVE DirtyInv'
  <2>1. /\ UNCHANGED key /\ pc'[g] \notin {"share", "done"}
        /\ \A h \in Goroutines \ {g} :
             pc'[h] = pc[h] /\ val'[h] = val[h] /\ open'[h] = open[h]
    BY <1>6 DEF Return, Begin, Commit, CommitFails, Rollback, EndTx, Update, Exec, Ready,
                UpdateUnacked, UpdateNoRow, Insert, AfterCommit, DelRedis, DelL1, TypeInv,
                TypeOK
  <2> QED BY <2>1, KeepDirty
<1>6a. ASSUME NEW g \in Goroutines, NEW k \in Keys, AwaitLock(g, k) PROVE DirtyInv'
  <2>1. /\ UNCHANGED <<val, open>> /\ pc'[g] = "lock"
        /\ \A h \in Goroutines \ {g} : pc'[h] = pc[h] /\ key'[h] = key[h]
    BY <1>6a DEF AwaitLock, TypeInv, TypeOK
  <2> QED BY <2>1, KeepDirty
<1>6b. ASSUME NEW g \in Goroutines, LockEnds(g) PROVE DirtyInv'
  BY <1>2, <1>6b DEF LockEnds
<1>7. ASSUME Expire PROVE DirtyInv'
  BY <1>7, KeepDirty DEF Expire, RedisExpire, L1Expire
<1>8. ASSUME NEW i \in Instances, Crash(i) PROVE DirtyInv'
  <2>1. /\ UNCHANGED key
        /\ \A h \in Goroutines :
             \/ pc'[h] = "idle"
             \/ pc'[h] = pc[h] /\ open'[h] = open[h] /\ val'[h] = val[h]
    BY <1>8 DEF Crash, TypeInv, TypeOK
  <2> QED BY <2>1, KeepDirty
<1>9. CASE UNCHANGED vars
  BY <1>9, KeepDirty DEF vars
<1> QED
  BY <1>1, <1>3, <1>4, <1>5, <1>6, <1>6a, <1>6b, <1>7, <1>8, <1>9 DEF Next, Step, Start

ReadsInv == TypeInv /\ CommittedInv /\ WaitInv /\ DirtyInv

LEMMA ReadsInvariant == Spec => []ReadsInv
<1>1. Init => ReadsInv
  BY InitTypeInv, InitCommittedInv, InitWaitInv, InitDirtyInv DEF ReadsInv
<1>2. ReadsInv /\ [Next]_vars => ReadsInv'
  BY StepTypeInv, StepCommittedInv, StepWaitInv, StepDirtyInv DEF ReadsInv
<1> QED BY <1>1, <1>2, PTL DEF Spec

(* The caches never carry an uncommitted row to a reader: the only way is  *)
(* a flight of sf.Do led by a transaction of the same process              *)
(* (cache_get.go 85 and 102).                                              *)
THEOREM UncommittedStaysLocal == Spec => []DirtyReadsStayLocal
<1>1. ReadsInv => DirtyReadsStayLocal
  BY DEF ReadsInv, DirtyInv
<1> QED BY <1>1, ReadsInvariant, PTL

(* What README.md 68 promises holds in processes that use GetByPK outside  *)
(* transactions only, whatever transactions the other processes have.      *)
THEOREM NoDirtyReadWithoutTx ==
  ASSUME NEW i \in Instances, \A h \in TxClients : InstanceOf[h] # i
  PROVE  Spec => [](\A g \in Goroutines :
                      InstanceOf[g] = i /\ pc[g] = "done" /\ val[g] \in Stamps
                        => val[g] \in history[key[g]])
<1> DEFINE NoDirtyReadHere ==
      \A g \in Goroutines :
        InstanceOf[g] = i /\ pc[g] = "done" /\ val[g] \in Stamps
          => val[g] \in history[key[g]]
<1>1. ReadsInv => NoDirtyReadHere
  <2> SUFFICES ASSUME ReadsInv, NEW g \in Goroutines, InstanceOf[g] = i,
                      pc[g] = "done", val[g] \in Stamps
               PROVE  val[g] \in history[key[g]]
    OBVIOUS
  <2>1. ~open[g]
    BY DEF ReadsInv, WaitInv
  <2>2. val[g] \in EverCommitted(key[g]) \cup {Failed}
    BY <2>1 DEF ReadsInv, DirtyInv, DirtyReadsStayLocal
  <2> QED BY <2>2, Values DEF EverCommitted
<1> HIDE DEF NoDirtyReadHere
<1>2. Spec => []NoDirtyReadHere
  BY <1>1, ReadsInvariant, PTL
<1> QED BY <1>2 DEF NoDirtyReadHere

-----------------------------------------------------------------------------
(* A caller that is alone *)

(* One goroutine, no faults, and not both transactions and L1.             *)
Alone(g) ==
    Goroutines = {g} /\ Faults = {} /\ (TxClients = {} \/ ~EnableL1Cache)

RowIsCurrent(g) ==
    pc[g] \in FillPCs \cup {"share", "done"} /\ val[g] \in Stamps
      => val[g] = View(g, key[g])

(* L1 has entries in g's process only, outdated ones only while g is still *)
(* to delete them.                                                         *)
L1Current(g) ==
    \A i \in Instances, k \in Keys : l1[i][k] # Miss =>
      /\ EnableL1Cache /\ i = InstanceOf[g]
      /\ l1[i][k] \in Stamps /\ l1[i][k] # db[k] => ~open[g] /\ InHooks(g, k)

AloneInv(g) ==
    /\ excused = {}
    /\ pc[g] # "wait"
    /\ L1Current(g)
    /\ RowIsCurrent(g)

LEMMA InitAloneInv == ASSUME NEW g \in Goroutines, Init PROVE AloneInv(g)
BY DEF Init, AloneInv, L1Current, RowIsCurrent, FillPCs

(* Outside its own invalidations g finds the current rows in the caches.   *)
LEMMA AloneCachesCurrent ==
  ASSUME NEW g \in Goroutines, Alone(g), TypeInv, WaitInv, ExplainInv, AloneInv(g),
         pc[g] \notin {"delRedis", "delL1"}, NEW k \in Keys
  PROVE  /\ ~open[g] /\ redis[k] \in Stamps => redis[k] = View(g, k)
         /\ l1[InstanceOf[g]][k] \in Stamps => l1[InstanceOf[g]][k] = View(g, k)
<1>1. ~open[g] => hooks[g] = <<>> /\ View(g, k) = db[k] /\ ~InHooks(g, k)
  BY DEF TypeInv, TypeOK, Control, View, InHooks
<1>2. ASSUME ~open[g], redis[k] \in Stamps PROVE redis[k] = View(g, k)
  <2>1. \A h \in Goroutines : ~PendingDel(h, k)
    BY <1>1, <1>2 DEF Alone, PendingDel, InHooks
  <2>2. ~Explained(k)
    BY <2>1 DEF Explained, AloneInv
  <2> QED BY <1>1, <1>2, <2>2 DEF ExplainInv, StaleRow
<1>3. ASSUME l1[InstanceOf[g]][k] \in Stamps PROVE l1[InstanceOf[g]][k] = View(g, k)
  <2>1. /\ EnableL1Cache
        /\ l1[InstanceOf[g]][k] # db[k] => InHooks(g, k)
    BY <1>3, Values DEF AloneInv, L1Current
  <2>2. ~open[g]
    BY <2>1 DEF Alone, WaitInv
  <2> QED BY <1>1, <2>1, <2>2
<1> QED BY <1>2, <1>3

LEMMA StepAloneInv ==
  ASSUME NEW g \in Goroutines, Alone(g), TypeInv, TypeInv', WaitInv, ExplainInv,
         AloneInv(g), [Next]_vars
  PROVE  AloneInv(g)'
<1> USE DEF data, caches, call, txs, Goto, FillPCs
<1>0. /\ \A h \in Goroutines : h = g
      /\ Faults = {} /\ key[g] \in Keys /\ InstanceOf[g] \in Instances
      /\ pc \in [Goroutines -> PCs]
  BY DEF Alone, TypeInv, TypeOK
<1>1. ASSUME UNCHANGED <<db, own, open, hooks, l1>>
      PROVE  L1Current(g)'
  BY <1>1 DEF AloneInv, L1Current, InHooks
<1>2. ASSUME NEW k \in Keys, GetByPK(g, k) PROVE AloneInv(g)'
  <2>1. /\ UNCHANGED <<db, own, open, hooks, l1, excused>> /\ pc[g] = "idle"
        /\ pc'[g] \in {"done", "sf", "redis"} /\ key'[g] = k
        /\ pc'[g] = "done" => val'[g] = l1[InstanceOf[g]][k]
    BY <1>2 DEF GetByPK, HitL1, MissL1, StartGet, TypeInv, TypeOK
  <2>2. RowIsCurrent(g)'
    BY <2>1, AloneCachesCurrent DEF RowIsCurrent, View
  <2> QED BY <1>1, <2>1, <2>2 DEF AloneInv
<1>3a. ASSUME NEW from, NEW to, Skip(g, from, to),
              to \notin FillPCs \cup {"share", "done", "wait"}
       PROVE AloneInv(g)'
  <2>1. UNCHANGED <<db, own, open, hooks, l1, excused>> /\ pc'[g] = to
    BY <1>0, <1>3a DEF Skip
  <2> QED BY <1>1, <1>3a, <2>1 DEF AloneInv, RowIsCurrent
<1>3. ASSUME NEW from, NEW to, NEW x, Take(g, from, to, x), to # "wait",
             x \in Stamps => x = View(g, key[g])
      PROVE AloneInv(g)'
  <2>1. /\ UNCHANGED <<db, own, open, hooks, l1, key, excused>> /\ pc'[g] = to
        /\ val'[g] = x
    BY <1>0, <1>3 DEF Take, TypeInv, TypeOK
  <2>2. RowIsCurrent(g)'
    BY <1>3, <2>1 DEF RowIsCurrent, View
  <2> QED BY <1>1, <1>3, <2>1, <2>2 DEF AloneInv
<1>4. CASE GetRedis(g) \/ Recheck(g)
  <2>1. pc[g] \in {"redis", "recheck"} /\ ~open[g]
    BY <1>4 DEF GetRedis, Recheck, Skip, Take, TypeInv, Control
  <2>2. redis[key[g]] \in Stamps => redis[key[g]] = View(g, key[g])
    BY <1>0, <2>1, AloneCachesCurrent
  <2>3. CASE GetRedis(g)
    <3>1. CASE Take(g, "redis", "fillL1", redis[key[g]])
      BY <1>3, <2>2, <3>1
    <3>2. CASE Skip(g, "redis", "sf")
      BY <1>3a, <3>2
    <3> QED BY <1>0, <2>3, <3>1, <3>2 DEF GetRedis
  <2>4. CASE Recheck(g)
    <3>1. CASE Take(g, "recheck", "share", redis[key[g]])
      BY <1>3, <2>2, <3>1
    <3>2. CASE Skip(g, "recheck", "load")
      BY <1>3a, <3>2
    <3> QED BY <2>4, <3>1, <3>2 DEF Recheck
  <2> QED BY <1>4, <2>3, <2>4
<1>5. CASE Load(g)
  BY <1>0, <1>3, <1>5 DEF Load
<1>6. CASE SfDo(g)
  <2>1. leader[InstanceOf[g]][key[g]] = None
    <3>1. leader[InstanceOf[g]][key[g]] \in Goroutines \cup {None}
      BY <1>0 DEF TypeInv, TypeOK
    <3>2. pc[g] = "sf"
      BY <1>6 DEF SfDo, Lead, Follow, Skip
    <3> QED BY <1>0, <3>1, <3>2 DEF WaitInv, FlightPCs
  <2>2. /\ UNCHANGED <<db, own, open, hooks, l1, key, excused>>
        /\ pc'[g] \in {"load", "recheck"}
    BY <1>0, <1>6, <2>1 DEF SfDo, Lead, Follow
  <2> QED BY <1>1, <2>2 DEF AloneInv, RowIsCurrent
<1>7. CASE SetRedis(g) \/ Share(g) \/ Return(g)
  <2>1. /\ UNCHANGED <<db, own, open, hooks, l1, key, excused>>
        /\ pc'[g] \in {"setL1", "done", "idle"}
        /\ pc'[g] # "idle" => pc[g] \in FillPCs \cup {"share"} /\ val'[g] = val[g]
    BY <1>0, <1>7 DEF SetRedis, Skip, Share, Served, Return, TypeInv, TypeOK
  <2>2. RowIsCurrent(g)'
    BY <2>1 DEF AloneInv, RowIsCurrent, View
  <2> QED BY <1>1, <2>1, <2>2 DEF AloneInv
<1>8. CASE FillL1(g) \/ SetL1(g)
  <2>1. /\ UNCHANGED <<db, own, open, hooks, key, val, excused>>
        /\ pc[g] \in {"fillL1", "setL1"} /\ pc'[g] \in {"done", "share"}
        /\ PutL1(g, key[g], val[g]) /\ ~open[g]
    BY <1>0, <1>8 DEF FillL1, SetL1, TypeInv, Control
  <2>2. val[g] \in Stamps => val[g] = db[key[g]]
    BY <1>0, <2>1 DEF AloneInv, RowIsCurrent, View, TypeInv, Control
  <2>3. CASE EnableL1Cache
    <3>1. \A i \in Instances, k \in Keys :
            \/ l1'[i][k] = l1[i][k]
            \/ i = InstanceOf[g] /\ k = key[g] /\ l1'[i][k] = val[g]
      BY <1>0, <2>1, <2>3 DEF PutL1, TypeInv, TypeOK
    <3>2. L1Current(g)'
      BY <2>1, <2>2, <2>3, <3>1 DEF AloneInv, L1Current, InHooks
    <3> QED BY <2>1, <3>2 DEF AloneInv, RowIsCurrent, View
  <2>4. CASE ~EnableL1Cache
    <3>1. l1' = l1
      BY <2>1, <2>4 DEF PutL1
    <3> QED BY <1>1, <2>1, <3>1 DEF AloneInv, RowIsCurrent, View
  <2> QED BY <2>3, <2>4
<1>9. ASSUME UNCHANGED <<l1, excused>>,
             pc'[g] \in {"idle", "delRedis", "delL1"},
             \A k \in Keys : l1[InstanceOf[g]][k] \in Stamps =>
               \/ db'[k] = db[k] /\ (~open[g] /\ InHooks(g, k) => ~open'[g] /\ InHooks(g, k)')
               \/ ~open'[g] /\ InHooks(g, k)'
      PROVE AloneInv(g)'
  <2>1. L1Current(g)'
    BY <1>9 DEF AloneInv, L1Current
  <2> QED BY <1>9, <2>1 DEF AloneInv, RowIsCurrent
<1>10. ASSUME NEW k \in Keys, Update(g, k) \/ UpdateNoRow(g, k) PROVE AloneInv(g)'
  <2>1. /\ UNCHANGED <<l1, excused, open>> /\ pc'[g] \in {"idle", "delRedis"}
        /\ hooks' = [hooks EXCEPT ![g] = Append(@, k)]
        /\ \A j \in Keys : db'[j] = db[j] \/ (j = k /\ ~open[g])
    BY <1>0, <1>10 DEF Update, UpdateNoRow, Exec, Ready, AfterCommit, TypeInv, TypeOK,
                       Control
  <2>2. InHooks(g, k)' /\ \A j \in Keys : InHooks(g, j) => InHooks(g, j)'
    BY <2>1, AppendHook DEF TypeInv
  <2> QED BY <1>9, <2>1, <2>2
<1>11. ASSUME NEW k \in Keys, Insert(g, k) PROVE AloneInv(g)'
  <2>1. /\ UNCHANGED <<l1, excused, open, hooks>> /\ pc'[g] = "idle"
        /\ pc[g] \in {"idle", "lock"}
        /\ \A j \in Keys : db'[j] = db[j] \/ (j = k /\ ~open[g])
    BY <1>11 DEF Insert, Exec, Ready, TypeInv, TypeOK
  <2>2. ~open[g] => l1[InstanceOf[g]][k] \notin Stamps
    <3>1. View(g, k) = Absent
      BY <1>11 DEF Insert
    <3> QED BY <2>1, <3>1, AloneCachesCurrent, Values
  <2> QED BY <1>9, <2>1, <2>2 DEF InHooks
<1>12. CASE Begin(g) \/ Commit(g) \/ Rollback(g)
  <2>1. /\ UNCHANGED <<l1, excused>> /\ pc'[g] \in {"idle", "delRedis"}
        /\ g \in TxClients
    BY <1>0, <1>12 DEF Begin, Commit, Rollback, EndTx, WaitInv
  <2>2. \A k \in Keys : l1[InstanceOf[g]][k] = Miss
    BY <1>0, <2>1 DEF Alone, AloneInv, L1Current
  <2> QED BY <1>9, <2>1, <2>2, Values
<1>13. CASE DelRedis(g)
  <2>1. /\ UNCHANGED <<db, own, open, hooks, l1>> /\ pc'[g] = "delL1" /\ pc[g] = "delRedis"
    BY <1>0, <1>13 DEF DelRedis
  <2>2. \A k : ~SomeStaleFill(k)
    BY <1>0, <2>1 DEF SomeStaleFill, StaleFill
  <2>3. excused' = {}
    BY <1>0, <1>13, <2>2 DEF DelRedis, AloneInv
  <2> QED BY <1>1, <2>1, <2>3 DEF AloneInv, RowIsCurrent
<1>14. CASE DelL1(g)
  <2>1. /\ UNCHANGED <<db, excused, open>> /\ pc'[g] \in {"idle", "delRedis"}
        /\ PutL1(g, Head(hooks[g]), Miss) /\ hooks'[g] = Tail(hooks[g])
        /\ hooks[g] # <<>> /\ hooks[g] \in Seq(Keys) /\ Head(hooks[g]) \in Keys
    BY <1>0, <1>14, TailOfHooks DEF DelL1, DelFromL1, TypeInv, TypeOK, Control
  <2>2. ASSUME NEW k \in Keys, k # Head(hooks[g]), InHooks(g, k) PROVE InHooks(g, k)'
    <3>1. PICK n \in 1 .. Len(hooks[g]) : hooks[g][n] = k
      BY <2>2 DEF InHooks
    <3>2. n # 1 /\ Len(hooks[g]) \in Nat
      BY <2>1, <2>2, <3>1
    <3>3. n - 1 \in 1 .. Len(Tail(hooks[g])) /\ Tail(hooks[g])[n - 1] = k
      BY <2>1, <3>1, <3>2, HeadTailProperties
    <3> QED BY <2>1, <3>3 DEF InHooks
  <2>3. \A i \in Instances, k \in Keys :
          l1'[i][k] # Miss => l1'[i][k] = l1[i][k] /\ k # Head(hooks[g])
    <3>1. CASE EnableL1Cache
      <4>1. \A i \in Instances, k \in Keys :
              l1'[i][k] = IF i = InstanceOf[g] /\ k = Head(hooks[g]) THEN Miss ELSE l1[i][k]
        BY <1>0, <2>1, <3>1 DEF PutL1, TypeInv, TypeOK
      <4> QED BY <4>1 DEF AloneInv, L1Current
    <3>2. CASE ~EnableL1Cache
      BY <2>1, <3>2 DEF PutL1, AloneInv, L1Current
    <3> QED BY <3>1, <3>2
  <2>4. L1Current(g)'
    BY <2>1, <2>2, <2>3 DEF AloneInv, L1Current
  <2> QED BY <2>1, <2>4 DEF AloneInv, RowIsCurrent
<1>15. CASE Expire
  <2>1. /\ UNCHANGED <<db, own, open, hooks, key, val, pc>> /\ excused' = {}
        /\ \A i \in Instances, k \in Keys : l1'[i][k] \in {l1[i][k], Miss}
    <3>1. CASE \E k \in Keys : RedisExpire(k)
      BY <3>1 DEF RedisExpire, AloneInv
    <3>2. CASE \E i \in Instances, k \in Keys : L1Expire(i, k)
      BY <3>2 DEF L1Expire, AloneInv, TypeInv, TypeOK
    <3> QED BY <1>15, <3>1, <3>2 DEF Expire
  <2>2. L1Current(g)'
    BY <2>1 DEF AloneInv, L1Current, InHooks
  <2> QED BY <2>1, <2>2 DEF AloneInv, RowIsCurrent, View
<1>16. CASE UNCHANGED vars
  BY <1>1, <1>16 DEF vars, AloneInv, RowIsCurrent, View
<1>17. ~CommitFails(g) /\ \A i \in Instances : ~Crash(i)
  BY <1>0 DEF CommitFails, Crash
<1>18. ASSUME NEW k \in Keys PROVE ~UpdateUnacked(g, k) /\ ~AwaitLock(g, k)
  BY <1>0 DEF UpdateUnacked, AwaitLock, RowFree
<1>19. CASE LockEnds(g)
  BY <1>3a, <1>19 DEF LockEnds
<1> QED
  <2>1. Next => \/ Step(g) \/ Start(g) \/ Expire
                \/ \E i \in Instances : Crash(i)
    BY <1>0 DEF Next
  <2> QED
    BY <2>1, <1>2, <1>4, <1>5, <1>6, <1>7, <1>8, <1>10, <1>11, <1>12, <1>13, <1>14,
       <1>15, <1>16, <1>17, <1>18, <1>19 DEF Step, Start

(* What the counterexamples need: a caller that is alone, that meets no    *)
(* failure and that does not use L1 together with transactions is given    *)
(* the current row (its own, in a transaction) whenever it is given a row, *)
(* whatever it wrote before and whichever entries have expired.  (It may   *)
(* be told that a row it has inserted does not exist: Insert leaves        *)
(* "__null__" in place.)                                                   *)
THEOREM AloneReadsCurrentRows ==
  ASSUME NEW g \in Goroutines, Alone(g)
  PROVE  Spec => [](pc[g] = "done" /\ val[g] \in Stamps => val[g] = View(g, key[g]))
<1> DEFINE Inv == TypeInv /\ CommittedInv /\ TxInv /\ ExplainInv /\ WaitInv /\ AloneInv(g)
           Goal == pc[g] = "done" /\ val[g] \in Stamps => val[g] = View(g, key[g])
<1>1. Init => Inv
  BY InitTypeInv, InitCommittedInv, InitTxInv, InitWaitInv, InitAloneInv
<1>2. Inv /\ [Next]_vars => Inv'
  BY StepTypeInv, StepCommittedInv, StepTxInv, StepExplainInv, StepWaitInv, StepAloneInv
<1>3. Inv => Goal
  BY DEF AloneInv, RowIsCurrent
<1> HIDE DEF Inv, Goal
<1>4. Spec => []Goal
  BY <1>1, <1>2, <1>3, PTL DEF Spec
<1> QED BY <1>4 DEF Goal

=============================================================================
