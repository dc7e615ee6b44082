--------------------------- MODULE ListCacheProofs ---------------------------
(***************************************************************************)
(* Theorems about ListCache for any number of goroutines and any bounds.   *)
(* A version key that is never absent (it is set before the first list is  *)
(* read, and Redis does not evict it) makes the versioned lists correct;   *)
(* the run ListColdStart shows what happens when it is absent at first.    *)
(***************************************************************************)
EXTENDS ListCache, TLAPS

TypeInv ==
    /\ TypeOK
    /\ \A g \in Goroutines : pc[g] = "incr" => todo[g] > 0

Warm == InitialVersion > 0 /\ "evict" \notin Faults

USE ListCacheAssumption

LEMMA NothingIsEntry == Nothing \in Entries
BY DEF Nothing, Entries, Stamps

LEMMA InitTypeInv == Init => TypeInv
<1> SUFFICES ASSUME Init PROVE TypeInv
  OBVIOUS
<1>1. DOMAIN lists = {}
  BY DEF Init
<1>2. res \in [Goroutines -> Entries]
  BY NothingIsEntry DEF Init
<1>3. /\ table \in Stamps /\ ver \in Nat /\ pc \in [Goroutines -> PCs]
      /\ v \in [Goroutines -> Nat] /\ floor \in [Goroutines -> Stamps]
      /\ todo \in [Goroutines -> Nat]
  BY DEF Init, PCs, Stamps
<1>4. missed \in BOOLEAN /\ \A g \in Goroutines : pc[g] # "incr"
  BY DEF Init
<1> QED BY <1>1, <1>2, <1>3, <1>4 DEF TypeInv, TypeOK

-----------------------------------------------------------------------------
(* Types *)

LEMMA ForgetType ==
  ASSUME TypeOK, NEW g \in Goroutines, Forget(g)
  PROVE  /\ v' \in [Goroutines -> Nat]
         /\ res' \in [Goroutines -> Entries]
         /\ floor' \in [Goroutines -> Stamps]
BY NothingIsEntry DEF TypeOK, Forget, Stamps

LEMMA PutType ==
  ASSUME TypeOK, NEW w \in Nat, NEW e \in Entries, Put(w, e)
  PROVE  DOMAIN lists' \subseteq Nat /\ \A x \in DOMAIN lists' : lists'[x] \in Entries
BY DEF TypeOK, Put

LEMMA StepTypeInv == TypeInv /\ [Next]_vars => TypeInv'
<1> SUFFICES ASSUME TypeInv, [Next]_vars PROVE TypeInv'
  OBVIOUS
<1> USE DEF TypeInv, Goto, reader, PCs
<1>1. ASSUME NEW g \in Goroutines, GetList(g) PROVE TypeInv'
  BY <1>1 DEF GetList, TypeOK, Stamps
<1>2. ASSUME NEW g \in Goroutines, ReadVersion(g) PROVE TypeInv'
  BY <1>2 DEF ReadVersion, TypeOK
<1>3. ASSUME NEW g \in Goroutines, InitVersion(g) PROVE TypeInv'
  BY <1>3 DEF InitVersion, TypeOK
<1>4. ASSUME NEW g \in Goroutines, GetEntry(g) PROVE TypeInv'
  BY <1>4 DEF GetEntry, TypeOK
<1>5. ASSUME NEW g \in Goroutines, QueryFails(g) PROVE TypeInv'
  BY <1>5, ForgetType DEF QueryFails, TypeOK
<1>6. ASSUME NEW g \in Goroutines, Count(g) PROVE TypeInv'
  BY <1>6 DEF Count, TypeOK, Entries
<1>7. ASSUME NEW g \in Goroutines, SelectPKs(g) PROVE TypeInv'
  <2>1. res' \in [Goroutines -> Entries]
    BY <1>7 DEF SelectPKs, TypeOK, Entries
  <2> QED BY <1>7, <2>1 DEF SelectPKs, TypeOK
<1>8. ASSUME NEW g \in Goroutines, SetEntry(g) PROVE TypeInv'
  <2>1. DOMAIN lists' \subseteq Nat /\ \A x \in DOMAIN lists' : lists'[x] \in Entries
    <3>1. CASE Put(v[g], res[g])
      BY <3>1, PutType DEF TypeOK
    <3>2. CASE UNCHANGED lists
      BY <3>2 DEF TypeOK
    <3> QED BY <1>8, <3>1, <3>2 DEF SetEntry
  <2> QED BY <1>8, <2>1 DEF SetEntry, TypeOK
<1>9. ASSUME NEW g \in Goroutines, Return(g) PROVE TypeInv'
  BY <1>9, ForgetType DEF Return, TypeOK
<1>10. ASSUME NEW g \in Goroutines, Commit(g) PROVE TypeInv'
  <2>1. PICK n \in 1 .. MaxHooks : todo' = [todo EXCEPT ![g] = n]
    BY <1>10 DEF Commit
  <2> QED BY <1>10, <2>1 DEF Commit, TypeOK, Stamps
<1>11. ASSUME NEW g \in Goroutines, CommitUnacked(g) PROVE TypeInv'
  BY <1>11 DEF CommitUnacked, TypeOK, Stamps
<1>12. ASSUME NEW g \in Goroutines, Incr(g) PROVE TypeInv'
  <2>1. /\ todo[g] \in Nat /\ todo[g] > 0 /\ todo' = [todo EXCEPT ![g] = todo[g] - 1]
        /\ \A h \in Goroutines \ {g} : pc'[h] = pc[h]
        /\ pc' \in [Goroutines -> PCs]
        /\ pc'[g] = "incr" => todo[g] # 1
    BY <1>12 DEF Incr, TypeOK
  <2>2. ver' \in Nat /\ UNCHANGED <<table, lists, reader>>
    BY <1>12 DEF Incr, TypeOK
  <2>3. missed' \in BOOLEAN
    BY <1>12, Zenon DEF Incr
  <2>4. todo' \in [Goroutines -> Nat] /\ \A h \in Goroutines : pc'[h] = "incr" => todo'[h] > 0
    BY <2>1 DEF TypeOK
  <2> QED BY <2>1, <2>2, <2>3, <2>4 DEF TypeOK
<1>13. ASSUME NEW w \in DOMAIN lists, EntryExpire(w) PROVE TypeInv'
  BY <1>13 DEF EntryExpire, TypeOK
<1>14. CASE VersionEvicted
  BY <1>14 DEF VersionEvicted, TypeOK
<1>15. ASSUME NEW g \in Goroutines, Crash(g) PROVE TypeInv'
  BY <1>15, ForgetType DEF Crash, TypeOK
<1>16. CASE UNCHANGED vars
  BY <1>16 DEF vars, TypeOK
<1> QED
  BY <1>1, <1>2, <1>3, <1>4, <1>5, <1>6, <1>7, <1>8, <1>9, <1>10, <1>11, <1>12,
     <1>13, <1>14, <1>15, <1>16
  DEF Next, Step, Start

(* Every variable keeps its type, and a hook that runs is one that is left *)
(* to run.                                                                 *)
THEOREM TypeCorrect == Spec => []TypeOK
<1>1. TypeInv => TypeOK
  BY DEF TypeInv
<1> QED BY InitTypeInv, StepTypeInv, <1>1, PTL DEF Spec

-----------------------------------------------------------------------------
(* Versions *)

(* No entry and no call is ahead of the version, which is never absent.    *)
VersionInv ==
    /\ ver > 0
    /\ \A w \in DOMAIN lists : w <= ver
    /\ \A g \in Goroutines : v[g] <= ver /\ pc[g] # "init"

LEMMA InitVersionInv == InitialVersion > 0 /\ Init => VersionInv
<1> SUFFICES ASSUME InitialVersion > 0, Init PROVE VersionInv
  OBVIOUS
<1>1. DOMAIN lists = {}
  BY DEF Init
<1> QED BY <1>1 DEF Init, VersionInv

LEMMA StepVersionInv ==
  "evict" \notin Faults /\ TypeInv /\ VersionInv /\ [Next]_vars => VersionInv'
<1> SUFFICES ASSUME "evict" \notin Faults, TypeInv, VersionInv, [Next]_vars
             PROVE  VersionInv'
  OBVIOUS
<1> USE DEF TypeInv, TypeOK, Goto, reader
<1>1. ASSUME NEW g \in Goroutines, ReadVersion(g) PROVE VersionInv'
  <2>1. UNCHANGED <<ver, lists>> /\ \A h \in Goroutines \ {g} : v'[h] = v[h] /\ pc'[h] = pc[h]
    BY <1>1 DEF ReadVersion
  <2>2. v'[g] <= ver /\ pc'[g] # "init"
    BY <1>1 DEF ReadVersion, VersionInv
  <2> QED BY <2>1, <2>2 DEF VersionInv
<1>2. ASSUME NEW g \in Goroutines, SetEntry(g) PROVE VersionInv'
  <2>1. DOMAIN lists' \subseteq DOMAIN lists \cup {v[g]}
    BY <1>2 DEF SetEntry, Put
  <2>2. UNCHANGED <<ver, v>> /\ \A h \in Goroutines : pc'[h] # "init"
    BY <1>2 DEF SetEntry, VersionInv
  <2> QED BY <2>1, <2>2 DEF VersionInv
<1>3. ASSUME NEW g \in Goroutines,
             \/ GetList(g) \/ GetEntry(g) \/ QueryFails(g) \/ Count(g) \/ SelectPKs(g)
             \/ Return(g) \/ Commit(g) \/ CommitUnacked(g) \/ Incr(g) \/ Crash(g)
      PROVE  VersionInv'
  <2>1. UNCHANGED lists /\ ver' \in {ver, ver + 1}
    BY <1>3 DEF GetList, GetEntry, QueryFails, Count, SelectPKs, Return, Commit,
                CommitUnacked, Incr, Crash
  <2>2. \A h \in Goroutines : v'[h] \in {v[h], 0}
    BY <1>3 DEF GetList, GetEntry, QueryFails, Count, SelectPKs, Return, Commit,
                CommitUnacked, Incr, Crash, Forget
  <2>3. \A h \in Goroutines : pc'[h] # "init"
    BY <1>3 DEF GetList, GetEntry, QueryFails, Count, SelectPKs, Return, Commit,
                CommitUnacked, Incr, Crash, VersionInv
  <2> QED BY <2>1, <2>2, <2>3 DEF VersionInv
<1>4. ASSUME NEW w \in DOMAIN lists, EntryExpire(w) PROVE VersionInv'
  BY <1>4 DEF EntryExpire, VersionInv
<1>5. CASE UNCHANGED vars
  BY <1>5 DEF vars, VersionInv
<1> QED
  BY <1>1, <1>2, <1>3, <1>4, <1>5
  DEF Next, Step, Start, VersionInv, InitVersion, VersionEvicted

-----------------------------------------------------------------------------
(* What is stored under a version *)

(* The entry of version w, and the calls that may store one there, have    *)
(* read nothing older than f.                                              *)
AtLeast(w, f) ==
    /\ w \in DOMAIN lists => lists[w].total >= f /\ lists[w].pks >= f
    /\ \A g \in Goroutines : v[g] = w =>
         /\ pc[g] \in {"pks", "set"} => res[g].total >= f
         /\ pc[g] = "set" => res[g].pks >= f

(* A version keeps what it has: queries read the table as it is now.       *)
LEMMA AtLeastStable ==
  ASSUME TypeInv, NEW w, NEW f \in Nat, f <= table, AtLeast(w, f), [Next]_vars
  PROVE  AtLeast(w, f)'
<1> USE DEF TypeInv, TypeOK, Goto, reader, Entries, Stamps
<1>1. ASSUME NEW g \in Goroutines, Count(g) PROVE AtLeast(w, f)'
  <2>1. /\ UNCHANGED <<lists, v>>
        /\ \A h \in Goroutines \ {g} : pc'[h] = pc[h] /\ res'[h] = res[h]
        /\ res'[g] = [total |-> table, pks |-> table]
    BY <1>1 DEF Count
  <2> QED BY <2>1 DEF AtLeast
<1>2. ASSUME NEW g \in Goroutines, SelectPKs(g) PROVE AtLeast(w, f)'
  <2>1. /\ UNCHANGED <<lists, v>> /\ pc[g] = "pks"
        /\ \A h \in Goroutines \ {g} : pc'[h] = pc[h] /\ res'[h] = res[h]
        /\ res'[g].total = res[g].total /\ res'[g].pks = table
    BY <1>2 DEF SelectPKs
  <2> QED BY <2>1 DEF AtLeast
<1>3. ASSUME NEW g \in Goroutines, SetEntry(g) PROVE AtLeast(w, f)'
  <2>1. /\ UNCHANGED <<v, res>> /\ pc[g] = "set"
        /\ \A h \in Goroutines : pc'[h] \in {pc[h], "done"}
    BY <1>3 DEF SetEntry
  <2>2. \A x \in DOMAIN lists' :
          \/ x \in DOMAIN lists /\ lists'[x] = lists[x]
          \/ x = v[g] /\ lists'[x] = res[g]
    <3>1. CASE Put(v[g], res[g])
      BY <3>1 DEF Put
    <3>2. CASE UNCHANGED lists
      BY <3>2
    <3> QED BY <1>3, <3>1, <3>2 DEF SetEntry
  <2> QED BY <2>1, <2>2 DEF AtLeast
<1>4. ASSUME NEW g \in Goroutines,
             \/ GetList(g) \/ ReadVersion(g) \/ InitVersion(g) \/ GetEntry(g)
             \/ QueryFails(g) \/ Return(g) \/ Commit(g) \/ CommitUnacked(g) \/ Incr(g)
             \/ Crash(g)
      PROVE AtLeast(w, f)'
  <2>1. UNCHANGED lists
    BY <1>4 DEF GetList, ReadVersion, InitVersion, GetEntry, QueryFails, Return,
                Commit, CommitUnacked, Incr, Crash
  <2>2. \A h \in Goroutines :
          pc'[h] \in {"pks", "set"} => pc'[h] = pc[h] /\ h # g
    BY <1>4 DEF GetList, ReadVersion, InitVersion, GetEntry, QueryFails, Return,
                Commit, CommitUnacked, Incr, Crash
  <2>3. \A h \in Goroutines \ {g} : v'[h] = v[h] /\ res'[h] = res[h]
    BY <1>4 DEF GetList, ReadVersion, InitVersion, GetEntry, QueryFails, Return,
                Commit, CommitUnacked, Incr, Crash, Forget
  <2> QED BY <2>1, <2>2, <2>3 DEF AtLeast
<1>5. ASSUME NEW x \in DOMAIN lists, EntryExpire(x) PROVE AtLeast(w, f)'
  BY <1>5 DEF EntryExpire, AtLeast
<1>6. CASE VersionEvicted
  BY <1>6 DEF VersionEvicted, AtLeast
<1>7. CASE UNCHANGED vars
  BY <1>7 DEF vars, AtLeast
<1> QED
  BY <1>1, <1>2, <1>3, <1>4, <1>5, <1>6, <1>7 DEF Next, Step, Start

(* Nothing has ever been stored under a version that is yet to come.       *)
LEMMA NewVersion ==
  ASSUME TypeInv, VersionInv, NEW f, NEW g \in Goroutines, Incr(g), ver' = ver + 1
  PROVE  AtLeast(ver, f)'
<1>1. UNCHANGED <<lists, v>>
  BY DEF Incr, reader
<1> QED BY <1>1 DEF AtLeast, VersionInv, TypeInv, TypeOK

(* An increment makes the cache quiet; nothing else does.                  *)
LEMMA QuietStep ==
  ASSUME TypeInv, VersionInv, "evict" \notin Faults, [Next]_vars, Quiet'
  PROVE  \/ Quiet /\ UNCHANGED <<table, ver>>
         \/ \E g \in Goroutines : Incr(g) /\ ver' = ver + 1
<1> USE DEF TypeInv, TypeOK, Goto, reader
<1>1. ASSUME NEW g \in Goroutines, Incr(g) PROVE ver' = ver + 1
  BY <1>1 DEF Incr, Quiet
<1>2. ASSUME NEW g \in Goroutines, Commit(g) PROVE FALSE
  <2>1. PICK n \in 1 .. MaxHooks : todo' = [todo EXCEPT ![g] = n]
    BY <1>2 DEF Commit
  <2> QED BY <2>1 DEF Quiet
<1>3. ASSUME NEW g \in Goroutines, CommitUnacked(g) PROVE FALSE
  BY <1>3 DEF CommitUnacked, Quiet
<1>4. ASSUME NEW g \in Goroutines, Crash(g) PROVE Quiet /\ UNCHANGED <<table, ver>>
  <2>1. ~missed /\ ~(todo[g] > 0)
    BY <1>4, Zenon DEF Crash, Quiet
  <2>2. UNCHANGED <<table, ver>> /\ \A h \in Goroutines \ {g} : todo'[h] = todo[h]
    BY <1>4 DEF Crash
  <2> QED BY <2>1, <2>2 DEF Quiet
<1>5. ASSUME NEW g \in Goroutines,
             \/ GetList(g) \/ ReadVersion(g) \/ GetEntry(g) \/ QueryFails(g)
             \/ Count(g) \/ SelectPKs(g) \/ SetEntry(g) \/ Return(g)
      PROVE  UNCHANGED <<table, ver, todo, missed>>
  BY <1>5 DEF GetList, ReadVersion, GetEntry, QueryFails, Count, SelectPKs, SetEntry,
              Return
<1>6. ASSUME NEW g \in Goroutines PROVE ~InitVersion(g)
  BY <1>6 DEF InitVersion, VersionInv
<1>7. ASSUME NEW w \in DOMAIN lists, EntryExpire(w)
      PROVE  UNCHANGED <<table, ver, todo, missed>>
  BY <1>7 DEF EntryExpire
<1>8. ~VersionEvicted
  BY DEF VersionEvicted
<1>9. CASE UNCHANGED <<table, ver, todo, missed>>
  BY <1>9 DEF Quiet
<1> QED
  BY <1>1, <1>2, <1>3, <1>4, <1>5, <1>6, <1>7, <1>8, <1>9
  DEF Next, Step, Start, vars

-----------------------------------------------------------------------------
(* Freshness *)

(* Nothing read is ahead of the table, and when every write has been       *)
(* followed by an increment the current version has nothing behind it.     *)
FreshInv ==
    /\ \A w \in DOMAIN lists : lists[w].total <= table /\ lists[w].pks <= table
    /\ \A g \in Goroutines : res[g].total <= table /\ res[g].pks <= table
    /\ Quiet => AtLeast(ver, table)

LEMMA InitFreshInv == Init => FreshInv
<1> SUFFICES ASSUME Init PROVE FreshInv
  OBVIOUS
<1>1. DOMAIN lists = {} /\ \A g \in Goroutines : pc[g] = "idle"
  BY DEF Init
<1>2. table = 0 /\ \A g \in Goroutines : res[g].total = 0 /\ res[g].pks = 0
  BY DEF Init, Nothing
<1> QED BY <1>1, <1>2 DEF FreshInv, AtLeast

LEMMA StepNotAhead ==
  ASSUME TypeInv, FreshInv, [Next]_vars
  PROVE  /\ table <= table'
         /\ \A w \in DOMAIN lists' : lists'[w].total <= table' /\ lists'[w].pks <= table'
         /\ \A g \in Goroutines : res'[g].total <= table' /\ res'[g].pks <= table'
<1> DEFINE Goal ==
      /\ table <= table'
      /\ \A w \in DOMAIN lists' : lists'[w].total <= table' /\ lists'[w].pks <= table'
      /\ \A g \in Goroutines : res'[g].total <= table' /\ res'[g].pks <= table'
<1> USE DEF TypeInv, TypeOK, Goto, reader, Entries, Stamps, FreshInv
<1>1. ASSUME NEW g \in Goroutines, Commit(g) \/ CommitUnacked(g) PROVE Goal
  <2>1. UNCHANGED <<lists, res>> /\ table' = table + 1
    BY <1>1 DEF Commit, CommitUnacked
  <2> QED BY <2>1
<1>2. ASSUME NEW g \in Goroutines, SetEntry(g) PROVE Goal
  <2>1. UNCHANGED <<table, res>>
    BY <1>2 DEF SetEntry
  <2>2. CASE Put(v[g], res[g])
    BY <2>1, <2>2 DEF Put
  <2>3. CASE UNCHANGED lists
    BY <2>1, <2>3
  <2> QED BY <1>2, <2>2, <2>3 DEF SetEntry
<1>3. ASSUME NEW g \in Goroutines, Count(g) \/ SelectPKs(g) \/ GetEntry(g) PROVE Goal
  <2>1. UNCHANGED <<table, lists>>
    BY <1>3 DEF Count, SelectPKs, GetEntry
  <2>2. CASE Count(g)
    <3>1. \A h \in Goroutines :
            res'[h] = res[h] \/ res'[h] = [total |-> table, pks |-> table]
      BY <2>2 DEF Count
    <3> QED BY <2>1, <3>1
  <2>3. CASE SelectPKs(g)
    <3>1. \A h \in Goroutines :
            res'[h].total = res[h].total /\ res'[h].pks \in {res[h].pks, table}
      BY <2>3 DEF SelectPKs
    <3> QED BY <2>1, <3>1
  <2>4. CASE GetEntry(g)
    <3>1. \A h \in Goroutines :
            \/ res'[h] = res[h]
            \/ v[g] \in DOMAIN lists /\ res'[h] = lists[v[g]]
      BY <2>4 DEF GetEntry
    <3> QED BY <2>1, <3>1
  <2> QED BY <1>3, <2>2, <2>3, <2>4
<1>4. ASSUME NEW g \in Goroutines,
             \/ GetList(g) \/ ReadVersion(g) \/ InitVersion(g) \/ QueryFails(g)
             \/ Return(g) \/ Incr(g) \/ Crash(g)
      PROVE  Goal
  <2>1. UNCHANGED <<table, lists>>
    BY <1>4 DEF GetList, ReadVersion, InitVersion, QueryFails, Return, Incr, Crash
  <2>2. \A h \in Goroutines : res'[h] = res[h] \/ res'[h] = Nothing
    BY <1>4 DEF GetList, ReadVersion, InitVersion, QueryFails, Return, Incr, Crash,
                Forget
  <2> QED BY <2>1, <2>2 DEF Nothing
<1>5. ASSUME NEW w \in DOMAIN lists, EntryExpire(w) PROVE Goal
  BY <1>5 DEF EntryExpire
<1>6. CASE VersionEvicted \/ UNCHANGED vars
  BY <1>6 DEF VersionEvicted, vars
<1> QED BY <1>1, <1>2, <1>3, <1>4, <1>5, <1>6 DEF Next, Step, Start

LEMMA StepFreshInv ==
  "evict" \notin Faults /\ TypeInv /\ VersionInv /\ FreshInv /\ [Next]_vars => FreshInv'
<1> SUFFICES ASSUME "evict" \notin Faults, TypeInv, VersionInv, FreshInv, [Next]_vars
             PROVE  FreshInv'
  OBVIOUS
<1>1. ASSUME Quiet' PROVE AtLeast(ver, table)'
  <2>1. CASE Quiet /\ UNCHANGED <<table, ver>>
    <3>1. AtLeast(ver, table) /\ table \in Nat /\ ver \in Nat
      BY <2>1 DEF FreshInv, TypeInv, TypeOK, Stamps
    <3>2. PICK w, f \in Nat : w = ver /\ f = table
      BY <3>1
    <3>3. AtLeast(w, f)'
      BY <3>1, <3>2, AtLeastStable
    <3> QED BY <2>1, <3>2, <3>3
  <2>2. ASSUME NEW g \in Goroutines, Incr(g), ver' = ver + 1 PROVE AtLeast(ver, table)'
    <3>1. PICK f : f = table'
      OBVIOUS
    <3>2. AtLeast(ver, f)'
      BY <2>2, NewVersion
    <3> QED BY <3>1, <3>2 DEF AtLeast
  <2> QED BY <1>1, <2>1, <2>2, QuietStep
<1> QED BY <1>1, StepNotAhead DEF FreshInv

(* When the version key is there from the start and never evicted, a list  *)
(* cached under the current version is the table's, once every committed   *)
(* write has been followed by an increment - even if increments of other   *)
(* writes fail, hooks are lost in a crash, queries fail, entries expire.   *)
THEOREM CurrentListIsFresh == Warm => (Spec => []ListFresh)
<1> DEFINE Inv == TypeInv /\ VersionInv /\ FreshInv
<1>1. Warm /\ Init => Inv
  BY InitTypeInv, InitVersionInv, InitFreshInv DEF Warm
<1>2. Warm /\ Inv /\ [Next]_vars => Inv'
  BY StepTypeInv, StepVersionInv, StepFreshInv DEF Warm
<1>3. Inv => ListFresh
  <2> SUFFICES ASSUME Inv, Quiet, ver \in DOMAIN lists
               PROVE  lists[ver] = [total |-> table, pks |-> table]
    BY DEF ListFresh
  <2>1. lists[ver] \in Entries /\ table \in Stamps
    BY DEF TypeInv, TypeOK
  <2>2. lists[ver].total = table /\ lists[ver].pks = table
    BY <2>1 DEF FreshInv, AtLeast, Entries, Stamps
  <2> QED BY <2>1, <2>2 DEF Entries
<1> SUFFICES ASSUME Warm PROVE Spec => []ListFresh
  OBVIOUS
<1>4. Init => Inv
  BY <1>1
<1>5. Inv /\ [Next]_vars => Inv'
  BY <1>2
<1> HIDE DEF Inv
<1> QED BY <1>3, <1>4, <1>5, PTL DEF Spec

(* A call that has read the version, or is about to, finds nothing there   *)
(* that is older than its floor, and has read nothing older.               *)
AboveFloor(g) ==
    /\ floor[g] <= table
    /\ pc[g] = "version" => AtLeast(ver, floor[g])
    /\ pc[g] = "get" => AtLeast(v[g], floor[g])
    /\ pc[g] \in {"pks", "set", "done"} => res[g].total >= floor[g]
    /\ pc[g] \in {"set", "done"} => res[g].pks >= floor[g]

FloorInv == \A g \in Goroutines : AboveFloor(g)

LEMMA InitFloorInv == Init => FloorInv
BY DEF Init, FloorInv, AboveFloor

(* A step keeps what is known of a call that does not take it.             *)
LEMMA OthersFloor ==
  ASSUME "evict" \notin Faults, TypeInv, VersionInv, FreshInv, FloorInv, [Next]_vars,
         NEW g \in Goroutines,
         pc'[g] = pc[g], v'[g] = v[g], res'[g] = res[g], floor'[g] = floor[g]
  PROVE  AboveFloor(g)'
<1>1. table <= table' /\ table \in Nat /\ table' \in Nat
  BY StepTypeInv, StepNotAhead DEF TypeInv, TypeOK, Stamps
<1>2. PICK f \in Nat : f = floor[g]
  BY DEF TypeInv, TypeOK, Stamps
<1>3. f <= table
  BY <1>2 DEF FloorInv, AboveFloor
<1>4. PICK u : u = v[g]
  OBVIOUS
<1>5. PICK w : w = ver
  OBVIOUS
<1>6. pc[g] = "get" => AtLeast(u, f)'
  BY <1>2, <1>3, <1>4, AtLeastStable DEF FloorInv, AboveFloor
<1>7. pc[g] = "version" => AtLeast(w, f)'
  BY <1>2, <1>3, <1>5, AtLeastStable DEF FloorInv, AboveFloor
<1>8. ASSUME pc[g] = "version" PROVE AtLeast(ver, f)'
  <2>1. CASE UNCHANGED ver
    BY <1>5, <1>7, <1>8, <2>1
  <2>2. ASSUME NEW h \in Goroutines, Incr(h), ver' = ver + 1 PROVE AtLeast(ver, f)'
    BY <2>2, NewVersion
  <2>3. UNCHANGED ver \/ \E h \in Goroutines : Incr(h) /\ ver' = ver + 1
    BY DEF Next, Step, Start, vars, GetList, ReadVersion, InitVersion, GetEntry,
           QueryFails, Count, SelectPKs, SetEntry, Return, Commit, CommitUnacked, Incr,
           EntryExpire, VersionEvicted, Crash, VersionInv, Goto
  <2> QED BY <2>1, <2>2, <2>3
<1>9. floor'[g] = f /\ v'[g] = u
  BY <1>2, <1>4
<1>10. /\ pc'[g] = "version" => AtLeast(ver, floor[g])'
       /\ pc'[g] = "get" => AtLeast(v[g], floor[g])'
  BY <1>6, <1>8, <1>9 DEF AtLeast
<1>11. floor'[g] <= table'
  BY <1>1, <1>3, <1>9
<1>12. /\ pc'[g] \in {"pks", "set", "done"} => res'[g].total >= floor'[g]
       /\ pc'[g] \in {"set", "done"} => res'[g].pks >= floor'[g]
  BY DEF FloorInv, AboveFloor
<1> QED BY <1>10, <1>11, <1>12 DEF AboveFloor

LEMMA StepFloorInv ==
  "evict" \notin Faults /\ "redis" \notin Faults /\ TypeInv /\ VersionInv /\ FreshInv
    /\ FloorInv /\ [Next]_vars => FloorInv'
<1> SUFFICES ASSUME "evict" \notin Faults, "redis" \notin Faults, TypeInv, VersionInv,
                    FreshInv, FloorInv, [Next]_vars, NEW h \in Goroutines
             PROVE  AboveFloor(h)'
  BY DEF FloorInv
<1> USE DEF TypeInv, TypeOK, Goto, reader, Stamps
<1>0. AboveFloor(h) /\ table <= table' /\ table' \in Nat
  BY StepNotAhead, StepTypeInv DEF FloorInv
<1>1. CASE pc'[h] = pc[h] /\ v'[h] = v[h] /\ res'[h] = res[h] /\ floor'[h] = floor[h]
  BY <1>1, OthersFloor
<1>2. CASE GetList(h)
  <2>1. /\ UNCHANGED <<table, ver, lists, v, res>> /\ pc'[h] = "version"
        /\ \A g \in Goroutines \ {h} : pc'[g] = pc[g]
        /\ \/ Quiet /\ floor'[h] = table
           \/ floor'[h] = 0
    BY <1>2 DEF GetList
  <2>2. AtLeast(ver, 0)
    BY DEF AtLeast, Entries
  <2>3. AtLeast(ver, floor'[h])
    BY <2>1, <2>2 DEF FreshInv
  <2>4. AtLeast(ver, floor[h])'
    BY <2>1, <2>3 DEF AtLeast
  <2> QED BY <2>1, <2>4 DEF AboveFloor
<1>3. CASE ReadVersion(h)
  <2>1. /\ UNCHANGED <<table, ver, lists, res, floor>> /\ pc[h] = "version"
        /\ pc'[h] = "get" /\ v'[h] = ver
        /\ \A g \in Goroutines \ {h} : pc'[g] = pc[g] /\ v'[g] = v[g]
    BY <1>3 DEF ReadVersion, VersionInv
  <2>2. AtLeast(ver, floor[h])
    BY <1>0, <2>1 DEF AboveFloor
  <2>3. AtLeast(v[h], floor[h])'
    BY <2>1, <2>2 DEF AtLeast
  <2> QED BY <1>0, <2>1, <2>3 DEF AboveFloor
<1>4. CASE GetEntry(h)
  <2>1. /\ UNCHANGED <<table, floor>> /\ pc[h] = "get"
        /\ \/ pc'[h] = "count"
           \/ pc'[h] = "done" /\ v[h] \in DOMAIN lists /\ res'[h] = lists[v[h]]
    BY <1>4 DEF GetEntry
  <2>2. AtLeast(v[h], floor[h])
    BY <1>0, <2>1 DEF AboveFloor
  <2> QED BY <1>0, <2>1, <2>2 DEF AboveFloor, AtLeast
<1>5. CASE Count(h)
  <2>1. /\ UNCHANGED <<table, floor>> /\ pc'[h] \in {"pks", "done"}
        /\ res'[h] = [total |-> table, pks |-> table]
    BY <1>5 DEF Count
  <2> QED BY <1>0, <2>1 DEF AboveFloor
<1>6. CASE SelectPKs(h)
  <2>1. /\ UNCHANGED <<table, floor>> /\ pc[h] = "pks" /\ pc'[h] \in {"set", "done"}
        /\ res'[h].total = res[h].total /\ res'[h].pks = table
    BY <1>6 DEF SelectPKs, Entries
  <2> QED BY <1>0, <2>1 DEF AboveFloor
<1>7. CASE SetEntry(h)
  <2>1. UNCHANGED <<table, floor, res>> /\ pc[h] = "set" /\ pc'[h] = "done"
    BY <1>7 DEF SetEntry
  <2> QED BY <1>0, <2>1 DEF AboveFloor
<1>8. CASE QueryFails(h) \/ Return(h) \/ Crash(h)
  <2>1. pc'[h] = "idle" /\ floor'[h] = 0
    BY <1>8 DEF QueryFails, Return, Crash, Forget
  <2> QED BY <1>0, <2>1 DEF AboveFloor
<1>9. CASE Commit(h) \/ CommitUnacked(h) \/ Incr(h)
  <2>1. UNCHANGED floor /\ pc'[h] \in {"idle", "incr"}
    BY <1>9 DEF Commit, CommitUnacked, Incr
  <2> QED BY <1>0, <2>1 DEF AboveFloor
<1>10. ASSUME NEW g \in Goroutines \ {h}, Step(g) \/ Start(g) \/ Crash(g)
       PROVE  pc'[h] = pc[h] /\ v'[h] = v[h] /\ res'[h] = res[h] /\ floor'[h] = floor[h]
  BY <1>10 DEF Step, Start, GetList, ReadVersion, InitVersion, GetEntry, QueryFails,
               Count, SelectPKs, SetEntry, Return, Commit, CommitUnacked, Incr, Crash,
               Forget
<1>11. ASSUME (\E w \in DOMAIN lists : EntryExpire(w)) \/ VersionEvicted \/ UNCHANGED vars
       PROVE  pc'[h] = pc[h] /\ v'[h] = v[h] /\ res'[h] = res[h] /\ floor'[h] = floor[h]
  BY <1>11 DEF EntryExpire, VersionEvicted, vars
<1>12. ~InitVersion(h)
  BY DEF InitVersion, VersionInv
<1> QED
  BY <1>1, <1>2, <1>3, <1>4, <1>5, <1>6, <1>7, <1>8, <1>9, <1>10, <1>11, <1>12
  DEF Next, Step, Start

(* ... and then a GetList that begins after the increments of all writes   *)
(* returns nothing older than the table was at that moment.                *)
THEOREM ListReadsAreFresh == Warm => (Spec => []ListReadsFresh)
<1> SUFFICES ASSUME Warm PROVE Spec => []ListReadsFresh
  OBVIOUS
<1>1. CASE "redis" \in Faults
  <2>1. ListReadsFresh
    BY <1>1 DEF ListReadsFresh
  <2> QED BY <2>1, PTL
<1>2. CASE "redis" \notin Faults
  <2> DEFINE Inv == TypeInv /\ VersionInv /\ FreshInv /\ FloorInv
  <2>1. Init => Inv
    BY InitTypeInv, InitVersionInv, InitFreshInv, InitFloorInv DEF Warm
  <2>2. Inv /\ [Next]_vars => Inv'
    BY <1>2, StepTypeInv, StepVersionInv, StepFreshInv, StepFloorInv DEF Warm
  <2>3. Inv => ListReadsFresh
    BY DEF FloorInv, AboveFloor, ListReadsFresh
  <2> HIDE DEF Inv
  <2> QED BY <2>1, <2>2, <2>3, PTL DEF Spec
<1> QED BY <1>1, <1>2

-----------------------------------------------------------------------------
(* A caller that is alone *)

(* One goroutine; queries may fail, but nothing is lost.  The version may  *)
(* be absent at first.                                                     *)
Alone(g) == Goroutines = {g} /\ Faults \subseteq {"db"}

CurrentList == [total |-> table, pks |-> table]

(* Versions grow from 1, the current one has the current list at most,     *)
(* and a call works with the current version on the table as it is.        *)
AloneInv(g) ==
    /\ ~missed
    /\ pc[g] # "incr" => todo[g] = 0
    /\ \A w \in DOMAIN lists : w > 0 /\ w <= ver
    /\ pc[g] # "incr" /\ ver \in DOMAIN lists => lists[ver] = CurrentList
    /\ pc[g] = "init" => ver = 0
    /\ pc[g] \in {"get", "count", "pks", "set"} => v[g] = ver /\ ver > 0
    /\ pc[g] = "pks" => res[g].total = table
    /\ pc[g] \in {"set", "done"} => res[g] = CurrentList

LEMMA InitAloneInv == ASSUME NEW g \in Goroutines, Init PROVE AloneInv(g)
<1>1. DOMAIN lists = {}
  BY DEF Init
<1>2. pc[g] = "idle" /\ todo[g] = 0 /\ ~missed
  BY DEF Init
<1> QED BY <1>1, <1>2 DEF AloneInv

LEMMA StepAloneInv ==
  ASSUME NEW g \in Goroutines, Alone(g), TypeInv, AloneInv(g), [Next]_vars
  PROVE  AloneInv(g)'
<1> USE DEF AloneInv, CurrentList, Goto, reader
<1>0. /\ table \in Nat /\ ver \in Nat /\ pc \in [Goroutines -> PCs]
      /\ v \in [Goroutines -> Nat] /\ res \in [Goroutines -> Entries]
      /\ todo \in [Goroutines -> Nat] /\ DOMAIN lists \subseteq Nat
  BY DEF TypeInv, TypeOK, Stamps
<1>1. CASE GetList(g)
  BY <1>0, <1>1 DEF GetList
<1>2. CASE ReadVersion(g)
  <2>1. \/ ver # 0 /\ pc'[g] = "get" /\ v'[g] = ver
        \/ ver = 0 /\ pc'[g] = "init"
    BY <1>0, <1>2 DEF ReadVersion, Alone
  <2> QED BY <1>0, <1>2, <2>1 DEF ReadVersion
<1>3. CASE InitVersion(g)
  <2>1. /\ ver = 0 /\ ver' = 1 /\ v'[g] = 1 /\ pc'[g] = "get" /\ pc[g] = "init"
        /\ UNCHANGED <<table, lists, res, floor, todo, missed>>
    BY <1>0, <1>3 DEF InitVersion, Alone
  <2>2. ASSUME NEW w \in DOMAIN lists PROVE FALSE
    <3>1. w \in Nat /\ w > 0 /\ w <= 0
      BY <1>0, <2>1
    <3> QED BY <3>1
  <2> QED BY <2>1, <2>2
<1>4. CASE GetEntry(g)
  <2>1. /\ pc[g] = "get" /\ UNCHANGED <<table, ver, lists, v, floor, todo, missed>>
        /\ \/ pc'[g] = "done" /\ res'[g] = lists[ver] /\ ver \in DOMAIN lists
           \/ pc'[g] = "count"
    BY <1>0, <1>4 DEF GetEntry
  <2> QED BY <2>1
<1>5. CASE QueryFails(g)
  BY <1>0, <1>5 DEF QueryFails
<1>6. CASE Count(g)
  <2>1. /\ pc[g] = "count" /\ pc'[g] \in {"pks", "done"}
        /\ res'[g] = [total |-> table, pks |-> table]
        /\ UNCHANGED <<table, ver, lists, v, floor, todo, missed>>
    BY <1>0, <1>6 DEF Count
  <2> QED BY <2>1
<1>7. CASE SelectPKs(g)
  <2>1. /\ pc[g] = "pks" /\ pc'[g] \in {"set", "done"}
        /\ UNCHANGED <<table, ver, lists, v, floor, todo, missed>>
    BY <1>0, <1>7 DEF SelectPKs
  <2>2. res'[g] = [total |-> table, pks |-> table]
    <3>1. res'[g] = [res[g] EXCEPT !.pks = table]
      BY <1>0, <1>7 DEF SelectPKs
    <3>2. res[g] \in Entries /\ res[g].total = table
      BY <1>0, <2>1
    <3> QED BY <3>1, <3>2 DEF Entries
  <2> QED BY <2>1, <2>2
<1>8. CASE SetEntry(g)
  <2>1. /\ pc[g] = "set" /\ pc'[g] = "done" /\ Put(ver, CurrentList)
        /\ UNCHANGED <<table, ver, reader, todo, missed>>
    BY <1>0, <1>8 DEF SetEntry, Alone
  <2>2. /\ DOMAIN lists' = DOMAIN lists \cup {ver}
        /\ lists'[ver] = CurrentList
    BY <2>1 DEF Put
  <2> QED BY <1>0, <2>1, <2>2
<1>9. CASE Return(g)
  BY <1>0, <1>9 DEF Return
<1>10. CASE Commit(g)
  <2>1. /\ pc[g] = "idle" /\ pc'[g] = "incr" /\ UNCHANGED <<ver, lists, missed>>
    BY <1>0, <1>10 DEF Commit
  <2> QED BY <2>1
<1>11. CASE Incr(g)
  <2>1. /\ pc[g] = "incr" /\ ver' = ver + 1 /\ missed' = FALSE
        /\ UNCHANGED <<table, lists, reader>>
        /\ todo'[g] = todo[g] - 1
        /\ \/ todo[g] = 1 /\ pc'[g] = "idle"
           \/ pc'[g] = "incr"
    BY <1>0, <1>11 DEF Incr, Alone
  <2>2. ver' \notin DOMAIN lists' /\ \A w \in DOMAIN lists' : w > 0 /\ w <= ver'
    BY <1>0, <2>1
  <2>3. pc'[g] # "incr" => todo'[g] = 0
    BY <1>0, <2>1
  <2> QED BY <2>1, <2>2, <2>3
<1>12. ASSUME NEW w \in DOMAIN lists, EntryExpire(w) PROVE AloneInv(g)'
  <2>1. /\ DOMAIN lists' = DOMAIN lists \ {w}
        /\ \A x \in DOMAIN lists' : lists'[x] = lists[x]
        /\ UNCHANGED <<table, ver, pc, reader, todo, missed>>
    BY <1>12 DEF EntryExpire
  <2> QED BY <2>1
<1>13. ~VersionEvicted /\ ~Crash(g) /\ ~CommitUnacked(g)
  BY DEF VersionEvicted, Crash, CommitUnacked, Alone
<1>14. CASE UNCHANGED vars
  BY <1>14 DEF vars
<1>15. (\A h \in Goroutines : h = g) /\ g \in Goroutines
  BY DEF Alone
<1> QED
  BY <1>1, <1>2, <1>3, <1>4, <1>5, <1>6, <1>7, <1>8, <1>9, <1>10, <1>11, <1>12,
     <1>13, <1>14, <1>15
  DEF Next, Step, Start

(* A caller that is alone and loses nothing but queries is given the list  *)
(* of the table as it is, count and page, also when the version key is     *)
(* absent at first: what ListColdStart finds needs a second goroutine.     *)
THEOREM AloneReadsCurrentList ==
  ASSUME NEW g \in Goroutines, Alone(g)
  PROVE  Spec => [](pc[g] = "done" => res[g] = CurrentList)
<1> DEFINE Inv == TypeInv /\ AloneInv(g)
           Goal == pc[g] = "done" => res[g] = CurrentList
<1>1. Init => Inv
  BY InitTypeInv, InitAloneInv
<1>2. Inv /\ [Next]_vars => Inv'
  BY StepTypeInv, StepAloneInv
<1>3. Inv => Goal
  BY DEF AloneInv
<1> HIDE DEF Inv, Goal
<1>4. Spec => []Goal
  BY <1>1, <1>2, <1>3, PTL DEF Spec
<1> QED BY <1>4 DEF Goal

=============================================================================
