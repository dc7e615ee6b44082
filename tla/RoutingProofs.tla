---------------------------- MODULE RoutingProofs ----------------------------
(***************************************************************************)
(* What the routers promise to the data that was stored under them.        *)
(***************************************************************************)
EXTENDS Routing, WellFoundedInduction, TLAPS

(* Smaller numbers come first in a well-founded order.                     *)
LEMMA LessThan == IsWellFoundedOn({d \in Nat \X Nat : d[1] < d[2]}, Nat)
BY NatLessThanWellFounded DEF OpToRel

(* A set of numbers has a smallest one.                                    *)
LEMMA HasSmallest ==
    ASSUME NEW S, S \subseteq Nat, S # {}
    PROVE  Smallest(S) \in S /\ \A q \in S : Smallest(S) <= q
<1> DEFINE R == {d \in Nat \X Nat : d[1] < d[2]}
<1>1. IsWellFoundedOn(R, Nat)
  BY LessThan
<1> HIDE DEF R
<1>2. PICK p \in S : \A q \in S : <<q, p>> \notin R
  BY <1>1, WFMin
<1>3. ASSUME NEW q \in S PROVE p <= q
  <2>1. p \in Nat /\ q \in Nat
    OBVIOUS
  <2>2. ~(q < p)
    BY <1>2, <2>1 DEF R
  <2> QED
    BY <2>1, <2>2
<1>4. \E x \in S : \A q \in S : x <= q
  BY <1>3
<1> QED
  BY <1>4 DEF Smallest

(* It is the only one that is below all others.                            *)
LEMMA SmallestIs ==
    ASSUME NEW S, S \subseteq Nat, NEW p \in S, \A q \in S : p <= q
    PROVE  Smallest(S) = p
<1>1. Smallest(S) \in S /\ Smallest(S) <= p
  BY HasSmallest
<1>2. p <= Smallest(S) /\ Smallest(S) \in Nat /\ p \in Nat
  BY <1>1
<1> QED
  BY <1>1, <1>2

(* A point that some of the first n databases have belongs to the last of  *)
(* them.                                                                   *)
LEMMA OwnerIs ==
    ASSUME NEW n \in 0 .. DBs, NEW p \in hashKeys(n)
    PROVE  /\ hashMap(n)[p] \in 0 .. n - 1
           /\ p \in Points[hashMap(n)[p]]
           /\ \A j \in hashMap(n)[p] + 1 .. n - 1 : p \notin Points[j]
<1> DEFINE S == {k \in 0 .. n - 1 : p \in Points[n - 1 - k]}
<1>1. n \in Nat
  BY RoutingAssumption
<1>2. PICK i \in 0 .. n - 1 : p \in Points[i]
  BY DEF hashKeys
<1>3. n - 1 - i \in S
  <2>1. n - 1 - i \in 0 .. n - 1 /\ n - 1 - (n - 1 - i) = i
    BY <1>1, <1>2
  <2> QED
    BY <2>1, <1>2
<1>4. S \subseteq Nat
  BY <1>1
<1> HIDE DEF S
<1>5. PICK k \in S : \A q \in S : k <= q
  BY <1>3, <1>4, HasSmallest
<1>6. n - 1 - k \in 0 .. n - 1 /\ p \in Points[n - 1 - k]
  BY <1>1, <1>5 DEF S
<1>7. ASSUME NEW j \in n - 1 - k + 1 .. n - 1, p \in Points[j] PROVE FALSE
  <2>1. n - 1 - j \in 0 .. n - 1 /\ n - 1 - (n - 1 - j) = j
    BY <1>1, <1>5 DEF S
  <2>2. n - 1 - j \in S
    BY <2>1, <1>7 DEF S
  <2> QED
    BY <2>2, <1>5, <1>1, <1>4
<1>8. \E o \in 0 .. n - 1 :
        p \in Points[o] /\ \A j \in o + 1 .. n - 1 : p \notin Points[j]
  BY <1>6, <1>7
<1>9. hashMap(n)[p] = CHOOSE o \in 0 .. n - 1 :
        p \in Points[o] /\ \A j \in o + 1 .. n - 1 : p \notin Points[j]
  BY DEF hashMap
<1> QED
  BY <1>8, <1>9

LEMMA PointsAreNumbers ==
    ASSUME NEW n \in 0 .. DBs PROVE hashKeys(n) \subseteq Nat
BY RoutingAssumption DEF hashKeys

(* Search returns a key of the ring.                                       *)
LEMMA SearchFinds ==
    ASSUME NEW n \in 0 .. DBs, hashKeys(n) # {}, NEW hash \in Nat
    PROVE  Search(hashKeys(n), hash) \in hashKeys(n)
<1> DEFINE after == {p \in hashKeys(n) : p >= hash}
<1>1. hashKeys(n) \subseteq Nat /\ after \subseteq hashKeys(n)
  BY PointsAreNumbers
<1>2. CASE after = {}
  BY <1>1, <1>2, HasSmallest DEF Search
<1>3. CASE after # {}
  <2>1. Smallest(after) \in after
    BY <1>1, <1>3, HasSmallest
  <2> QED
    BY <2>1, <1>1, <1>3 DEF Search
<1> QED
  BY <1>2, <1>3

(* A ring with points always has a database for a key that is not empty,   *)
(* and it is one of the ring's: the index into dbs is in range.            *)
THEOREM RoutesIntoRing ==
    ASSUME NEW n \in 0 .. DBs, hashKeys(n) # {}, NEW hash \in Nat
    PROVE  RingRoute(n, hash) \in 0 .. n - 1
<1>1. hash # NoKey
  BY RoutingAssumption
<1> QED
  BY <1>1, SearchFinds, OwnerIs DEF RingRoute

(* When keys are added to a ring and the search still finds an old one, it *)
(* finds the one it found before.                                          *)
LEMMA SearchAgrees ==
    ASSUME NEW K, NEW L, K \subseteq L, L \subseteq Nat, NEW hash \in Nat,
           L # {}, Search(L, hash) \in K
    PROVE  Search(K, hash) = Search(L, hash)
<1> DEFINE s == Search(L, hash)
           afterK == {p \in K : p >= hash}
           afterL == {p \in L : p >= hash}
<1>1. CASE afterL = {}
  <2>1. s = Smallest(L)
    BY <1>1 DEF Search
  <2>2. \A q \in K : s <= q
    BY <2>1, HasSmallest
  <2>3. Smallest(K) = s
    BY <2>2, SmallestIs
  <2>4. afterK = {}
    BY <1>1
  <2> QED
    BY <2>3, <2>4 DEF Search
<1>2. CASE afterL # {}
  <2>1. s = Smallest(afterL)
    BY <1>2 DEF Search
  <2>2. afterL \subseteq Nat
    OBVIOUS
  <2>3. s \in afterL /\ \A q \in afterL : s <= q
    BY <2>1, <2>2, <1>2, HasSmallest
  <2>4. s \in afterK /\ \A q \in afterK : s <= q
    BY <2>3
  <2>5. Smallest(afterK) = s
    BY <2>4, SmallestIs
  <2> QED
    BY <2>4, <2>5 DEF Search
<1> QED
  BY <1>1, <1>2

(* Consistent hashing: a ring with one more database sends a key to where  *)
(* it went before or to the new database, so the rows of all other keys    *)
(* are found where they are.                                               *)
THEOREM GrowthMovesKeysToNewOnly ==
    ASSUME NEW n \in 0 .. DBs - 1, NEW hash \in Nat \cup {NoKey}
    PROVE  RingRoute(n + 1, hash) = RingRoute(n, hash) \/ RingRoute(n + 1, hash) = n
<1>0. CASE hash = NoKey
  BY <1>0 DEF RingRoute
<1> SUFFICES ASSUME hash # NoKey
             PROVE  RingRoute(n + 1, hash) = RingRoute(n, hash) \/ RingRoute(n + 1, hash) = n
  BY <1>0
<1>a. hash \in Nat
  OBVIOUS
<1> DEFINE K == hashKeys(n)
           L == hashKeys(n + 1)
           s == Search(L, hash)
<1>1. n \in Nat /\ n \in 0 .. DBs /\ n + 1 \in 0 .. DBs
  BY RoutingAssumption
<1>2. L = K \cup Points[n]
  <2>1. \A i : i \in 0 .. n <=> i \in 0 .. n - 1 \/ i = n
    BY <1>1
  <2>2. n + 1 - 1 = n
    BY <1>1
  <2> QED
    BY <2>1, <2>2 DEF hashKeys
<1>3. L \subseteq Nat
  BY <1>1, PointsAreNumbers
<1>4. CASE L = {}
  <2>1. K = {}
    BY <1>2, <1>4
  <2> QED
    BY <2>1, <1>4 DEF RingRoute
<1>5. CASE L # {}
  <2>1. s \in L
    BY <1>1, <1>5, SearchFinds
  <2> DEFINE o == hashMap(n + 1)[s]
  <2>2. RingRoute(n + 1, hash) = o
    BY <1>5 DEF RingRoute
  <2>3. o \in 0 .. n /\ s \in Points[o] /\ \A j \in o + 1 .. n : s \notin Points[j]
    <3>1. n + 1 - 1 = n
      BY <1>1
    <3> HIDE DEF s
    <3> QED
      BY <3>1, <1>1, <2>1, OwnerIs
  <2>4. CASE s \in Points[n]
    <3>1. ~(n \in o + 1 .. n)
      BY <2>3, <2>4
    <3>2. o = n
      BY <3>1, <2>3, <1>1
    <3> QED
      BY <3>2, <2>2
  <2>5. CASE s \notin Points[n]
    <3>1. s \in K
      BY <2>1, <2>5, <1>2
    <3>2. Search(K, hash) = s
      <4>1. K \subseteq L
        BY <1>2
      <4> HIDE DEF K, L
      <4> QED
        BY <4>1, <3>1, <1>3, <1>5, SearchAgrees
    <3>3. RingRoute(n, hash) = hashMap(n)[s]
      BY <3>1, <3>2 DEF RingRoute
    <3> DEFINE u == hashMap(n)[s]
    <3>4. u \in 0 .. n - 1 /\ s \in Points[u] /\ \A j \in u + 1 .. n - 1 : s \notin Points[j]
      <4> HIDE DEF s
      <4> QED
        BY <1>1, <3>1, OwnerIs
    <3> HIDE DEF s, o, u
    <3>5. o # n
      BY <2>3, <2>5
    <3>6. ~(u \in o + 1 .. n) /\ ~(o \in u + 1 .. n - 1)
      BY <2>3, <3>4
    <3>7. o = u
      BY <3>4, <3>5, <3>6, <2>3, <1>1
    <3> QED
      BY <3>7, <3>3, <2>2 DEF u
  <2> QED
    BY <2>4, <2>5
<1> QED
  BY <1>4, <1>5

(* ModRouter is the remainder by 64 that README.md:328 says for the keys   *)
(* that are natural numbers of the machine: 64 tables.  Negative keys are  *)
(* not spread over these: their suffixes are -63 .. 0, and for those of    *)
(* the machine 0 only when they are multiples of 64.  So there are at most *)
(* 127 tables in all.                                                      *)
THEOREM ModRouterTables ==
    ASSUME NEW key \in Int
    PROVE  /\ ModSuffix(key) \in -63 .. 63
           /\ key \in 0 .. MaxInt => ModSuffix(key) = key % 64
           /\ key < 0 => ModSuffix(key) \in -63 .. 0
           /\ key \in -MaxInt - 1 .. -1 => (ModSuffix(key) = 0 <=> (-key) % 64 = 0)
<1>1. MaxInt \in Nat /\ key # NotANumber
  BY RoutingAssumption
<1> DEFINE a == Atoi(key)
<1>2. /\ a \in Int
      /\ key \in 0 .. MaxInt => a = key
      /\ key < 0 => a < 0
      /\ key \in -MaxInt - 1 .. -1 => a = key
  BY <1>1 DEF Atoi
<1> HIDE DEF a
<1>3. \A x \in Nat : x % 64 \in 0 .. 63
  OBVIOUS
<1>4. CASE a >= 0
  <2>0. key \notin -MaxInt - 1 .. -1
    BY <1>1, <1>2, <1>4
  <2>1. a \in Nat /\ ModSuffix(key) = a % 64
    BY <1>2, <1>4 DEF ModSuffix, GoRemainder, a
  <2> QED
    BY <2>0, <2>1, <1>2, <1>3, <1>4
<1>5. CASE a < 0
  <2>1. -a \in Nat /\ ModSuffix(key) = -((-a) % 64)
    BY <1>2, <1>5 DEF ModSuffix, GoRemainder, a
  <2>2. (-a) % 64 \in 0 .. 63
    BY <2>1, <1>3
  <2>3. key \notin 0 .. MaxInt
    BY <1>2, <1>5
  <2> DEFINE rest == (-a) % 64
  <2>4. key \in -MaxInt - 1 .. -1 => rest = (-key) % 64
    BY <1>2
  <2> HIDE DEF rest
  <2>5. rest \in 0 .. 63 /\ ModSuffix(key) = -rest
    BY <2>1, <2>2 DEF rest
  <2> QED
    BY <2>3, <2>4, <2>5
<1> QED
  BY <1>2, <1>4, <1>5

=============================================================================
