------------------------------- MODULE Routing -------------------------------
(***************************************************************************)
(* The routers: which database and which suffix of the table a shard key   *)
(* gets.  They are functions of the key, without state once a ring has     *)
(* been generated; getDB in module Transactions calls them.                *)
(***************************************************************************)
EXTENDS Integers

CONSTANTS
    DBs,            \* how many databases there may be, numbered from 0
    Points,         \* Points[i]: the hashKeys of i's virtual nodes (crc32)
    MaxInt,         \* the largest int
    NoKey,          \* the empty shard key; a ring knows the others by their hash
    NotANumber,     \* a key that strconv.Atoi or time.Parse cannot read
    NoDB            \* nil: getDB keeps the database it has

ASSUME RoutingAssumption ==
    /\ DBs \in Nat
    /\ Points \in [0 .. DBs - 1 -> SUBSET Nat]
    /\ MaxInt \in Nat
    /\ NoKey \notin Nat
    /\ NotANumber \notin Int
    /\ NoDB \notin 0 .. DBs - 1

-----------------------------------------------------------------------------
(* HashRing: consistent hashing *)

(* The keys of a ring of the first n databases.  (In the code a sorted     *)
(* list, in which a hash that two virtual nodes share is repeated.)        *)
hashKeys(n) == UNION {Points[i] : i \in 0 .. n - 1}

(* A later database takes over the hashes it shares with an earlier one.   *)
hashMap(n) == [p \in hashKeys(n) |->
    CHOOSE i \in 0 .. n - 1 :
      p \in Points[i] /\ \A j \in i + 1 .. n - 1 : p \notin Points[j]]

Smallest(S) == CHOOSE p \in S : \A q \in S : p <= q

(* sort.Search, and back to the start of the list when it finds nothing.   *)
Search(keys, hash) ==
    LET after == {p \in keys : p >= hash} IN
    Smallest(IF after = {} THEN keys ELSE after)

(* The database for a shard key: none for the empty key, which leaves the  *)
(* table its name too, or in a ring without databases.                     *)
RingRoute(n, key) ==
    IF key = NoKey \/ hashKeys(n) = {}
    THEN NoDB ELSE hashMap(n)[Search(hashKeys(n), key)]

-----------------------------------------------------------------------------
(* ModRouter *)

(* strconv.Atoi without its error: a number that is too large becomes the  *)
(* largest one, what is no number becomes 0.                               *)
Atoi(key) ==
    CASE key = NotANumber -> 0
      [] key # NotANumber /\ key > MaxInt -> MaxInt
      [] key # NotANumber /\ key < -MaxInt - 1 -> -MaxInt - 1
      [] OTHER -> key

(* The remainder in Go has the sign of the dividend.                       *)
GoRemainder(a, b) == IF a >= 0 THEN a % b ELSE -((-a) % b)

ModSuffix(key) == GoRemainder(Atoi(key), 64)

-----------------------------------------------------------------------------
(* TimeRouter *)

(* Year and month of a key yyyymm.  The error of time.Parse is ignored,    *)
(* and what is no date becomes the zero Time, in January of year 1.        *)
TimeSuffix(key) ==
    IF key # NotANumber /\ key \in 0 .. 999999 /\ key % 100 \in 1 .. 12
    THEN <<key \div 100, key % 100>> ELSE <<1, 1>>

=============================================================================
