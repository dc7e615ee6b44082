------------------------------ MODULE MCRouting ------------------------------
(***************************************************************************)
(* Routing compared by TLC with hash_ring.go as it is written, lists and   *)
(* binary search, for all rings of three databases and hashes up to 2.     *)
(***************************************************************************)
EXTENDS Routing, SequencesExt

MCPoints == [i \in 0 .. DBs - 1 |-> {i, i + 1}]

R(P) == INSTANCE Routing WITH Points <- P

(* The hashKeys of points P after the loops of generateRing, and sorted.   *)
AsGenerated(P, n) ==
    SortSeq(FlattenSeq([i \in 1 .. n |-> SetToSeq(P[i - 1])]), <)

(* hashMap after the loops.                                                *)
AsMapped(P, n) ==
    LET map[i \in 0 .. n] ==
          IF i = 0 THEN [p \in {} |-> 0]
          ELSE [p \in DOMAIN map[i - 1] \cup P[i - 1] |->
                  IF p \in P[i - 1] THEN i - 1 ELSE map[i - 1][p]]
    IN  map[n]

(* sort.Search: the least index from 0 whose key is at least hash.         *)
AsSearched(keys, hash) ==
    LET from[i, j \in 0 .. Len(keys)] ==
          IF i >= j THEN i
          ELSE LET h == (i + j) \div 2 IN
               IF keys[h + 1] >= hash THEN from[i, h] ELSE from[h + 1, j]
    IN  from[0, Len(keys)]

AsRouted(P, n, key) ==
    LET keys == AsGenerated(P, n)
        idx  == AsSearched(keys, key)
    IN  IF key = NoKey THEN NoDB
        ELSE IF keys = <<>> THEN NoDB
        ELSE AsMapped(P, n)[keys[(IF idx = Len(keys) THEN 0 ELSE idx) + 1]]

(* The sets and functions of Routing return what the code's lists return.  *)
ASSUME RingAsWritten ==
    \A P \in [0 .. 2 -> SUBSET (0 .. 2)], n \in 0 .. 3, key \in (0 .. 3) \cup {NoKey} :
      R(P)!RingRoute(n, key) = AsRouted(P, n, key)

(* Go's definition of %: the quotient is truncated toward zero.            *)
ASSUME RemainderAsInGo ==
    \A a \in -300 .. 300 :
      LET rest == GoRemainder(a, 64) IN
      \E q \in -5 .. 5 : /\ a = q * 64 + rest /\ rest \in -63 .. 63
                         /\ rest # 0 => (rest > 0 <=> a > 0)

=============================================================================
