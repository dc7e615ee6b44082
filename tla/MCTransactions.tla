---------------------------- MODULE MCTransactions ----------------------------
(***************************************************************************)
(* An instance of Transactions for TLC: a worker and a goroutine it starts *)
(* share a model, or each has one with a shard key, the worker's in its own *)
(* database.  In one transaction they make two statements; a worker alone  *)
(* makes two in two transactions, nested or not; two goroutines that share *)
(* a model make one, in two transactions, with the failures that concern  *)
(* crossed models.  TLC also evaluates what                                *)
(* MCRouting says of the routers that a sharded model calls.               *)
(***************************************************************************)
EXTENDS Transactions, MCRouting

CONSTANTS g1, g2, m1, m2, r

Own    == [g \in Goroutines |-> IF g = g1 THEN m1 ELSE m2]
Common == [g \in Goroutines |-> m1]

Limit(t, w, c, f) == [txs |-> t, writes |-> w, children |-> c, faults |-> f]

MCLimits == { Limit(1, 2, 1, FaultKinds), Limit(2, 2, 0, FaultKinds) }

Unrouted == [m \in Models |-> "none"]
Sharded  == [m \in Models |-> IF m = m1 THEN "db" ELSE "table"]

MCSetups ==
    [modelOf : {Common}, routed : {Unrouted},
     limit : MCLimits \cup {Limit(2, 1, 1, {"commit", "fnPanic"})}]
    \cup [modelOf : {Own}, routed : {Sharded}, limit : MCLimits]

=============================================================================
