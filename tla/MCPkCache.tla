------------------------------ MODULE MCPkCache ------------------------------
(***************************************************************************)
(* Instances of PkCache for TLC: which goroutine runs in which process.    *)
(***************************************************************************)
EXTENDS PkCache, TLC

CONSTANTS p1, p2, g1, g2, g3, k1, k2

OneInstance == [g \in Goroutines |-> p1]

(* g3 runs in a process of its own.                                        *)
TwoInstances == [g \in Goroutines |-> IF g = g3 THEN p2 ELSE p1]

=============================================================================
