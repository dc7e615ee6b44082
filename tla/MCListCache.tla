----------------------------- MODULE MCListCache -----------------------------
(* Instances of ListCache for TLC. *)
EXTENDS ListCache, TLC

CONSTANTS g1, g2, g3

Symmetry == Permutations(Goroutines)

=============================================================================
