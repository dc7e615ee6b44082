------------------------------ MODULE MCBatchGet ------------------------------
(* Instances of BatchGet for TLC. *)
EXTENDS BatchGet, TLC

CONSTANTS g1, g2, g3, k1, k2, k3

(* A page of two Redis batches, of three keys with and without a row.      *)
MCPages == {<<k1, k2, k3>>}

Symmetry == Permutations(Goroutines)

=============================================================================
