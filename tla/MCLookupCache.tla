---------------------------- MODULE MCLookupCache ----------------------------
(***************************************************************************)
(* An instance of LookupCache for TLC: the column email is unique, rows    *)
(* with email a are looked up by it (uk) and by conditions on it (ck).  No *)
(* update names uk, which so stands for every other key of the same rows,  *)
(* the conditions of ck in another order included.                         *)
(***************************************************************************)
EXTENDS LookupCache, TLC

CONSTANTS g1, g2, r1, r2, uk, ck, a, b

SelectA == [k \in Keys |-> {a}]

(* Row r1 has email a, row r2 does not exist.                              *)
OneRow == {[p \in Rows |-> IF p = r1 THEN a ELSE None]}

=============================================================================
