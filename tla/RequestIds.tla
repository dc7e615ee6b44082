------------------------------ MODULE RequestIds ------------------------------
(***************************************************************************)
(* The request id of a goroutine, which the logger prints: a global map    *)
(* from goroutine ids, written by BindCtx at the entry points of the       *)
(* library and by GoSafe for the goroutine it starts.  The child of a      *)
(* goroutine with id i has id i extended by a number.  Module Transactions *)
(* says when each operation is called.                                     *)
(***************************************************************************)
EXTENDS Naturals, Sequences

CONSTANTS Goroutines, Requests

VARIABLES
    ids,        \* reqIdMap: the id of a goroutine, NoId when it has none
    children    \* childCounters: the goroutines started under an id

NoId == <<>>

(* The ids of a request and of the children of its goroutines.             *)
IdOf(r) == IF r \in Requests THEN <<r>> ELSE NoId

TypeOK ==
    /\ ids \in [Goroutines -> Seq(Requests \cup Nat)]
    /\ DOMAIN children \subseteq Seq(Requests \cup Nat)
    /\ \A i \in DOMAIN children : children[i] \in Nat

Init ==
    /\ ids = [g \in Goroutines |-> NoId]
    /\ children = [i \in {} |-> 0]

SetReqId(g, i) == ids' = [ids EXCEPT ![g] = i]

ClearReqId(g) == SetReqId(g, NoId)

(* A context without a request id leaves the goroutine's as it is.         *)
BindCtx(g, r) ==
    \/ r \in Requests /\ SetReqId(g, IdOf(r))
    \/ r \notin Requests /\ UNCHANGED ids

(* The function that BindCtx returns: it clears, it does not restore.      *)
Release(g, r) ==
    \/ r \in Requests /\ ClearReqId(g)
    \/ r \notin Requests /\ UNCHANGED ids

Started(i) == IF i \in DOMAIN children THEN children[i] ELSE 0

nextChildReqID(i) == Append(i, Started(i) + 1)

(* g starts goroutine h, which is new: its id is a child of g's, or none.  *)
GoSafe(g, h) ==
    \/ /\ ids[g] = NoId
       /\ SetReqId(h, NoId)
       /\ UNCHANGED children
    \/ /\ ids[g] # NoId
       /\ SetReqId(h, nextChildReqID(ids[g]))
       /\ children' = [i \in DOMAIN children \cup {ids[g]} |->
            IF i = ids[g] THEN Started(i) + 1 ELSE children[i]]

=============================================================================
