------------------------------ MODULE TxContract ------------------------------
(***************************************************************************)
(* What Transaction and TxManager.AfterCommit promise of the hooks of a    *)
(* transaction, whatever goroutines register them: none runs before the    *)
(* commit or without it, none runs twice, and those that run do so in the  *)
(* order of their registration.  Hooks are numbered as they are registered.*)
(* That a hook does run is not promised: see InvalidationsDone.            *)
(***************************************************************************)
EXTENDS Naturals

CONSTANT Txs

VARIABLES
    phase,      \* phase[t]: where transaction t is
    clock,      \* hooks registered so far
    registered, \* registered[t]: the hooks registered in t
    last        \* last[t]: the last hook of t that has run, 0 when none has

vars == <<phase, clock, registered, last>>

Init ==
    /\ phase = [t \in Txs |-> "none"]
    /\ clock = 0
    /\ registered = [t \in Txs |-> {}]
    /\ last = [t \in Txs |-> 0]

Move(t, from, to) == phase[t] = from /\ phase' = [phase EXCEPT ![t] = to]

Begin(t)  == Move(t, "none", "open") /\ UNCHANGED <<clock, registered, last>>

Commit(t) == Move(t, "open", "committed") /\ UNCHANGED <<clock, registered, last>>

Abort(t)  == Move(t, "open", "aborted") /\ UNCHANGED <<clock, registered, last>>

(* A goroutine that outlives fn may register a hook when it is too late.   *)
Register(t) ==
    /\ phase[t] # "none"
    /\ clock' = clock + 1
    /\ registered' = [registered EXCEPT ![t] = @ \cup {clock + 1}]
    /\ UNCHANGED <<phase, last>>

RunHook(t) ==
    /\ phase[t] = "committed"
    /\ \E n \in registered[t] : n > last[t] /\ last' = [last EXCEPT ![t] = n]
    /\ UNCHANGED <<phase, clock, registered>>

Next ==
    \E t \in Txs : Begin(t) \/ Commit(t) \/ Abort(t) \/ Register(t) \/ RunHook(t)

Spec == Init /\ [][Next]_vars

=============================================================================
