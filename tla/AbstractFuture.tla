---------------------------- MODULE AbstractFuture -----------------------------
(***************************************************************************)
(* What the two ends of a promise agree on: each shared state is a cell    *)
(* that is settled at most once, with a value, an exception or the news    *)
(* that the promise is broken, and whose value may be taken away, once, by *)
(* the only future that refers to it.                                      *)
(***************************************************************************)
CONSTANTS State, Outcome

VARIABLE cell   \* state -> "pending", an outcome, or "moved"

Init == cell = [s \in State |-> "pending"]

Settle(s, o) == cell[s] = "pending" /\ cell' = [cell EXCEPT ![s] = o]
Take(s) == /\ cell[s] \notin {"pending", "moved", "exception", "broken"}
           /\ cell' = [cell EXCEPT ![s] = "moved"]

Next == \E s \in State : Take(s) \/ \E o \in Outcome : Settle(s, o)

Spec == Init /\ [][Next]_cell
=============================================================================
