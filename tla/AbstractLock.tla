----------------------------- MODULE AbstractLock ------------------------------
(***************************************************************************)
(* What a mutual-exclusion lock promises its users, whatever its waiting   *)
(* room looks like: a task asks for the lock, gets it only while nobody    *)
(* has it, and gives it back.  An acquisition need not be asked for first  *)
(* (try_lock), and nothing is said of the order.                           *)
(***************************************************************************)
CONSTANT Task

VARIABLE status   \* task -> "out", "waiting" for the lock, or "in"

Init == status = [t \in Task |-> "out"]

Request(t) == status[t] = "out" /\ status' = [status EXCEPT ![t] = "waiting"]
Acquire(t) == /\ status[t] \in {"out", "waiting"}
              /\ \A u \in Task : status[u] # "in"
              /\ status' = [status EXCEPT ![t] = "in"]
Release(t) == status[t] = "in" /\ status' = [status EXCEPT ![t] = "out"]

Next == \E t \in Task : Request(t) \/ Acquire(t) \/ Release(t)

Spec == Init /\ [][Next]_status
=============================================================================
