-------------------------- MODULE AbstractSharedLock ---------------------------
(***************************************************************************)
(* What a reader-writer lock promises: a task that asked for it gets it    *)
(* exclusively only while nobody has it, and shared only while nobody has  *)
(* it exclusively.                                                         *)
(***************************************************************************)
CONSTANT Task

VARIABLE status   \* task -> "out", "waiting", "shared" or "exclusive"

Holds(t) == status[t] \in {"shared", "exclusive"}
Becomes(t, s) == status' = [status EXCEPT ![t] = s]

Init == status = [t \in Task |-> "out"]

Request(t) == status[t] = "out" /\ Becomes(t, "waiting")
AcquireExclusive(t) == /\ ~Holds(t)
                       /\ \A u \in Task : ~Holds(u)
                       /\ Becomes(t, "exclusive")
AcquireShared(t) == /\ ~Holds(t)
                    /\ \A u \in Task : status[u] # "exclusive"
                    /\ Becomes(t, "shared")
Release(t) == Holds(t) /\ Becomes(t, "out")

Next == \E t \in Task : \/ Request(t) \/ Release(t)
                        \/ AcquireExclusive(t) \/ AcquireShared(t)

Spec == Init /\ [][Next]_status
=============================================================================
