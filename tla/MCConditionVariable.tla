-------------------------- MODULE MCConditionVariable --------------------------
(***************************************************************************)
(* Instances of ConditionVariable for TLC, with one history variable: who  *)
(* was between the unlock() of wait() and its push_back when a client that *)
(* had set the flag notified.                                              *)
(***************************************************************************)
EXTENDS ConditionVariable

VARIABLE missed

(* In wait(), its lock released or being released, not yet in the queue. *)
InWindow(t) == /\ loop[t]
               /\ \/ cv[t] = "unlock"
                  \/ cv[t] = "wait_if" /\ susp[t] \in {"suspended", "push"}

MCInit == CvInit /\ missed = {}
MCNext ==
    /\ CvNext
    /\ missed' = IF \E t \in Task : cv[t] = "owes" /\ cv'[t] = "none"
                   THEN missed \cup {t \in Task : InWindow(t)}
                   ELSE {t \in missed : cv'[t] \in {"unlock", "wait_if"}}
MCSpec == MCInit /\ [][MCNext]_<<cvAllVars, missed>>

MCFairSpec == MCSpec /\ \A t \in Task : WF_cvAllVars(CvStep(t))

(* A task sleeps although its predicate is true and no notification is     *)
(* under way only if it had released the lock but not reached the queue at *)
(* the time of the notification: in every other interleaving the protocol  *)
(* set-under-lock, notify_all works (condition_variable.hpp:70-84).        *)
AsleepOnlyIfMissed ==
    \A t \in Task :
      /\ ready /\ loop[t] /\ t \in Range(m_waiters["cv"])
      /\ \A u \in Task : cv[u] # "owes"
      => t \in missed

(* condition_variable.hpp:53, "Suspends the calling task until pred()      *)
(* becomes true": nobody stays parked once pred() is true, all clients     *)
(* have notified and every other task is out of both objects.              *)
NoMissedNotification ==
    ~ \E t \in Task :
        /\ ready /\ loop[t] /\ t \in Range(m_waiters["cv"])
        /\ \A u \in Task \ {t} : pc[u] = "out" /\ cv[u] = "none" /\ Running(u)
=============================================================================
