-------------------------------- MODULE MCLatch --------------------------------
(***************************************************************************)
(* Latch and AtomicCondition for TLC.  The tasks use either a latch or the *)
(* objects on an atomic value, whose queues are those of Queue; which of   *)
(* the two, is settled at the start.                                       *)
(***************************************************************************)
EXTENDS Latch, AtomicCondition

CONSTANT Active   \* the tasks that use the atomic value

VARIABLE object   \* "latch" or "condition"

latchVars == <<m_counter, pc, arrives>>
mcVars == <<latchVars, acVars, object>>

(* A bound: storing a value costs as many states of the model as a task.   *)
Bound == \A t \in Task \ Active :
           UNCHANGED <<call[t], owes[t], batch[t]>>

UsesLatch == object = "latch" /\ UNCHANGED <<object, ownVars>>
UsesCondition == object = "condition" /\ UNCHANGED <<object, latchVars>> /\ Bound

MCInit == /\ Init /\ AcInit /\ object \in {"latch", "condition"}
          /\ object = "latch" => m_value = CHOOSE v \in Value : TRUE
MCNext == \/ Next /\ UsesLatch
          \/ AcNext /\ UsesCondition
MCFairSpec == /\ MCInit /\ [][MCNext]_mcVars
              /\ \A t \in Task : /\ WF_mcVars(Step(t) /\ UsesLatch)
                                 /\ WF_mcVars(AcStep(t) /\ UsesCondition)
=============================================================================
