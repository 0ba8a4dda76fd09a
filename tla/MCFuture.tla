------------------------------- MODULE MCFuture --------------------------------
(***************************************************************************)
(* Promises, packaged_tasks and their futures for TLC, with one history    *)
(* variable: the states that a promise let go, not settled, when another   *)
(* promise was moved to it.                                                *)
(***************************************************************************)
EXTENDS PackagedTask

CONSTANT Active   \* the tasks that take part when packaged

VARIABLE dropped

(* reset() brings further states into play, which costs as many states of  *)
(* the model as a task does.                                               *)
Bound == packaged => \A t \in Task \ Active : UNCHANGED <<pc[t], future[t]>>

(* At first one object has a state; the other states are for reset().  The *)
(* specialisations of the state are the same under both classes, so one is *)
(* enough for packaged_task.                                               *)
first == CHOOSE p \in Promise : TRUE
MCInit == /\ PtInit
          /\ \A p \in Promise :
               promise[p] = IF p = first THEN CHOOSE s \in State : TRUE ELSE NoState
          /\ packaged => kind = "T"
          /\ dropped = {}
Referred(s) == \/ \E p \in Promise : promise[p] = s
               \/ \E t \in Task : heir[t] = s
Recorded == \/ /\ PtMoves
               /\ dropped' = dropped \cup
                    {s \in State : Referred(s) /\ ~Referred(s)' /\ ~ready(s)}
            \/ PtOthers /\ UNCHANGED dropped
RecordedSpec == /\ PtInit /\ dropped = {}
                /\ [][Recorded]_<<ptVars, dropped>>

MCNext == Recorded /\ Bound
MCFairSpec == /\ MCInit /\ [][MCNext]_<<ptVars, dropped>>
              /\ \A t \in Task : WF_ptVars(PtStep(t))

(* future.hpp:342-348, 1146-1171, 1228-1238: a task never waits for a      *)
(* state that nobody can settle, for the end of a promise or packaged_task *)
(* breaks it, and so do reset() and the move assignment of packaged_task.  *)
(* There is one way: a promise that another is moved to (future.hpp:340,   *)
(* defaulted) forgets its state and whoever waits for it.                  *)
OrphanedOnlyByMove ==
    \A t \in Task : susp[t] # "idle" /\ ~ready(future[t])
      => \/ Referred(future[t])
         \/ future[t] \in dropped
=============================================================================
