---------------------------- MODULE AtomicCondition ----------------------------
(***************************************************************************)
(* coopsync_tbb::atomic_condition, atomic_flag and atomic_ref_condition:   *)
(* an atomic value and a wait queue.  wait(old) sleeps while the value is  *)
(* old; storing to the value notifies nobody, that is left to the client.  *)
(* The three classes have the same protocol: atomic_flag is the case of    *)
(* two values, and copies of an atomic_ref_condition share one value but   *)
(* have a queue each, so Queue is the set of objects that refer to the     *)
(* value, one for the other two classes.                                   *)
(*                                                                         *)
(* call[t]:                                                                *)
(*   "out"      in no call                                                 *)
(*   "wait"     in wait(old), at the load of the loop (or, when susp[t] is *)
(*              not "idle", inside wait_if before it)                      *)
(*   "wait_if"  in wait(old), the value was old and wait_if is called      *)
(* args[t] are the object and the value that t waits on, in wait(old).     *)
(* owes[t] are the objects t has to notify since it stored a value.        *)
(***************************************************************************)
EXTENDS WaitQueue

CONSTANT Value   \* what the atomic variable can hold

ASSUME ValueAssumption == Value # {}

VARIABLES m_value, call, args, owes

ownVars == <<m_value, call, args, owes>>
acVars == <<m_value, call, args, owes, m_waiters, m_waiters_mutex, susp, batch>>

NoArgs == <<>>

AcTypeOK == /\ WQTypeOK
            /\ m_value \in Value
            /\ call \in [Task -> {"out", "wait", "wait_if"}]
            /\ args \in [Task -> (Queue \X Value) \cup {NoArgs}]
            /\ owes \in [Task -> SUBSET Queue]
            /\ \A t \in Task : call[t] = "out" <=> args[t] = NoArgs

(* A constructor, or the first atomic_ref_condition of a value and its     *)
(* copies, which take over the value and not the waiters.                  *)
AcInit == /\ WQInit
          /\ m_value \in Value
          /\ call = [t \in Task |-> "out"]
          /\ args = [t \in Task |-> NoArgs]
          /\ owes = [t \in Task |-> {}]

Free(t) == call[t] = "out" /\ Running(t)
Old(t) == args[t][2]

-----------------------------------------------------------------------------
(* A client stores through atomic(): then it owes every object on the      *)
(* value a notification, before it does anything else.                     *)
Store(t, v) == /\ Free(t) /\ owes[t] = {}
               /\ m_value' = v
               /\ owes' = [owes EXCEPT ![t] = Queue]
               /\ UNCHANGED <<call, args, wqVars>>

(* notify_one(): the oldest waiter is resumed, whatever value it waits on. *)
NotifyOne(t, q) == /\ Free(t) /\ owes[t] = {}
                   /\ PopOne(t, q)
                   /\ UNCHANGED ownVars

(* A mistaken variant: one waiter is resumed. *)
NotifyAll_One(t, q) == /\ Free(t) /\ (owes[t] = {} \/ q \in owes[t])
                       /\ PopOne(t, q)
                       /\ owes' = [owes EXCEPT ![t] = @ \ {q}]
                       /\ UNCHANGED <<m_value, call, args>>

NotifyAll(t, q) == /\ Free(t) /\ (owes[t] = {} \/ q \in owes[t])
                   /\ SwapAll(t, q)
                   /\ owes' = [owes EXCEPT ![t] = @ \ {q}]
                   /\ UNCHANGED <<m_value, call, args>>
ResumeNotified(t) == ResumeNext(t) /\ UNCHANGED ownVars

-----------------------------------------------------------------------------
(* wait(old) is called, by a client that owes nothing. *)
wait(t, q, old) == /\ Free(t) /\ owes[t] = {}
                   /\ call' = [call EXCEPT ![t] = "wait"]
                   /\ args' = [args EXCEPT ![t] = <<q, old>>]
                   /\ UNCHANGED <<m_value, owes, wqVars>>

(* The load and comparison at the top of the loop: return... *)
TestReturns(t) == /\ call[t] = "wait" /\ Running(t)
                  /\ m_value # Old(t)
                  /\ call' = [call EXCEPT ![t] = "out"]
                  /\ args' = [args EXCEPT ![t] = NoArgs]
                  /\ UNCHANGED <<m_value, owes, wqVars>>

(* ... or wait. *)
TestFails(t) == /\ call[t] = "wait" /\ Running(t)
                /\ m_value = Old(t)
                /\ call' = [call EXCEPT ![t] = "wait_if"]
                /\ UNCHANGED <<m_value, args, owes, wqVars>>
WaitIfOld(t) == /\ call[t] = "wait_if" /\ Running(t)
                /\ call' = [call EXCEPT ![t] = "wait"]
                /\ \/ m_value = Old(t) /\ Suspend(t)
                   \/ m_value # Old(t) /\ UNCHANGED wqVars
                /\ UNCHANGED <<m_value, args, owes>>
RecheckOld(t) == /\ call[t] = "wait"
                 /\ Recheck(t, args[t][1], m_value = Old(t))
                 /\ UNCHANGED ownVars
PushNode(t) == /\ call[t] = "wait"
               /\ Push(t, args[t][1])
               /\ UNCHANGED ownVars
BounceNode(t) == Bounce(t) /\ UNCHANGED ownVars

-----------------------------------------------------------------------------
(* The steps of t inside a call, and the notifications it owes. *)
AcStep(t) == \/ TestReturns(t) \/ TestFails(t) \/ WaitIfOld(t) \/ RecheckOld(t)
             \/ PushNode(t) \/ BounceNode(t) \/ ResumeNotified(t)
             \/ \E q \in owes[t] : NotifyAll(t, q)

AcNext == \E t \in Task :
            \/ \E v \in Value : Store(t, v)
            \/ \E q \in Queue : \/ NotifyOne(t, q)
                                \/ NotifyAll(t, q)
                                \/ \E old \in Value : wait(t, q, old)
            \/ AcStep(t)

AcSpec == AcInit /\ [][AcNext]_acVars
AcFairSpec == AcSpec /\ \A t \in Task : WF_acVars(AcStep(t))

-----------------------------------------------------------------------------
(* atomic_condition.hpp:203-216: wait() loads the value under the queue's  *)
(* lock and the client stores before it notifies.  So a task sleeps, or is *)
(* about to, on a value other than old only while a client still has to    *)
(* notify its object or has taken its node to resume it, no matter how     *)
(* often the value changes and changes back.                               *)
ChangeNotMissed ==
    \A t \in Task :
      /\ call[t] = "wait" /\ susp[t] \in {"push", "parked"}
      /\ m_value # Old(t)
      => \E u \in Task : args[t][1] \in owes[u] \/ t \in Range(batch[u])

(* atomic_condition.hpp:64-67: once clients stop making new calls, every   *)
(* wait(old) with old other than the value then held has ended.  (While    *)
(* they go on, waiters that are notified without need and park again may   *)
(* keep others from the spin mutex for ever, and a value that changes and  *)
(* changes back may be missed.)                                            *)
NoNewCalls ==
    <>[][\A t \in Task : Free(t) /\ owes[t] = {}
           => UNCHANGED <<call[t], owes[t], batch[t]>>]_acVars
WaitingFor(t, v) == call[t] # "out" /\ Old(t) = v
ChangeEndsWait == NoNewCalls =>
    \A t \in Task, v \in Value : <>[](m_value # v) => []<>~WaitingFor(t, v)
=============================================================================
