--------------------------------- MODULE Latch ---------------------------------
(***************************************************************************)
(* coopsync_tbb::latch: a counter that only goes down and a wait queue.    *)
(* The task that brings it to zero resumes every waiter.  wait() is not a  *)
(* loop: it trusts that nobody is resumed before the counter is zero.      *)
(*                                                                         *)
(* pc[t]:                                                                  *)
(*   "out"         in no call                                              *)
(*   "resume_all"  count_down() reached zero, the waiters are not resumed  *)
(*   "wait"        wait() is called                                        *)
(*   "wait_if"     wait(), its try_wait() failed and wait_if is called     *)
(*   "return"      wait(), inside or after the suspension, at the assert   *)
(* arrives[t]: the count_down() is part of arrive_and_wait().              *)
(***************************************************************************)
EXTENDS WaitQueue

CONSTANT Expected   \* the constructor's argument

ASSUME LatchAssumption == Expected \in Nat /\ "latch" \in Queue

VARIABLES m_counter,   \* std::atomic<std::ptrdiff_t>
          pc,
          arrives

vars == <<m_counter, pc, arrives, m_waiters, m_waiters_mutex, susp, batch>>

PC == {"out", "resume_all", "wait", "wait_if", "return"}

TypeOK == /\ WQTypeOK
          /\ m_counter \in 0..Expected
          /\ pc \in [Task -> PC]
          /\ arrives \in [Task -> BOOLEAN]

Init == /\ WQInit
        /\ m_counter = Expected
        /\ pc = [t \in Task |-> "out"]
        /\ arrives = [t \in Task |-> FALSE]

Goto(t, from, to) == pc[t] = from /\ Running(t) /\ pc' = [pc EXCEPT ![t] = to]

-----------------------------------------------------------------------------
(* Mistaken variants: arrive_and_wait counts down twice; the waiters are   *)
(* resumed whatever is left.                                               *)
CountDown_Twice(t, update, andWait) ==
    /\ update <= m_counter
    /\ m_counter' = m_counter - (IF andWait THEN 2 * update ELSE update)
    /\ Goto(t, "out", IF m_counter = update THEN "resume_all"
                      ELSE IF andWait THEN "wait" ELSE "out")
    /\ arrives' = [arrives EXCEPT ![t] = andWait /\ m_counter = update]
    /\ UNCHANGED wqVars
CountDown_AlwaysResumes(t, update, andWait) ==
    /\ update <= m_counter
    /\ m_counter' = m_counter - update
    /\ Goto(t, "out", "resume_all")
    /\ arrives' = [arrives EXCEPT ![t] = andWait]
    /\ UNCHANGED wqVars

(* count_down(update): the caller may not take more than is left.  Whoever *)
(* takes the last of it resumes the waiters; so does a count_down(0) on a  *)
(* latch that is already at zero.                                          *)
CountDown(t, update, andWait) ==
    /\ update <= m_counter
    /\ m_counter' = m_counter - update
    /\ Goto(t, "out", IF m_counter = update THEN "resume_all"
                      ELSE IF andWait THEN "wait" ELSE "out")
    /\ arrives' = [arrives EXCEPT ![t] = andWait /\ m_counter = update]
    /\ UNCHANGED wqVars

(* A mistaken variant: one waiter resumed, not all. *)
ResumeAll_One(t) == /\ Goto(t, "resume_all", IF arrives[t] THEN "wait" ELSE "out")
                    /\ PopOne(t, "latch")
                    /\ arrives' = [arrives EXCEPT ![t] = FALSE]
                    /\ UNCHANGED m_counter

ResumeAll(t) == /\ Goto(t, "resume_all", IF arrives[t] THEN "wait" ELSE "out")
                /\ SwapAll(t, "latch")
                /\ arrives' = [arrives EXCEPT ![t] = FALSE]
                /\ UNCHANGED m_counter

(* try_wait() by a client changes nothing. *)
try_wait == m_counter = 0

Wait(t) == Goto(t, "out", "wait") /\ UNCHANGED <<m_counter, arrives, wqVars>>

(* The fast path of wait(), then the fast path of wait_if. *)
TryWait(t) == /\ Goto(t, "wait", IF try_wait THEN "return" ELSE "wait_if")
              /\ UNCHANGED <<m_counter, arrives, wqVars>>
WaitIf(t) == /\ Goto(t, "wait_if", "return")
             /\ \/ ~try_wait /\ Suspend(t)
                \/ try_wait /\ UNCHANGED wqVars
             /\ UNCHANGED <<m_counter, arrives>>
RecheckWait(t) == /\ pc[t] = "return" /\ Recheck(t, "latch", ~try_wait)
                  /\ UNCHANGED <<m_counter, pc, arrives>>
PushWaiter(t) == /\ pc[t] = "return" /\ Push(t, "latch")
                 /\ UNCHANGED <<m_counter, pc, arrives>>
BounceBack(t) == Bounce(t) /\ UNCHANGED <<m_counter, pc, arrives>>
Return(t) == Goto(t, "return", "out") /\ UNCHANGED <<m_counter, arrives, wqVars>>

ResumeWaiter(t) == ResumeNext(t) /\ UNCHANGED <<m_counter, pc, arrives>>

-----------------------------------------------------------------------------
Step(t) == \/ ResumeAll(t) \/ TryWait(t) \/ WaitIf(t) \/ RecheckWait(t)
           \/ PushWaiter(t) \/ BounceBack(t) \/ Return(t) \/ ResumeWaiter(t)

Next == \E t \in Task :
          \/ \E update \in 0..Expected, andWait \in BOOLEAN :
               CountDown(t, update, andWait)
          \/ Wait(t)
          \/ Step(t)

Spec == Init /\ [][Next]_vars
FairSpec == Spec /\ \A t \in Task : WF_vars(Step(t))

-----------------------------------------------------------------------------
(* The assertion at the end of wait() (latch.cpp:45): nobody gets out      *)
(* before the last count_down(), although wait() does not look again.      *)
NoEarlyReturn ==
    \A t \in Task : pc[t] = "return" /\ susp[t] \in {"idle", "bounce"}
                      => m_counter = 0

(* latch.cpp:29-41: the last count_down() makes the counter zero before it *)
(* takes the queue, so a task that sleeps, or is about to, on an open      *)
(* latch is in the hands of a task that will resume it.                    *)
NoLostWakeup ==
    \A t \in Task :
      susp[t] \in {"push", "parked"} /\ m_counter = 0
        => \E u \in Task : pc[u] = "resume_all" \/ t \in Range(batch[u])

(* latch.hpp: once the counter is zero every waiter returns. *)
WaitersReturn == \A t \in Task :
    m_counter = 0 /\ pc[t] \in {"wait", "wait_if", "return"} ~> pc[t] = "out"
=============================================================================
