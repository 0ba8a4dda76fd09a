------------------------------ MODULE LatchProofs ------------------------------
(***************************************************************************)
(* The latch, for any number of tasks and any initial count: nobody gets   *)
(* out of wait() early although it does not look at the counter again, and *)
(* nobody stays behind on an open latch.                                   *)
(*                                                                         *)
(* Neither is inductive by itself.  That a resumed task finds the counter  *)
(* at zero needs OpenWhenResuming; that a task which parked is in the      *)
(* queue that count_down() takes, or in somebody's batch, needs            *)
(* NodeLifetime and SuspendedInWait; that none is between its re-check and *)
(* its push_back at that moment needs PushingHoldsLock.                    *)
(*                                                                         *)
(* The second part has the same argument for the atomic conditions, which  *)
(* may be any number of objects on one value: a store makes its client owe *)
(* each of them a notification.  It needs AcSleepers: a sleeper is in the  *)
(* queue of the object it waits on.                                        *)
(***************************************************************************)
EXTENDS Latch, AtomicCondition, WaitQueueProofs

(* Tasks suspend in wait() only, in the latch's own queue. *)
SuspendedInWait ==
    /\ \A t \in Task : susp[t] # "idle" => pc[t] = "return"
    /\ \A q \in Queue \ {"latch"} : /\ m_waiters[q] = <<>>
                                   /\ m_waiters_mutex[q] = NoTask

(* Whoever resumes, or is about to, does it after the counter hit zero. *)
OpenWhenResuming ==
    \A u \in Task : pc[u] = "resume_all" \/ batch[u] # <<>> => m_counter = 0

LatchInv == /\ WQInv /\ TypeOK
            /\ SuspendedInWait /\ OpenWhenResuming
            /\ NoEarlyReturn /\ NoLostWakeup

(* The steps that only move the program counter of a running task.        *)
LocalStep(t) == Wait(t) \/ TryWait(t) \/ Return(t)

(* A latch nobody has used yet. *)
LEMMA InitInv == Init => LatchInv
<1> SUFFICES ASSUME Init PROVE LatchInv
  OBVIOUS
<1>1. WQInv
  BY WQInitInv DEF Init
<1>2. TypeOK
  BY <1>1, LatchAssumption DEF Init, TypeOK, PC, WQInv
<1>3. SuspendedInWait /\ OpenWhenResuming /\ NoEarlyReturn /\ NoLostWakeup
  BY DEF Init, WQInit, SuspendedInWait, OpenWhenResuming, NoEarlyReturn,
     NoLostWakeup
<1> QED BY <1>1, <1>2, <1>3 DEF LatchInv

-----------------------------------------------------------------------------
(* One lemma for each conjunct of the invariant. *)

(* Whatever step is taken, the wait queue keeps its own invariant. *)
LEMMA NextWQInv ==
  ASSUME LatchInv, [Next]_vars
  PROVE  WQInv'
<1> USE DEF LatchInv
<1>0. ASSUME UNCHANGED wqVars PROVE WQInv'
  BY <1>0 DEF wqVars, WQInv, WQTypeOK, NodeLifetime, ListsDisjoint, InSomeList,
     PushingHoldsLock
<1>1. ASSUME NEW t \in Task, NEW update \in 0..Expected, NEW andWait \in BOOLEAN,
             CountDown(t, update, andWait)
      PROVE  WQInv'
  BY <1>0, <1>1 DEF CountDown
<1>2. ASSUME NEW t \in Task, LocalStep(t) PROVE WQInv'
  BY <1>0, <1>2 DEF LocalStep, Wait, TryWait, Return
<1>3. ASSUME NEW t \in Task, WaitIf(t) PROVE WQInv'
  <2>1. CASE ~try_wait /\ Suspend(t)
    BY <1>3, <2>1, SuspendInv DEF WaitIf, Goto
  <2>2. CASE UNCHANGED wqVars
    BY <1>0, <2>2
  <2> QED BY <1>3, <2>1, <2>2 DEF WaitIf
<1>4. ASSUME NEW t \in Task, RecheckWait(t) PROVE WQInv'
  BY <1>4, RecheckInv, LatchAssumption DEF RecheckWait, try_wait
<1>5. ASSUME NEW t \in Task, PushWaiter(t) PROVE WQInv'
  BY <1>5, PushInv, LatchAssumption DEF PushWaiter
<1>6. ASSUME NEW t \in Task, BounceBack(t) PROVE WQInv'
  BY <1>6, BounceInv DEF BounceBack
<1>7. ASSUME NEW t \in Task, ResumeAll(t) PROVE WQInv'
  BY <1>7, SwapAllInv, LatchAssumption DEF ResumeAll, Goto
<1>8. ASSUME NEW t \in Task, ResumeWaiter(t) PROVE WQInv'
  BY <1>8, ResumeNextInv DEF ResumeWaiter
<1>9. CASE UNCHANGED vars
  BY <1>0, <1>9 DEF vars, wqVars
<1> QED BY <1>1, <1>2, <1>3, <1>4, <1>5, <1>6, <1>7, <1>8, <1>9
        DEF Next, Step, LocalStep

(* The counter stays between zero and its first value. *)
LEMMA NextTypeOK ==
  ASSUME LatchInv, [Next]_vars
  PROVE  TypeOK'
<1> USE DEF LatchInv, TypeOK
<1>1. WQTypeOK'
  BY NextWQInv DEF WQInv
<1>2. ASSUME NEW t \in Task, NEW update \in 0..Expected, NEW andWait \in BOOLEAN,
             CountDown(t, update, andWait)
      PROVE  m_counter' \in 0..Expected
  BY <1>2, LatchAssumption DEF CountDown
<1>3. m_counter' \in 0..Expected
  BY <1>2 DEF Next, Step, ResumeAll, Wait, TryWait, WaitIf, RecheckWait,
     PushWaiter, BounceBack, Return, ResumeWaiter, vars
<1>4. pc' \in [Task -> PC] /\ arrives' \in [Task -> BOOLEAN]
  BY DEF PC, Goto, Next, Step, CountDown, ResumeAll, Wait, TryWait, WaitIf,
     RecheckWait, PushWaiter, BounceBack, Return, ResumeWaiter, vars
<1> QED BY <1>1, <1>3, <1>4

(* A task suspends only in wait(), and stays there until it is resumed. *)
LEMMA NextSuspendedInWait ==
  ASSUME LatchInv, [Next]_vars
  PROVE  SuspendedInWait'
<1> USE DEF LatchInv, TypeOK, WQTypeOK
<1>1. \A u \in Task : susp'[u] # "idle" => pc'[u] = "return"
  <2>1. ASSUME NEW t \in Task, NEW update \in 0..Expected,
               NEW andWait \in BOOLEAN, CountDown(t, update, andWait)
        PROVE  \A u \in Task : susp'[u] # "idle" => pc'[u] = "return"
    BY <2>1 DEF CountDown, Goto, Running, wqVars, SuspendedInWait
  <2>2. ASSUME NEW t \in Task, LocalStep(t) \/ ResumeAll(t)
        PROVE  \A u \in Task : susp'[u] # "idle" => pc'[u] = "return"
    BY <2>2 DEF LocalStep, Wait, TryWait, Return, ResumeAll, SwapAll, Goto,
       Running, wqVars, SuspendedInWait
  <2>3. ASSUME NEW t \in Task, WaitIf(t)
        PROVE  \A u \in Task : susp'[u] # "idle" => pc'[u] = "return"
    BY <2>3 DEF WaitIf, Suspend, Goto, Running, wqVars, SuspendedInWait
  <2>4. ASSUME NEW t \in Task, RecheckWait(t) \/ PushWaiter(t) \/ BounceBack(t)
        PROVE  \A u \in Task : susp'[u] # "idle" => pc'[u] = "return"
    BY <2>4 DEF RecheckWait, PushWaiter, BounceBack, Recheck, Push, Bounce,
       SuspendedInWait
  <2>5. ASSUME NEW t \in Task, ResumeWaiter(t)
        PROVE  \A u \in Task : susp'[u] # "idle" => pc'[u] = "return"
    BY <2>5, ResumeNextInv DEF ResumeWaiter, ResumeNext, SuspendedInWait
  <2>6. CASE UNCHANGED vars
    BY <2>6 DEF vars, SuspendedInWait
  <2> QED BY <2>1, <2>2, <2>3, <2>4, <2>5, <2>6 DEF Next, Step, LocalStep
<1>2. \A q \in Queue \ {"latch"} : /\ m_waiters'[q] = m_waiters[q]
                                  /\ m_waiters_mutex'[q] = m_waiters_mutex[q]
  BY LatchAssumption DEF Next, Step, vars, wqVars, CountDown, Wait, TryWait,
     WaitIf, Suspend, RecheckWait, Recheck, PushWaiter, Push, BounceBack, Bounce,
     Return, ResumeAll, SwapAll, ResumeWaiter, ResumeNext
<1> QED BY <1>1, <1>2 DEF SuspendedInWait

(* Only the task that sees zero takes the queue, and zero is for good. *)
LEMMA NextOpenWhenResuming ==
  ASSUME LatchInv, [Next]_vars
  PROVE  OpenWhenResuming'
<1> USE DEF LatchInv, TypeOK, WQTypeOK, OpenWhenResuming
<1>1. ASSUME NEW t \in Task, NEW update \in 0..Expected, NEW andWait \in BOOLEAN,
             CountDown(t, update, andWait)
      PROVE  OpenWhenResuming'
  BY <1>1, LatchAssumption DEF CountDown, Goto, wqVars
<1>2. ASSUME NEW t \in Task, LocalStep(t) PROVE OpenWhenResuming'
  BY <1>2 DEF LocalStep, Wait, TryWait, Return, Goto, wqVars
<1>3. ASSUME NEW t \in Task, WaitIf(t) PROVE OpenWhenResuming'
  BY <1>3 DEF WaitIf, Suspend, Goto, wqVars
<1>4. ASSUME NEW t \in Task, RecheckWait(t) \/ PushWaiter(t) \/ BounceBack(t)
      PROVE  OpenWhenResuming'
  BY <1>4 DEF RecheckWait, PushWaiter, BounceBack, Recheck, Push, Bounce
<1>5. ASSUME NEW t \in Task, ResumeAll(t) PROVE OpenWhenResuming'
  BY <1>5 DEF ResumeAll, SwapAll, Goto
<1>6. ASSUME NEW t \in Task, ResumeWaiter(t) PROVE OpenWhenResuming'
  BY <1>6 DEF ResumeWaiter, ResumeNext
<1>7. CASE UNCHANGED vars
  BY <1>7 DEF vars
<1> QED BY <1>1, <1>2, <1>3, <1>4, <1>5, <1>6, <1>7 DEF Next, Step, LocalStep

(* Every way to the end of wait() passes a look at a counter of zero, the *)
(* waiter's own or the resumer's.                                         *)
LEMMA NextNoEarlyReturn ==
  ASSUME LatchInv, [Next]_vars
  PROVE  NoEarlyReturn'
<1> USE DEF LatchInv, TypeOK, WQTypeOK, NoEarlyReturn
<1>1. ASSUME NEW t \in Task, NEW update \in 0..Expected, NEW andWait \in BOOLEAN,
             CountDown(t, update, andWait)
      PROVE  NoEarlyReturn'
  BY <1>1, LatchAssumption DEF CountDown, Goto, wqVars
<1>2. ASSUME NEW t \in Task, LocalStep(t) PROVE NoEarlyReturn'
  BY <1>2 DEF LocalStep, Wait, TryWait, Return, Goto, wqVars, try_wait
<1>3. ASSUME NEW t \in Task, WaitIf(t) PROVE NoEarlyReturn'
  BY <1>3 DEF WaitIf, Suspend, Goto, wqVars, try_wait
<1>4. ASSUME NEW t \in Task, RecheckWait(t) PROVE NoEarlyReturn'
  BY <1>4 DEF RecheckWait, Recheck, try_wait
<1>5. ASSUME NEW t \in Task, PushWaiter(t) \/ BounceBack(t) PROVE NoEarlyReturn'
  BY <1>5 DEF PushWaiter, BounceBack, Push, Bounce
<1>6. ASSUME NEW t \in Task, ResumeAll(t) PROVE NoEarlyReturn'
  BY <1>6 DEF ResumeAll, SwapAll, Goto
<1>7. ASSUME NEW t \in Task, ResumeWaiter(t) PROVE NoEarlyReturn'
  BY <1>7 DEF ResumeWaiter, ResumeNext, OpenWhenResuming
<1>8. CASE UNCHANGED vars
  BY <1>8 DEF vars
<1> QED BY <1>1, <1>2, <1>3, <1>4, <1>5, <1>6, <1>7, <1>8
        DEF Next, Step, LocalStep

(* The task at "resume_all" finds every sleeper in the queue, unless it is *)
(* in a batch already.                                                     *)
LEMMA NextNoLostWakeup ==
  ASSUME LatchInv, [Next]_vars
  PROVE  NoLostWakeup'
<1> USE DEF LatchInv, TypeOK, WQTypeOK
<1>1. ASSUME NEW t \in Task, NEW update \in 0..Expected, NEW andWait \in BOOLEAN,
             CountDown(t, update, andWait)
      PROVE  NoLostWakeup'
  <2>1. CASE m_counter = update
    BY <1>1, <2>1 DEF CountDown, Goto, NoLostWakeup
  <2>2. CASE m_counter # update
    BY <1>1, <2>2, LatchAssumption DEF CountDown, NoLostWakeup
  <2> QED BY <2>1, <2>2
<1>2. ASSUME NEW t \in Task, LocalStep(t) PROVE NoLostWakeup'
  BY <1>2 DEF LocalStep, Wait, TryWait, Return, Goto, wqVars, NoLostWakeup
<1>3. ASSUME NEW t \in Task, WaitIf(t) PROVE NoLostWakeup'
  BY <1>3 DEF WaitIf, Suspend, Goto, wqVars, NoLostWakeup
<1>4. ASSUME NEW t \in Task, RecheckWait(t) PROVE NoLostWakeup'
  BY <1>4 DEF RecheckWait, Recheck, try_wait, NoLostWakeup
<1>5. ASSUME NEW t \in Task, PushWaiter(t) \/ BounceBack(t) PROVE NoLostWakeup'
  BY <1>5 DEF PushWaiter, BounceBack, Push, Bounce, NoLostWakeup
<1>6. ASSUME NEW t \in Task, ResumeAll(t) PROVE NoLostWakeup'
  <2> SUFFICES ASSUME NEW w \in Task, susp'[w] \in {"push", "parked"}
               PROVE  \E u \in Task : w \in Range(batch'[u])
    BY DEF NoLostWakeup
  <2>1. /\ m_waiters_mutex["latch"] = NoTask
        /\ susp' = susp
        /\ batch[t] = <<>>
        /\ batch'[t] = m_waiters["latch"]
        /\ \A u \in Task : u # t => batch'[u] = batch[u]
    BY <1>6 DEF ResumeAll, SwapAll, Goto, Running
  <2>2. susp[w] = "parked"
    <3>1. \A q \in Queue : m_waiters_mutex[q] = NoTask
      BY <2>1 DEF SuspendedInWait
    <3> QED BY <2>1, <3>1, NoTaskAssumption DEF WQInv, PushingHoldsLock
  <2>3. \/ \E q \in Queue : w \in Range(m_waiters[q])
        \/ \E u \in Task : w \in Range(batch[u])
    BY <2>2 DEF WQInv, NodeLifetime, InSomeList
  <2>4. \A q \in Queue \ {"latch"} : Range(m_waiters[q]) = {}
    BY RangeEmpty DEF SuspendedInWait
  <2>5. Range(batch[t]) = {}
    BY <2>1, RangeEmpty
  <2> QED BY <2>1, <2>3, <2>4, <2>5
<1>7. ASSUME NEW t \in Task, ResumeWaiter(t) PROVE NoLostWakeup'
  <2> SUFFICES ASSUME NEW w \in Task, susp'[w] \in {"push", "parked"},
                      m_counter' = 0
               PROVE  \E u \in Task : pc'[u] = "resume_all"
                                       \/ w \in Range(batch'[u])
    BY DEF NoLostWakeup
  <2>1. /\ batch[t] \in Seq(Task) /\ batch[t] # <<>>
        /\ batch'[t] = Tail(batch[t])
        /\ \A u \in Task : u # t => batch'[u] = batch[u]
        /\ susp' = [susp EXCEPT ![Head(batch[t])] = "idle"]
        /\ pc' = pc /\ m_counter' = m_counter
    BY <1>7 DEF ResumeWaiter, ResumeNext
  <2>2. w # Head(batch[t]) /\ susp[w] \in {"push", "parked"}
    BY <2>1
  <2>3. PICK u \in Task : pc[u] = "resume_all" \/ w \in Range(batch[u])
    BY <2>1, <2>2 DEF NoLostWakeup
  <2>4. Range(batch[t]) = Range(Tail(batch[t])) \cup {Head(batch[t])}
    BY <2>1, RangeHeadTail
  <2> QED BY <2>1, <2>2, <2>3, <2>4
<1>8. CASE UNCHANGED vars
  BY <1>8 DEF vars, NoLostWakeup
<1> QED BY <1>1, <1>2, <1>3, <1>4, <1>5, <1>6, <1>7, <1>8
        DEF Next, Step, LocalStep

-----------------------------------------------------------------------------
(* The theorems. *)

(* The conjunction is inductive. *)
THEOREM LatchInvariant == Spec => []LatchInv
<1>1. Init => LatchInv
  BY InitInv
<1>2. LatchInv /\ [Next]_vars => LatchInv'
  BY NextWQInv, NextTypeOK, NextSuspendedInWait, NextOpenWhenResuming,
     NextNoEarlyReturn, NextNoLostWakeup DEF LatchInv
<1> QED BY <1>1, <1>2, PTL DEF Spec

(* The counter stays within its range, whatever the updates                *)
(* (latch.cpp:29-36), and the rest of the state keeps its type.            *)
THEOREM LatchTypeOK == Spec => []TypeOK
<1>1. LatchInv => TypeOK
  BY DEF LatchInv
<1> QED BY <1>1, LatchInvariant, PTL

(* The assertion at the end of wait() (latch.cpp:44-45). *)
THEOREM LatchNoEarlyReturn == Spec => []NoEarlyReturn
<1>1. LatchInv => NoEarlyReturn
  BY DEF LatchInv
<1> QED BY <1>1, LatchInvariant, PTL

(* No task sleeps on an open latch unless somebody is about to resume it   *)
(* (latch.cpp:29-41).                                                      *)
THEOREM LatchNoLostWakeup == Spec => []NoLostWakeup
<1>1. LatchInv => NoLostWakeup
  BY DEF LatchInv
<1> QED BY <1>1, LatchInvariant, PTL

(* A waiter's node is linked, once, exactly while its task is parked       *)
(* (wait_queue.hpp:91-94).                                                 *)
THEOREM LatchNodeLifetime == Spec => []NodeLifetime
<1>1. LatchInv => NodeLifetime
  BY DEF LatchInv, WQInv
<1> QED BY <1>1, LatchInvariant, PTL

-----------------------------------------------------------------------------
(* Atomic conditions: no change of the value is missed. *)

(* A suspended task is in wait(), and its node goes to the queue of the    *)
(* object it waits on: whoever owes that object a notification finds it.   *)
AcSleepers ==
    /\ \A t \in Task : susp[t] # "idle" => call[t] = "wait"
    /\ \A t \in Task, q \in Queue :
         t \in Range(m_waiters[q]) \/ m_waiters_mutex[q] = t => args[t][1] = q

(* ChangeNotMissed without the condition that the sleeper is in wait(),    *)
(* which AcSleepers gives.                                                 *)
Attended ==
    \A t \in Task :
      susp[t] \in {"push", "parked"} /\ m_value # Old(t)
        => \E u \in Task : args[t][1] \in owes[u] \/ t \in Range(batch[u])

AcInv == WQInv /\ AcTypeOK /\ AcSleepers /\ Attended

(* The calls of wait(), and the steps of its loop that read the value. *)
AcLocal(t) == \/ \E q \in Queue, old \in Value : wait(t, q, old)
              \/ TestReturns(t) \/ TestFails(t)

(* An object nobody has waited on yet. *)
LEMMA AcInitInv == AcInit => AcInv
<1> SUFFICES ASSUME AcInit PROVE AcInv
  OBVIOUS
<1>1. WQInv
  BY WQInitInv DEF AcInit
<1>2. AcTypeOK
  BY <1>1 DEF AcInit, AcTypeOK, WQInv
<1>3. AcSleepers /\ Attended
  BY RangeEmpty, NoTaskAssumption DEF AcInit, WQInit, AcSleepers, Attended
<1> QED BY <1>1, <1>2, <1>3 DEF AcInv

(* A task in wait() has an object and a value that it waits on. *)
LEMMA AcArgs ==
  ASSUME AcTypeOK, NEW t \in Task, call[t] # "out"
  PROVE  args[t][1] \in Queue /\ args[t][2] \in Value
<1>1. args[t] \in Queue \X Value
  BY DEF AcTypeOK
<1> QED BY <1>1

(* Whatever step is taken, the wait queues keep their own invariant. *)
LEMMA AcWQInv ==
  ASSUME AcInv, [AcNext]_acVars
  PROVE  WQInv'
<1> USE DEF AcInv
<1>0. ASSUME UNCHANGED wqVars PROVE WQInv'
  BY <1>0 DEF wqVars, WQInv, WQTypeOK, NodeLifetime, ListsDisjoint, InSomeList,
     PushingHoldsLock
<1>1. ASSUME NEW t \in Task, NEW v \in Value, Store(t, v) PROVE WQInv'
  BY <1>0, <1>1 DEF Store
<1>2. ASSUME NEW t \in Task, AcLocal(t) PROVE WQInv'
  BY <1>0, <1>2 DEF AcLocal, wait, TestReturns, TestFails
<1>3. ASSUME NEW t \in Task, WaitIfOld(t) PROVE WQInv'
  BY <1>0, <1>3, SuspendInv DEF WaitIfOld
<1>4. ASSUME NEW t \in Task, RecheckOld(t) PROVE WQInv'
  <2>1. args[t][1] \in Queue /\ (m_value = Old(t)) \in BOOLEAN
    BY <1>4, AcArgs DEF RecheckOld
  <2> QED BY <1>4, <2>1, RecheckInv DEF RecheckOld
<1>5. ASSUME NEW t \in Task, PushNode(t) PROVE WQInv'
  BY <1>5, AcArgs, PushInv DEF PushNode
<1>6. ASSUME NEW t \in Task, BounceNode(t) PROVE WQInv'
  BY <1>6, BounceInv DEF BounceNode
<1>7. ASSUME NEW t \in Task, NEW q \in Queue, NotifyOne(t, q) PROVE WQInv'
  BY <1>7, PopNInv DEF NotifyOne, PopOne, Free
<1>8. ASSUME NEW t \in Task, NEW q \in Queue, NotifyAll(t, q) PROVE WQInv'
  BY <1>8, SwapAllInv DEF NotifyAll, Free
<1>9. ASSUME NEW t \in Task, ResumeNotified(t) PROVE WQInv'
  BY <1>9, ResumeNextInv DEF ResumeNotified
<1>10. CASE UNCHANGED acVars
  BY <1>0, <1>10 DEF acVars, wqVars
<1>11. \A t \in Task : owes[t] \subseteq Queue
  BY DEF AcTypeOK
<1> QED BY <1>1, <1>2, <1>3, <1>4, <1>5, <1>6, <1>7, <1>8, <1>9, <1>10, <1>11
        DEF AcNext, AcStep, AcLocal

(* A task in no call waits on nothing, and nobody owes what does not exist. *)
LEMMA AcNextType ==
  ASSUME AcInv, [AcNext]_acVars
  PROVE  AcTypeOK'
<1> USE DEF AcInv, AcTypeOK
<1>1. WQTypeOK'
  BY AcWQInv DEF WQInv
<1>2. ASSUME NEW t \in Task, NEW v \in Value, Store(t, v) PROVE AcTypeOK'
  BY <1>1, <1>2 DEF Store
<1>3. ASSUME NEW t \in Task, AcLocal(t) PROVE AcTypeOK'
  <2>1. ASSUME NEW q \in Queue, NEW old \in Value, wait(t, q, old)
        PROVE  AcTypeOK'
    <3>1. <<q, old>> # NoArgs
      BY DEF NoArgs
    <3> QED BY <1>1, <2>1, <3>1 DEF wait
  <2>2. CASE TestReturns(t) \/ TestFails(t)
    BY <1>1, <2>2 DEF TestReturns, TestFails
  <2> QED BY <1>3, <2>1, <2>2 DEF AcLocal
<1>4. ASSUME NEW t \in Task, WaitIfOld(t) PROVE AcTypeOK'
  BY <1>1, <1>4 DEF WaitIfOld
<1>5. ASSUME NEW t \in Task, NEW q \in Queue, NotifyAll(t, q) PROVE AcTypeOK'
  BY <1>1, <1>5 DEF NotifyAll
<1>6. ASSUME UNCHANGED ownVars PROVE AcTypeOK'
  BY <1>1, <1>6 DEF ownVars
<1> QED BY <1>2, <1>3, <1>4, <1>5, <1>6
        DEF AcNext, AcStep, AcLocal, NotifyOne, ResumeNotified, RecheckOld,
            PushNode, BounceNode, acVars, ownVars

(* A node goes to the queue of its own task's object and stays there until *)
(* a notification takes it.                                                *)
LEMMA AcNextSleepers ==
  ASSUME AcInv, [AcNext]_acVars
  PROVE  AcSleepers'
<1> USE DEF AcInv, AcTypeOK, WQTypeOK
<1>0. ASSUME NEW t \in Task, Running(t), UNCHANGED wqVars,
             \A u \in Task : u # t => call'[u] = call[u] /\ args'[u] = args[u]
      PROVE  AcSleepers'
  <2>1. susp[t] = "idle"
    BY <1>0 DEF Running
  <2>2. /\ \A q \in Queue : t \notin Range(m_waiters[q])
        /\ \A q \in Queue : m_waiters_mutex[q] # t
    BY <2>1, UnparkedUnlisted, NoTaskAssumption DEF WQInv, PushingHoldsLock
  <2>3. ASSUME NEW u \in Task, susp'[u] # "idle" PROVE call'[u] = "wait"
    BY <1>0, <2>1, <2>3 DEF AcSleepers, wqVars
  <2>4. ASSUME NEW u \in Task, NEW q \in Queue,
               u \in Range(m_waiters'[q]) \/ m_waiters_mutex'[q] = u
        PROVE  args'[u][1] = q
    <3>1. u # t /\ args'[u] = args[u]
      BY <1>0, <2>2, <2>4 DEF wqVars
    <3> QED BY <1>0, <2>4, <3>1 DEF AcSleepers, wqVars
  <2> QED BY <2>3, <2>4 DEF AcSleepers
<1>1. ASSUME NEW t \in Task, NEW v \in Value, Store(t, v) PROVE AcSleepers'
  BY <1>0, <1>1 DEF Store, Free
<1>2. ASSUME NEW t \in Task, AcLocal(t) PROVE AcSleepers'
  BY <1>0, <1>2 DEF AcLocal, wait, TestReturns, TestFails, Free
<1>3. ASSUME NEW t \in Task, WaitIfOld(t) PROVE AcSleepers'
  <2>1. CASE Suspend(t)
    BY <1>3, <2>1 DEF WaitIfOld, Suspend, AcSleepers
  <2>2. CASE UNCHANGED wqVars
    BY <1>0, <1>3, <2>2 DEF WaitIfOld
  <2> QED BY <1>3, <2>1, <2>2 DEF WaitIfOld
<1>4. ASSUME NEW t \in Task, RecheckOld(t) PROVE AcSleepers'
  BY <1>4, AcArgs DEF RecheckOld, Recheck, ownVars, AcSleepers
<1>5. ASSUME NEW t \in Task, PushNode(t) PROVE AcSleepers'
  <2>1. PICK q \in Queue : q = args[t][1]
    BY <1>5, AcArgs DEF PushNode
  <2>2. /\ Range(m_waiters'[q]) = Range(m_waiters[q]) \cup {t}
        /\ \A p \in Queue : p # q => m_waiters'[p] = m_waiters[p]
        /\ \A u \in Task : u # t => susp'[u] = susp[u]
    BY <1>5, <2>1, PushEffect DEF PushNode
  <2>3. /\ m_waiters_mutex'[q] = NoTask
        /\ \A p \in Queue : p # q => m_waiters_mutex'[p] = m_waiters_mutex[p]
    BY <1>5, <2>1 DEF PushNode, Push
  <2>4. call' = call /\ args' = args /\ call[t] = "wait"
    BY <1>5 DEF PushNode, ownVars
  <2>5. ASSUME NEW u \in Task, susp'[u] # "idle" PROVE call'[u] = "wait"
    BY <2>2, <2>4, <2>5 DEF AcSleepers
  <2>6. ASSUME NEW u \in Task, NEW p \in Queue,
               u \in Range(m_waiters'[p]) \/ m_waiters_mutex'[p] = u
        PROVE  args'[u][1] = p
    <3>1. CASE p = q
      BY <2>1, <2>2, <2>3, <2>4, <2>6, <3>1, NoTaskAssumption DEF AcSleepers
    <3>2. CASE p # q
      BY <2>2, <2>3, <2>4, <2>6, <3>2 DEF AcSleepers
    <3> QED BY <3>1, <3>2
  <2> QED BY <2>5, <2>6 DEF AcSleepers
<1>6. ASSUME NEW t \in Task, BounceNode(t) PROVE AcSleepers'
  BY <1>6 DEF BounceNode, Bounce, ownVars, AcSleepers
<1>7. ASSUME NEW t \in Task, NEW q \in Queue, NotifyOne(t, q) PROVE AcSleepers'
  <2>1. /\ Range(m_waiters[q]) = Range(batch'[t]) \cup Range(m_waiters'[q])
        /\ \A p \in Queue : p # q => m_waiters'[p] = m_waiters[p]
        /\ susp' = susp
    BY <1>7, PopNEffect DEF NotifyOne, PopOne
  <2> QED BY <1>7, <2>1 DEF NotifyOne, PopOne, PopN, ownVars, AcSleepers
<1>8. ASSUME NEW t \in Task, NEW q \in Queue, NotifyAll(t, q) PROVE AcSleepers'
  <2>1. /\ Range(m_waiters'[q]) = {}
        /\ \A p \in Queue : p # q => m_waiters'[p] = m_waiters[p]
        /\ susp' = susp
    BY <1>8, SwapAllEffect DEF NotifyAll
  <2> QED BY <1>8, <2>1 DEF NotifyAll, SwapAll, AcSleepers
<1>9. ASSUME NEW t \in Task, ResumeNotified(t) PROVE AcSleepers'
  <2>1. \A u \in Task : susp'[u] = susp[u] \/ susp'[u] = "idle"
    BY <1>9, ResumeNextEffect DEF ResumeNotified
  <2> QED BY <1>9, <2>1 DEF ResumeNotified, ResumeNext, ownVars, AcSleepers
<1>10. CASE UNCHANGED acVars
  BY <1>10 DEF acVars, AcSleepers
<1>11. \A t \in Task : owes[t] \subseteq Queue
  OBVIOUS
<1> QED BY <1>1, <1>2, <1>3, <1>4, <1>5, <1>6, <1>7, <1>8, <1>9, <1>10, <1>11
        DEF AcNext, AcStep, AcLocal

(* A store makes its client answerable for every object on the value, and  *)
(* its notify_all() finds every sleeper of its object in the queue, unless *)
(* it is in a batch already.                                               *)
LEMMA AcNextNotMissed ==
  ASSUME AcInv, [AcNext]_acVars
  PROVE  Attended'
<1> USE DEF AcInv, AcTypeOK, WQTypeOK
<1>1. ASSUME NEW t \in Task, NEW v \in Value, Store(t, v) PROVE Attended'
  <2> SUFFICES ASSUME NEW w \in Task, susp'[w] # "idle"
               PROVE  args'[w][1] \in owes'[t]
    BY DEF Attended
  <2>1. susp[w] # "idle" /\ args' = args /\ owes'[t] = Queue
    BY <1>1 DEF Store, wqVars
  <2> QED BY <2>1, AcArgs DEF AcSleepers
<1>2. ASSUME NEW t \in Task, AcLocal(t) PROVE Attended'
  <2>1. /\ susp[t] = "idle" /\ UNCHANGED <<m_value, owes, wqVars>>
        /\ \A u \in Task : u # t => args'[u] = args[u]
    BY <1>2 DEF AcLocal, wait, TestReturns, TestFails, Free, Running
  <2> QED BY <2>1 DEF Attended, Old, wqVars
<1>3. ASSUME NEW t \in Task, WaitIfOld(t) PROVE Attended'
  BY <1>3 DEF WaitIfOld, Suspend, Attended, Old, wqVars
<1>4. ASSUME NEW t \in Task, RecheckOld(t) PROVE Attended'
  BY <1>4 DEF RecheckOld, Recheck, ownVars, Attended, Old
<1>5. ASSUME NEW t \in Task, PushNode(t) \/ BounceNode(t) PROVE Attended'
  BY <1>5 DEF PushNode, Push, BounceNode, Bounce, ownVars, Attended, Old
<1>6. ASSUME NEW t \in Task, NEW q \in Queue, NotifyOne(t, q)
      PROVE  Attended'
  <2>1. /\ \A u \in Task : u # t => batch'[u] = batch[u]
        /\ susp' = susp
    BY <1>6, PopNEffect DEF NotifyOne, PopOne
  <2>2. Range(batch[t]) = {}
    BY <1>6, RangeEmpty DEF NotifyOne, Free, Running
  <2> QED BY <1>6, <2>1, <2>2 DEF NotifyOne, ownVars, Attended, Old
<1>7. ASSUME NEW t \in Task, NEW q \in Queue, NotifyAll(t, q)
      PROVE  Attended'
  <2> SUFFICES ASSUME NEW w \in Task, susp'[w] \in {"push", "parked"},
                      m_value' # Old(w)'
               PROVE  \E u \in Task : \/ args'[w][1] \in owes'[u]
                                     \/ w \in Range(batch'[u])
    BY DEF Attended
  <2>1. /\ batch'[t] = m_waiters[q] /\ m_waiters_mutex[q] = NoTask
        /\ \A u \in Task : u # t => batch'[u] = batch[u]
        /\ susp' = susp /\ m_value' = m_value /\ args' = args
        /\ owes' = [owes EXCEPT ![t] = owes[t] \ {q}]
    BY <1>7, SwapAllEffect DEF NotifyAll, SwapAll
  <2>2. Range(batch[t]) = {}
    BY <1>7, RangeEmpty DEF NotifyAll, Free, Running
  <2>3. PICK u \in Task : args[w][1] \in owes[u] \/ w \in Range(batch[u])
    BY <2>1 DEF Attended, Old
  <2>4. CASE w \in Range(batch[u])
    BY <2>1, <2>2, <2>4
  <2>5. CASE args[w][1] \in owes[u] /\ args[w][1] # q
    BY <2>1, <2>5
  <2>6. CASE args[w][1] = q
    <3>1. susp[w] # "push"
      BY <2>1, <2>6, NoTaskAssumption DEF WQInv, PushingHoldsLock, AcSleepers
    <3>2. \/ \E p \in Queue : w \in Range(m_waiters[p])
          \/ \E x \in Task : w \in Range(batch[x])
      BY <2>1, <3>1 DEF WQInv, NodeLifetime, InSomeList
    <3>3. w \in Range(m_waiters[q]) \/ \E x \in Task : w \in Range(batch[x])
      BY <2>6, <3>2 DEF AcSleepers
    <3> QED BY <2>1, <2>2, <3>3
  <2> QED BY <2>3, <2>4, <2>5, <2>6
<1>8. ASSUME NEW t \in Task, ResumeNotified(t) PROVE Attended'
  <2>1. PICK h \in Task :
          /\ h \in Range(batch[t]) /\ susp[h] = "parked" /\ susp'[h] = "idle"
          /\ Range(batch'[t]) = Range(batch[t]) \ {h}
          /\ \A v \in Task : v # t => batch'[v] = batch[v]
          /\ \A v \in Task : v # t => h \notin Range(batch[v])
          /\ \A v \in Task : v # h => susp'[v] = susp[v]
    <3>1. WQInv /\ ResumeNext(t)
      BY <1>8 DEF ResumeNotified
    <3> HIDE DEF AcInv, AcTypeOK, WQTypeOK
    <3> QED BY <3>1, ResumeNextEffect
  <2> QED BY <1>8, <2>1 DEF ResumeNotified, ownVars, Attended, Old
<1>9. CASE UNCHANGED acVars
  BY <1>9 DEF acVars, Attended, Old
<1>10. \A t \in Task : owes[t] \subseteq Queue
  OBVIOUS
<1> QED BY <1>1, <1>2, <1>3, <1>4, <1>5, <1>6, <1>7, <1>8, <1>9, <1>10
        DEF AcNext, AcStep, AcLocal

(* The conjunction is inductive. *)
THEOREM AcInvariant == AcSpec => []AcInv
<1>1. AcInit => AcInv
  BY AcInitInv
<1>2. AcInv /\ [AcNext]_acVars => AcInv'
  BY AcWQInv, AcNextType, AcNextSleepers, AcNextNotMissed DEF AcInv
<1> QED BY <1>1, <1>2, PTL DEF AcSpec

(* A task in no call waits on no object, and what a client owes are        *)
(* objects on the value.                                                   *)
THEOREM AcTypes == AcSpec => []AcTypeOK
<1>1. AcInv => AcTypeOK
  BY DEF AcInv
<1> QED BY <1>1, AcInvariant, PTL

(* A task sleeps, or is about to, on a value that is gone only while a     *)
(* client still has to notify its object or is about to resume it          *)
(* (atomic_condition.hpp:203-216), for any values and any number of        *)
(* objects on the value.                                                   *)
THEOREM AcChangeNotMissed == AcSpec => []ChangeNotMissed
<1>1. AcInv => ChangeNotMissed
  BY DEF AcInv, Attended, ChangeNotMissed
<1> QED BY <1>1, AcInvariant, PTL
=============================================================================
