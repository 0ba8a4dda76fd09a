------------------------------ MODULE MutexProofs ------------------------------
(***************************************************************************)
(* The mutex, for any number of tasks: mutual exclusion, no lost wake-up,  *)
(* the lifetime of the waiters' nodes, and the implementation of the       *)
(* abstract lock; and what scoped_lock adds to it: it uses the mutex as    *)
(* the theorems about the mutex assume, so they hold for it as well, and   *)
(* its pointer tells whether its task owns the mutex.                      *)
(*                                                                         *)
(* NoLostWakeup is not inductive by itself.  That the task which unlock()  *)
(* pops is on its way to the flag needs SuspendedInLock; that a parked     *)
(* task is in the queue which resume_one reads, or in the batch of a task  *)
(* about to resume it, needs NodeLifetime; that resume_one cannot read the *)
(* queue between a re-check and its push_back needs PushingHoldsLock.      *)
(*                                                                         *)
(* Last comes condition_variable, which composes the mutex with a second   *)
(* queue.  That the lock stays sound under it needs CvSleepers: which of   *)
(* the two queues a suspended task goes to, so that a notification never   *)
(* stands in for a wake-up of lock() nor the other way round.  That only a *)
(* task which missed its notification sleeps on a set flag (Told) is about *)
(* every task past its unlock(), on the way to the queue or in it.         *)
(***************************************************************************)
EXTENDS ScopedLock, MCConditionVariable, WaitQueueProofs

MutexInv == WQInv /\ TypeOK /\ OwnedExclusively /\ SuspendedInLock /\ NoLostWakeup

(* A mutex nobody has used yet.                                            *)
LEMMA InitInv == Init => MutexInv
<1> SUFFICES ASSUME Init PROVE MutexInv
  OBVIOUS
<1>1. WQInv
  BY WQInitInv DEF Init
<1>2. TypeOK
  BY <1>1 DEF Init, TypeOK, PC, WQInv
<1>3. OwnedExclusively
  BY DEF Init, OwnedExclusively, MutualExclusion, LockedIffOwned
<1>4. SuspendedInLock /\ NoLostWakeup
  BY DEF Init, WQInit, SuspendedInLock, NoLostWakeup
<1> QED BY <1>1, <1>2, <1>3, <1>4 DEF MutexInv

-----------------------------------------------------------------------------
(* One lemma for each conjunct of the invariant. *)

(* Whatever step is taken, the wait queue keeps its own invariant.         *)
LEMMA NextWQInv ==
  ASSUME MutexInv, [Next]_vars
  PROVE  WQInv'
<1> USE DEF MutexInv
<1>0. ASSUME UNCHANGED wqVars PROVE WQInv'
  BY <1>0 DEF wqVars, WQInv, WQTypeOK, NodeLifetime, ListsDisjoint, InSomeList,
     PushingHoldsLock
<1>1. ASSUME NEW t \in Task,
             Lock(t) \/ TryLock(t) \/ TryLockFails(t) \/ Unlock(t)
      PROVE  WQInv'
  BY <1>0, <1>1 DEF Lock, TryLock, TryLockFails, Unlock, wqVars
<1>2. ASSUME NEW t \in Task, WaitIf(t) PROVE WQInv'
  <2>1. CASE m_locked /\ Suspend(t)
    BY <1>2, <2>1, SuspendInv DEF WaitIf
  <2>2. CASE UNCHANGED wqVars
    BY <1>0, <2>2
  <2> QED BY <1>2, <2>1, <2>2 DEF WaitIf
<1>3. ASSUME NEW t \in Task, RecheckLocked(t) PROVE WQInv'
  BY <1>3, RecheckInv, MutexQueueAssumption DEF RecheckLocked, TypeOK
<1>4. ASSUME NEW t \in Task, PushWaiter(t) PROVE WQInv'
  BY <1>4, PushInv, MutexQueueAssumption DEF PushWaiter
<1>5. ASSUME NEW t \in Task, BounceBack(t) PROVE WQInv'
  BY <1>5, BounceInv DEF BounceBack
<1>6. ASSUME NEW t \in Task, UnlockResumeOne(t) PROVE WQInv'
  BY <1>6, PopNInv, MutexQueueAssumption DEF UnlockResumeOne, PopOne
<1>7. ASSUME NEW t \in Task, ResumeWaiter(t) PROVE WQInv'
  BY <1>7, ResumeNextInv DEF ResumeWaiter
<1>8. CASE UNCHANGED vars
  BY <1>0, <1>8 DEF vars, wqVars
<1> QED BY <1>1, <1>2, <1>3, <1>4, <1>5, <1>6, <1>7, <1>8 DEF Next, Step

(* The types of the flag and of the program counters.                      *)
LEMMA NextTypeOK ==
  ASSUME MutexInv, [Next]_vars
  PROVE  TypeOK'
<1>1. WQTypeOK'
  BY NextWQInv DEF WQInv
<1>2. m_locked' \in BOOLEAN /\ pc' \in [Task -> PC]
  BY DEF MutexInv, TypeOK, PC, Next, Step, Lock, TryLock, TryLockFails, WaitIf,
     RecheckLocked, PushWaiter, BounceBack, Unlock, UnlockResumeOne,
     ResumeWaiter, mutexVars, vars
<1> QED BY <1>1, <1>2 DEF TypeOK

(* The flag is set by the compare-and-swap that makes a task the owner and *)
(* cleared by the owner only.                                              *)
LEMMA NextOwned ==
  ASSUME MutexInv, [Next]_vars
  PROVE  OwnedExclusively'
<1> USE DEF MutexInv, TypeOK, OwnedExclusively, MutualExclusion, LockedIffOwned
<1>1. ASSUME NEW t \in Task, TryLock(t) PROVE OwnedExclusively'
  BY <1>1 DEF TryLock
<1>2. ASSUME NEW t \in Task, Unlock(t) PROVE OwnedExclusively'
  BY <1>2 DEF Unlock
<1>3. ASSUME NEW t \in Task, Lock(t) PROVE OwnedExclusively'
  BY <1>3 DEF Lock
<1>4. ASSUME NEW t \in Task, TryLockFails(t) PROVE OwnedExclusively'
  BY <1>4 DEF TryLockFails
<1>5. ASSUME NEW t \in Task, WaitIf(t) PROVE OwnedExclusively'
  BY <1>5 DEF WaitIf
<1>6. ASSUME NEW t \in Task, UnlockResumeOne(t) PROVE OwnedExclusively'
  BY <1>6 DEF UnlockResumeOne
<1>7. ASSUME UNCHANGED mutexVars PROVE OwnedExclusively'
  BY <1>7 DEF mutexVars
<1> QED BY <1>1, <1>2, <1>3, <1>4, <1>5, <1>6, <1>7 DEF Next, Step,
        RecheckLocked, PushWaiter, BounceBack, ResumeWaiter, vars, mutexVars

(* A task suspends only in lock(), and stays there until it is resumed.    *)
LEMMA NextSuspendedInLock ==
  ASSUME MutexInv, [Next]_vars
  PROVE  SuspendedInLock'
<1> USE DEF MutexInv, TypeOK, WQTypeOK
<1>1. \A t \in Task : susp'[t] # "idle" => pc'[t] = "lock"
  <2>1. ASSUME NEW t \in Task, Lock(t) \/ TryLock(t) \/ TryLockFails(t)
                                       \/ Unlock(t) \/ UnlockResumeOne(t)
        PROVE  \A u \in Task : susp'[u] # "idle" => pc'[u] = "lock"
    BY <2>1 DEF Lock, TryLock, TryLockFails, Unlock, UnlockResumeOne, PopOne,
       PopN, Running, SuspendedInLock
  <2>2. ASSUME NEW t \in Task, WaitIf(t)
        PROVE  \A u \in Task : susp'[u] # "idle" => pc'[u] = "lock"
    BY <2>2 DEF WaitIf, Suspend, wqVars, Running, SuspendedInLock
  <2>3. ASSUME NEW t \in Task,
               RecheckLocked(t) \/ PushWaiter(t) \/ BounceBack(t)
        PROVE  \A u \in Task : susp'[u] # "idle" => pc'[u] = "lock"
    BY <2>3 DEF RecheckLocked, PushWaiter, BounceBack, Recheck, Push, Bounce,
       mutexVars, SuspendedInLock
  <2>4. ASSUME NEW t \in Task, ResumeWaiter(t)
        PROVE  \A u \in Task : susp'[u] # "idle" => pc'[u] = "lock"
    BY <2>4, ResumeNextInv DEF ResumeWaiter, ResumeNext, mutexVars,
       SuspendedInLock
  <2>5. CASE UNCHANGED vars
    BY <2>5 DEF vars, SuspendedInLock
  <2> QED BY <2>1, <2>2, <2>3, <2>4, <2>5 DEF Next, Step
<1>2. \A q \in Queue \ {"mutex"} : /\ m_waiters'[q] = m_waiters[q]
                                  /\ m_waiters_mutex'[q] = m_waiters_mutex[q]
  BY MutexQueueAssumption DEF Next, Step, vars, Lock, TryLock, TryLockFails,
     WaitIf, Suspend, wqVars, RecheckLocked, Recheck, PushWaiter, Push,
     BounceBack, Bounce, Unlock, UnlockResumeOne, PopOne, PopN, ResumeWaiter,
     ResumeNext
<1> QED BY <1>1, <1>2 DEF SuspendedInLock

(* A waker stays one until it sets the flag, pops a waiter into its batch, *)
(* or resumes one, which then is a waker itself.                           *)
LEMMA NextNoLostWakeup ==
  ASSUME MutexInv, [Next]_vars
  PROVE  NoLostWakeup'
<1> USE DEF MutexInv, TypeOK, WQTypeOK
<1>1. ASSUME NEW t \in Task, Lock(t) PROVE NoLostWakeup'
  BY <1>1 DEF Lock, NoLostWakeup, Waker, Running
<1>2. ASSUME NEW t \in Task, TryLock(t) PROVE NoLostWakeup'
  BY <1>2 DEF TryLock, NoLostWakeup
<1>3. ASSUME NEW t \in Task, TryLockFails(t) PROVE NoLostWakeup'
  BY <1>3 DEF TryLockFails, NoLostWakeup
<1>4. ASSUME NEW t \in Task, WaitIf(t) PROVE NoLostWakeup'
  <2>1. CASE m_locked
    BY <1>4, <2>1 DEF WaitIf, NoLostWakeup
  <2>2. CASE ~m_locked
    BY <1>4, <2>2 DEF WaitIf, NoLostWakeup, Waker, wqVars, Running
  <2> QED BY <2>1, <2>2
<1>5. ASSUME NEW t \in Task, RecheckLocked(t) PROVE NoLostWakeup'
  <2>1. CASE m_locked
    BY <1>5, <2>1 DEF RecheckLocked, mutexVars, NoLostWakeup
  <2>2. CASE ~m_locked
    BY <1>5, <2>2 DEF RecheckLocked, Recheck, mutexVars, NoLostWakeup, Waker
  <2> QED BY <2>1, <2>2
<1>6. ASSUME NEW t \in Task, PushWaiter(t) PROVE NoLostWakeup'
  <2>1. \A u \in Task : Waker(u) => Waker(u)'
    BY <1>6 DEF PushWaiter, Push, mutexVars, Waker
  <2> QED BY <1>6, <2>1 DEF PushWaiter, Push, mutexVars, NoLostWakeup
<1>7. ASSUME NEW t \in Task, BounceBack(t) PROVE NoLostWakeup'
  BY <1>7 DEF BounceBack, Bounce, mutexVars, NoLostWakeup, Waker
<1>8. ASSUME NEW t \in Task, Unlock(t) PROVE NoLostWakeup'
  BY <1>8 DEF Unlock, NoLostWakeup, Waker
<1>9. ASSUME NEW t \in Task, UnlockResumeOne(t) PROVE NoLostWakeup'
  <2> SUFFICES ASSUME NEW w \in Task, susp'[w] \in {"push", "parked"}, ~m_locked'
               PROVE  \E u \in Task : Waker(u)'
    BY DEF NoLostWakeup
  <2>1. /\ m_waiters_mutex["mutex"] = NoTask /\ susp' = susp /\ pc'[t] = "out"
        /\ Running(t)
        /\ \A u \in Task : u # t => batch'[u] = batch[u]
        /\ batch'[t] = SubSeq(m_waiters["mutex"], 1,
                             Least(1, Len(m_waiters["mutex"])))
    BY <1>9 DEF UnlockResumeOne, PopOne, PopN
  <2>2. susp[w] = "parked"
    <3>1. \A q \in Queue : m_waiters_mutex[q] = NoTask
      BY <2>1 DEF SuspendedInLock
    <3> QED BY <2>1, <3>1, NoTaskAssumption DEF WQInv, PushingHoldsLock
  <2>3. CASE m_waiters["mutex"] = <<>>
    <3>1. \A q \in Queue : Range(m_waiters[q]) = {}
      BY <2>3, RangeEmpty DEF SuspendedInLock
    <3>2. PICK u \in Task : w \in Range(batch[u])
      BY <2>2, <3>1 DEF WQInv, NodeLifetime, InSomeList
    <3>3. u # t /\ batch[u] # <<>>
      BY <2>1, <3>2, RangeEmpty DEF Running
    <3> QED BY <2>1, <3>3 DEF Waker
  <2>4. CASE m_waiters["mutex"] # <<>>
    <3>1. m_waiters["mutex"] \in Seq(Task)
      BY MutexQueueAssumption
    <3>2. Least(1, Len(m_waiters["mutex"])) = 1
      BY <2>4, <3>1 DEF Least
    <3>3. SubSeq(m_waiters["mutex"], 1, 1) # <<>>
      BY <2>4, <3>1, FirstOfNonempty
    <3>4. batch'[t] # <<>>
      BY <2>1, <3>2, <3>3, Zenon
    <3> QED BY <3>4 DEF Waker
  <2> QED BY <2>3, <2>4
<1>10. ASSUME NEW t \in Task, ResumeWaiter(t) PROVE NoLostWakeup'
  <2>1. susp'[Head(batch[t])] = "idle" /\ Head(batch[t]) \in Task
    BY <1>10, ResumeNextInv DEF ResumeWaiter, ResumeNext
  <2>2. pc'[Head(batch[t])] = "lock"
    BY <1>10, ResumeNextInv DEF ResumeWaiter, SuspendedInLock, mutexVars
  <2> QED BY <2>1, <2>2 DEF NoLostWakeup, Waker
<1>11. CASE UNCHANGED vars
  BY <1>11 DEF vars, NoLostWakeup, Waker
<1> QED BY <1>1, <1>2, <1>3, <1>4, <1>5, <1>6, <1>7, <1>8, <1>9, <1>10, <1>11
        DEF Next, Step

-----------------------------------------------------------------------------
(* The theorems. *)

(* The conjunction is inductive. *)
THEOREM MutexInvariant == Spec => []MutexInv
<1>1. Init => MutexInv
  BY InitInv
<1>2. MutexInv /\ [Next]_vars => MutexInv'
  BY NextWQInv, NextTypeOK, NextOwned, NextSuspendedInLock, NextNoLostWakeup
     DEF MutexInv
<1> QED BY <1>1, <1>2, PTL DEF Spec

(* Types of the mutex's state (mutex.hpp:71-72, wait_queue.hpp:68-71).     *)
THEOREM MutexTypeOK == Spec => []TypeOK
<1>1. MutexInv => TypeOK
  BY DEF MutexInv
<1> QED BY <1>1, MutexInvariant, PTL

(* lock() and try_lock() give the mutex to one task at a time              *)
(* (mutex.cpp:13-26).                                                      *)
THEOREM MutexExclusion == Spec => []OwnedExclusively
<1>1. MutexInv => OwnedExclusively
  BY DEF MutexInv
<1> QED BY <1>1, MutexInvariant, PTL

(* unlock() never leaves a task asleep on a free mutex with nobody on the  *)
(* way to wake it (mutex.cpp:21-34).                                       *)
THEOREM MutexNoLostWakeup == Spec => []NoLostWakeup
<1>1. MutexInv => NoLostWakeup
  BY DEF MutexInv
<1> QED BY <1>1, MutexInvariant, PTL

(* A waiter's node is linked, once, exactly while its task is parked       *)
(* (wait_queue.hpp:91-94).                                                 *)
THEOREM MutexNodeLifetime == Spec => []NodeLifetime
<1>1. MutexInv => NodeLifetime
  BY DEF MutexInv, WQInv
<1> QED BY <1>1, MutexInvariant, PTL

(* The mutex implements the abstract lock (mutex.hpp:47-60): the two       *)
(* successful compare-and-swaps are its Acquire, the store of unlock() its *)
(* Release, the call of lock() its Request, and nothing else is visible.   *)
THEOREM MutexImplementsLock == Spec => ImplementsLock
<1>1. Init => ALock!Init
  BY DEF Init, ALock!Init, status
<1>2. MutexInv /\ [Next]_vars => [ALock!Next]_status
  <2> SUFFICES ASSUME MutexInv, [Next]_vars PROVE [ALock!Next]_status
    OBVIOUS
  <2> USE DEF MutexInv, TypeOK, PC
  <2>1. ASSUME NEW t \in Task, Lock(t) PROVE ALock!Request(t)
    BY <2>1 DEF Lock, ALock!Request, status
  <2>2. ASSUME NEW t \in Task, TryLock(t) PROVE ALock!Acquire(t)
    BY <2>2 DEF TryLock, ALock!Acquire, status, OwnedExclusively, LockedIffOwned
  <2>3. ASSUME NEW t \in Task, Unlock(t) PROVE ALock!Release(t)
    BY <2>3 DEF Unlock, ALock!Release, status
  <2>4. ASSUME NEW t \in Task,
               TryLockFails(t) \/ WaitIf(t) \/ UnlockResumeOne(t)
        PROVE  UNCHANGED status
    BY <2>4 DEF TryLockFails, WaitIf, UnlockResumeOne, status
  <2>5. ASSUME UNCHANGED pc PROVE UNCHANGED status
    BY <2>5 DEF status
  <2> QED BY <2>1, <2>2, <2>3, <2>4, <2>5 DEF Next, Step, RecheckLocked,
          PushWaiter, BounceBack, ResumeWaiter, vars, mutexVars, ALock!Next
<1> QED BY <1>1, <1>2, MutexInvariant, PTL DEF Spec, ImplementsLock, ALock!Spec

-----------------------------------------------------------------------------
(* scoped_lock. *)

(* Where a task is in lock() or unlock(), and what its scoped_lock knows.  *)
LockOf(t) ==
    /\ releasing[t] => m_mutex[t] /\ pc[t] \in {"resume_one", "out"}
    /\ ~releasing[t] => /\ pc[t] # "resume_one"
                        /\ m_mutex[t] <=> pc[t] \in {"lock", "wait_if", "cs"}
LockInv == SLTypeOK /\ \A t \in Task : LockOf(t)

(* A step of the mutex below the scoped_locks. *)
LEMMA MutexStep == ASSUME [SLNext]_slVars PROVE [Next]_vars
<1>1. CASE UNCHANGED slVars
  BY <1>1 DEF slVars
<1>2. CASE SLNext
  BY <1>2 DEF SLNext, Acquire, TryAcquire, SLStep, Release, Released, Next, Step
<1> QED BY <1>1, <1>2

(* How far a task gets inside lock() and unlock() in one step. *)
LEMMA StepMoves ==
  ASSUME TypeOK, NEW t \in Task, Step(t), pc[t] # "cs"
  PROVE  /\ \A u \in Task : u # t => pc'[u] = pc[u]
         /\ \/ pc'[t] = pc[t]
            \/ pc[t] \in {"lock", "wait_if"} /\ pc'[t] \in {"lock", "wait_if", "cs"}
            \/ pc[t] = "resume_one" /\ pc'[t] = "out"
BY DEF Step, TypeOK, TryLock, TryLockFails, WaitIf, RecheckLocked, PushWaiter,
       BounceBack, Unlock, UnlockResumeOne, ResumeWaiter, mutexVars

(* The pointer follows the mutex. *)
LEMMA LockStep == ASSUME LockInv, TypeOK', [SLNext]_slVars PROVE LockInv'
<1>1. CASE UNCHANGED slVars
  BY <1>1 DEF slVars, vars, LockInv, SLTypeOK, LockOf
<1>2. ASSUME NEW t \in Task, Acquire(t) PROVE LockInv'
  BY <1>2 DEF Acquire, Lock, LockInv, SLTypeOK, TypeOK, LockOf
<1>3. ASSUME NEW t \in Task, TryAcquire(t) PROVE LockInv'
  BY <1>3 DEF TryAcquire, TryLock, LockInv, SLTypeOK, TypeOK, LockOf
<1>4. ASSUME NEW t \in Task, Release(t) PROVE LockInv'
  BY <1>4 DEF Release, Unlock, LockInv, SLTypeOK, TypeOK, LockOf
<1>5. ASSUME NEW t \in Task, Released(t) PROVE LockInv'
  BY <1>5 DEF Released, vars, LockInv, SLTypeOK, TypeOK, LockOf
<1>6. ASSUME NEW t \in Task, pc[t] # "cs", Step(t), UNCHANGED <<m_mutex, releasing>>
      PROVE  LockInv'
  <2>1. /\ \A u \in Task : u # t => pc'[u] = pc[u]
        /\ \/ pc'[t] = pc[t]
           \/ pc[t] \in {"lock", "wait_if"} /\ pc'[t] \in {"lock", "wait_if", "cs"}
           \/ pc[t] = "resume_one" /\ pc'[t] = "out"
    BY <1>6, StepMoves DEF LockInv, SLTypeOK
  <2>2. SLTypeOK'
    BY <1>6 DEF LockInv, SLTypeOK
  <2>3. ASSUME NEW u \in Task PROVE LockOf(u)'
    <3>1. LockOf(u)
      BY DEF LockInv
    <3>2. m_mutex'[u] = m_mutex[u] /\ releasing'[u] = releasing[u]
      BY <1>6
    <3>3. CASE u # t
      BY <2>1, <3>1, <3>2, <3>3 DEF LockOf
    <3>4. CASE u = t
      BY <2>1, <3>1, <3>2, <3>4 DEF LockOf
    <3> QED BY <3>3, <3>4
  <2> QED BY <2>2, <2>3 DEF LockInv
<1> QED BY <1>1, <1>2, <1>3, <1>4, <1>5, <1>6 DEF SLNext, SLStep

(* scoped_lock only makes calls that the specification of the mutex has,   *)
(* so each theorem about the mutex is one about its scoped_locks.          *)
THEOREM ScopedLockUsesMutex == SLSpec => Spec
<1>1. SLInit => Init
  BY DEF SLInit
<1> QED BY <1>1, MutexStep, PTL DEF SLSpec, Spec

(* The pointer of a scoped_lock that is in no call tells whether its task  *)
(* owns the mutex (mutex.cpp:36-73).                                       *)
THEOREM ScopedLockPointer == SLSpec => []PointerTellsOwner
<1>1. SLInit => LockInv
  <2> SUFFICES ASSUME SLInit PROVE LockInv
    OBVIOUS
  <2>1. TypeOK
    BY InitInv DEF SLInit, MutexInv, WQInv, TypeOK
  <2> QED BY <2>1 DEF SLInit, Init, LockInv, SLTypeOK, LockOf
<1>2. LockInv => PointerTellsOwner
  BY DEF LockInv, LockOf, PointerTellsOwner, InNoCall
<1>3. SLSpec => []TypeOK
  BY ScopedLockUsesMutex, MutexTypeOK, PTL
<1>4. SLSpec => []LockInv
  BY <1>1, <1>3, LockStep, PTL DEF SLSpec
<1> QED BY <1>2, <1>4, PTL

-----------------------------------------------------------------------------
(* condition_variable, composed with the mutex. *)

(* Where a task is in both classes, and which queue it can be in. *)
Place(t) ==
    /\ susp[t] # "idle" => pc[t] = "lock" \/ cv[t] = "wait_if"
    /\ cv[t] = "wait_if" => pc[t] = "out"
    /\ cv[t] = "unlock" => pc[t] \in {"resume_one", "out"}
    /\ pc[t] \in {"lock", "wait_if"} => cv[t] \in {"none", "relock"}
OfQueue(t, q) == \/ q = "mutex" /\ pc[t] = "lock"
                 \/ q = "cv" /\ cv[t] = "wait_if"
CvSleepers ==
    /\ \A t \in Task : Place(t)
    /\ \A q \in Queue : \A t \in Range(m_waiters[q]) : OfQueue(t, q)
    /\ \A q \in Queue, t \in Task : m_waiters_mutex[q] = t => OfQueue(t, q)

CvInv == WQInv /\ CvTypeOK /\ CvSleepers /\ LockStillSound

(* Nobody in lock() sleeps on a free mutex unless one of these comes. *)
Wakes(u) == \/ pc[u] = "resume_one"
            \/ \E t \in Task : t \in Range(batch[u]) /\ pc[t] = "lock"
            \/ /\ pc[u] \in {"lock", "wait_if"}
               /\ susp[u] \in {"idle", "suspended", "bounce"}
LockWakeup == (\E t \in Task : pc[t] = "lock" /\ susp[t] \in {"push", "parked"})
                /\ ~m_locked => \E u \in Task : Wakes(u)

(* What LockStillSound says, in the two parts that are proved apart. *)
LEMMA SoundMeans == LockStillSound <=> OwnedExclusively /\ LockWakeup
BY DEF LockStillSound, LockWakeup, Wakes

(* A step of a client, or of a call, that the wait queues do not notice. *)
CvLocal(t) == \/ ClientLock(t) \/ ClientUnlock(t) \/ SetReady(t) \/ ClearReady(t)
              \/ CallWait(t) \/ CallWaitPred(t) \/ Pred(t) \/ Relock(t) \/ WaitReturn(t)
              \/ pc[t] = "lock" /\ TryLock(t) /\ UNCHANGED cvVars
              \/ TryLockFails(t) /\ UNCHANGED cvVars
              \/ WaitIf(t) /\ ~m_locked /\ UNCHANGED cvVars

(* There are no other steps. *)
LEMMA CvCases ==
  ASSUME CvNext
  PROVE  \E t \in Task :
           \/ CvLocal(t)
           \/ WaitIf(t) /\ m_locked /\ UNCHANGED cvVars
           \/ (RecheckLocked(t) \/ PushWaiter(t) \/ BounceBack(t)) /\ UNCHANGED cvVars
           \/ UnlockResumeOne(t) /\ UNCHANGED cvVars
           \/ ResumeWaiter(t) /\ UNCHANGED cvVars
           \/ WaitForNotify(t) \/ RecheckNotify(t) \/ PushNotify(t)
           \/ NotifyOne(t) \/ NotifyAll(t)
BY DEF CvNext, ClientCall, CvStep, InMutex, CvLocal

(* What a local step leaves alone. *)
LEMMA CvLocalFrame ==
  ASSUME CvTypeOK, NEW t \in Task, CvLocal(t)
  PROVE  /\ UNCHANGED wqVars /\ Running(t)
         /\ pc' \in [Task -> PC] /\ m_locked' \in BOOLEAN
         /\ \A u \in Task : u # t => pc'[u] = pc[u] /\ cv'[u] = cv[u]
         /\ \/ pc'[t] = pc[t] /\ m_locked' = m_locked
            \/ pc[t] = "out" /\ pc'[t] = "lock" /\ m_locked' = m_locked
            \/ pc[t] \in {"out", "lock"} /\ pc'[t] = "cs" /\ ~m_locked /\ m_locked'
            \/ pc[t] = "cs" /\ pc'[t] = "resume_one" /\ ~m_locked'
            \/ pc[t] = "lock" /\ pc'[t] = "wait_if" /\ m_locked /\ m_locked'
            \/ pc[t] = "wait_if" /\ pc'[t] = "lock" /\ m_locked' = m_locked
<1>1. CASE ClientLock(t) \/ ClientUnlock(t) \/ SetReady(t) \/ ClearReady(t)
  BY <1>1 DEF CvTypeOK, TypeOK, PC, ClientLock, ClientUnlock, SetReady, ClearReady, Owner,
     Lock, TryLock, Unlock, Enter, cvVars, mutexVars, wqVars
<1>2. CASE CallWait(t) \/ CallWaitPred(t) \/ Pred(t) \/ Relock(t) \/ WaitReturn(t)
  BY <1>2 DEF CvTypeOK, TypeOK, PC, CallWait, CallWaitPred, Pred, Relock, WaitReturn, Owner,
     Lock, Unlock, Enter, cvVars, mutexVars, wqVars
<1>3. CASE \/ pc[t] = "lock" /\ TryLock(t) /\ UNCHANGED cvVars
           \/ TryLockFails(t) /\ UNCHANGED cvVars
           \/ WaitIf(t) /\ ~m_locked /\ UNCHANGED cvVars
  BY <1>3 DEF CvTypeOK, TypeOK, PC, TryLock, TryLockFails, WaitIf, cvVars, mutexVars, wqVars
<1> QED BY <1>1, <1>2, <1>3 DEF CvLocal

(* Where t is after a local step. *)
LEMMA CvLocalPlace ==
  ASSUME CvTypeOK, NEW t \in Task, Place(t), CvLocal(t)
  PROVE  Place(t)'
<1>0. susp'[t] = "idle"
  BY CvLocalFrame DEF Running, wqVars
<1>1. CASE ClientLock(t) \/ ClientUnlock(t) \/ SetReady(t) \/ ClearReady(t)
  BY <1>0, <1>1 DEF CvTypeOK, TypeOK, Place, ClientLock, ClientUnlock, SetReady, ClearReady,
     Owner, Lock, TryLock, Unlock, Enter, cvVars, mutexVars
<1>2. CASE CallWait(t) \/ CallWaitPred(t) \/ Pred(t) \/ Relock(t) \/ WaitReturn(t)
  BY <1>0, <1>2 DEF CvTypeOK, TypeOK, Place, CallWait, CallWaitPred, Pred, Relock, WaitReturn,
     Owner, Lock, Unlock, Enter, cvVars, mutexVars
<1>3. CASE \/ pc[t] = "lock" /\ TryLock(t) /\ UNCHANGED cvVars
           \/ TryLockFails(t) /\ UNCHANGED cvVars
           \/ WaitIf(t) /\ ~m_locked /\ UNCHANGED cvVars
  BY <1>0, <1>3 DEF CvTypeOK, TypeOK, Place, TryLock, TryLockFails, WaitIf, cvVars
<1> QED BY <1>1, <1>2, <1>3 DEF CvLocal

(* Whatever step is taken, the queues keep their own invariant. *)
LEMMA CvNextWQInv ==
  ASSUME WQInv, CvTypeOK, [CvNext]_cvAllVars
  PROVE  WQInv'
<1>1. ASSUME UNCHANGED wqVars PROVE WQInv'
  BY <1>1 DEF wqVars, WQInv, WQTypeOK, NodeLifetime, ListsDisjoint, InSomeList,
     PushingHoldsLock
<1>2. ASSUME NEW t \in Task, (WaitIf(t) /\ m_locked) \/ WaitForNotify(t) PROVE WQInv'
  BY <1>2, SuspendInv DEF WaitIf, WaitForNotify
<1>3. ASSUME NEW t \in Task, RecheckLocked(t) \/ RecheckNotify(t) PROVE WQInv'
  BY <1>3, RecheckInv, MutexQueueAssumption, CvQueueAssumption
     DEF RecheckLocked, RecheckNotify, CvTypeOK, TypeOK
<1>4. ASSUME NEW t \in Task, PushWaiter(t) \/ PushNotify(t) PROVE WQInv'
  BY <1>4, PushInv, MutexQueueAssumption, CvQueueAssumption DEF PushWaiter, PushNotify
<1>5. ASSUME NEW t \in Task, BounceBack(t) PROVE WQInv'
  BY <1>5, BounceInv DEF BounceBack
<1>6. ASSUME NEW t \in Task, UnlockResumeOne(t) \/ NotifyOne(t) PROVE WQInv'
  BY <1>6, PopNInv, MutexQueueAssumption, CvQueueAssumption
     DEF UnlockResumeOne, NotifyOne, MayNotify, PopOne
<1>7. ASSUME NEW t \in Task, NotifyAll(t) PROVE WQInv'
  BY <1>7, SwapAllInv, CvQueueAssumption DEF NotifyAll, MayNotify
<1>8. ASSUME NEW t \in Task, ResumeWaiter(t) PROVE WQInv'
  BY <1>8, ResumeNextInv DEF ResumeWaiter
<1>9. ASSUME NEW t \in Task, CvLocal(t) PROVE WQInv'
  BY <1>1, <1>9, CvLocalFrame
<1>10. CASE UNCHANGED cvAllVars
  BY <1>1, <1>10 DEF cvAllVars, wqVars
<1> QED BY <1>2, <1>3, <1>4, <1>5, <1>6, <1>7, <1>8, <1>9, <1>10, CvCases

(* The types of both classes. *)
LEMMA CvNextType ==
  ASSUME WQInv, CvTypeOK, [CvNext]_cvAllVars
  PROVE  CvTypeOK'
<1>1. WQTypeOK'
  BY CvNextWQInv DEF WQInv
<1>2. m_locked' \in BOOLEAN /\ pc' \in [Task -> PC]
  <2>1. ASSUME NEW t \in Task, CvLocal(t) PROVE m_locked' \in BOOLEAN /\ pc' \in [Task -> PC]
    BY <2>1, CvLocalFrame
  <2>2. CASE UNCHANGED cvAllVars
    BY <2>2 DEF cvAllVars, CvTypeOK, TypeOK
  <2>3. ASSUME NEW t \in Task, WaitIf(t) \/ UnlockResumeOne(t)
        PROVE  m_locked' \in BOOLEAN /\ pc' \in [Task -> PC]
    BY <2>3 DEF WaitIf, UnlockResumeOne, CvTypeOK, TypeOK, PC
  <2>4. CASE UNCHANGED mutexVars
    BY <2>4 DEF mutexVars, CvTypeOK, TypeOK
  <2>5. ASSUME NEW t \in Task,
               \/ RecheckLocked(t) \/ PushWaiter(t) \/ BounceBack(t) \/ ResumeWaiter(t)
               \/ WaitForNotify(t) \/ RecheckNotify(t) \/ PushNotify(t)
               \/ NotifyOne(t) \/ NotifyAll(t)
        PROVE  UNCHANGED mutexVars
    BY <2>5 DEF RecheckLocked, PushWaiter, BounceBack, ResumeWaiter, WaitForNotify,
       RecheckNotify, PushNotify, NotifyOne, NotifyAll, mutexVars
  <2> QED BY <2>1, <2>2, <2>3, <2>4, <2>5, CvCases
<1>3. /\ cv' \in [Task -> {"none", "pred", "unlock", "wait_if", "relock", "owes"}]
      /\ loop' \in [Task -> BOOLEAN] /\ ready' \in BOOLEAN
  <2>1. CASE UNCHANGED cvVars
    BY <2>1 DEF cvVars, CvTypeOK
  <2>2. CASE UNCHANGED cvAllVars
    BY <2>2 DEF cvAllVars, CvTypeOK
  <2>3. ASSUME NEW t \in Task, ClientLock(t) \/ ClientUnlock(t) \/ RecheckNotify(t)
                               \/ PushNotify(t) \/ NotifyOne(t)
        PROVE  UNCHANGED cvVars
    BY <2>3 DEF ClientLock, ClientUnlock, RecheckNotify, PushNotify, NotifyOne
  <2>4. ASSUME NEW t \in Task, SetReady(t) \/ ClearReady(t) \/ CallWait(t) \/ CallWaitPred(t)
        PROVE  /\ cv' \in [Task -> {"none", "pred", "unlock", "wait_if", "relock", "owes"}]
               /\ loop' \in [Task -> BOOLEAN] /\ ready' \in BOOLEAN
    BY <2>4 DEF SetReady, ClearReady, CallWait, CallWaitPred, Enter, CvTypeOK
  <2>5. ASSUME NEW t \in Task, Pred(t) \/ Relock(t)
        PROVE  /\ cv' \in [Task -> {"none", "pred", "unlock", "wait_if", "relock", "owes"}]
               /\ loop' \in [Task -> BOOLEAN] /\ ready' \in BOOLEAN
    BY <2>5 DEF Pred, Relock, Enter, CvTypeOK
  <2>6. ASSUME NEW t \in Task, WaitReturn(t) \/ WaitForNotify(t) \/ NotifyAll(t)
        PROVE  /\ cv' \in [Task -> {"none", "pred", "unlock", "wait_if", "relock", "owes"}]
               /\ loop' \in [Task -> BOOLEAN] /\ ready' \in BOOLEAN
    BY <2>6 DEF WaitReturn, WaitForNotify, NotifyAll, Enter, CvTypeOK
  <2> QED BY <2>1, <2>2, <2>3, <2>4, <2>5, <2>6, CvCases DEF CvLocal
<1> QED BY <1>1, <1>2, <1>3 DEF CvTypeOK, TypeOK

(* The flag is set exactly while one task owns the mutex. *)
LEMMA CvNextOwned ==
  ASSUME CvTypeOK, OwnedExclusively, [CvNext]_cvAllVars
  PROVE  OwnedExclusively'
<1> USE DEF OwnedExclusively, MutualExclusion, LockedIffOwned
<1>1. ASSUME NEW t \in Task, CvLocal(t) PROVE OwnedExclusively'
  BY <1>1, CvLocalFrame DEF CvTypeOK, TypeOK
<1>2. ASSUME NEW t \in Task, WaitIf(t) \/ UnlockResumeOne(t) PROVE OwnedExclusively'
  BY <1>2 DEF WaitIf, UnlockResumeOne, CvTypeOK, TypeOK
<1>3. CASE UNCHANGED mutexVars
  BY <1>3 DEF mutexVars
<1> QED BY <1>1, <1>2, <1>3, CvCases DEF RecheckLocked, PushWaiter, BounceBack, ResumeWaiter,
        WaitForNotify, RecheckNotify, PushNotify, NotifyOne, NotifyAll, cvAllVars, mutexVars

(* Who sleeps where: frames of the steps on the queues. *)
LEMMA CvSleepersFrame ==
  ASSUME WQInv, CvSleepers, NEW t \in Task, Place(t)', Running(t),
         \A u \in Task : u # t => pc'[u] = pc[u] /\ cv'[u] = cv[u] /\ susp'[u] = susp[u],
         \A q \in Queue : Range(m_waiters'[q]) \subseteq Range(m_waiters[q]),
         m_waiters_mutex' = m_waiters_mutex
  PROVE  CvSleepers'
<1>1. \A q \in Queue : t \notin Range(m_waiters[q]) /\ m_waiters_mutex[q] # t
  BY UnparkedUnlisted, NoTaskAssumption DEF Running, WQInv, PushingHoldsLock
<1>2. ASSUME NEW u \in Task PROVE Place(u)'
  BY DEF Place, CvSleepers
<1>3. ASSUME NEW q \in Queue, NEW u \in Range(m_waiters'[q]) PROVE OfQueue(u, q)'
  <2>1. u \in Range(m_waiters[q]) /\ u \in Task
    <3>1. m_waiters[q] \in Seq(Task) /\ u \in Range(m_waiters[q])
      BY DEF WQInv, WQTypeOK
    <3> QED BY <3>1 DEF Range
  <2>2. u # t /\ OfQueue(u, q)
    BY <1>1, <2>1 DEF CvSleepers
  <2> QED BY <2>1, <2>2 DEF OfQueue
<1>4. ASSUME NEW q \in Queue, NEW u \in Task, m_waiters_mutex'[q] = u PROVE OfQueue(u, q)'
  <2>1. u # t /\ OfQueue(u, q)
    BY <1>1, <1>4 DEF CvSleepers
  <2> QED BY <2>1 DEF OfQueue
<1> QED BY <1>2, <1>3, <1>4 DEF CvSleepers

(* A task is only in the queue of the call that it sleeps in. *)
LEMMA CvNextSleepers ==
  ASSUME WQInv, CvTypeOK, CvSleepers, [CvNext]_cvAllVars
  PROVE  CvSleepers'
<1>1. ASSUME NEW t \in Task, CvLocal(t) PROVE CvSleepers'
  <2>1. Place(t)'
    BY <1>1, CvLocalPlace DEF CvSleepers
  <2>2. /\ UNCHANGED wqVars /\ Running(t)
        /\ \A u \in Task : u # t => pc'[u] = pc[u] /\ cv'[u] = cv[u]
    BY <1>1, CvLocalFrame
  <2> QED BY <2>1, <2>2, CvSleepersFrame DEF wqVars
<1>2. ASSUME NEW t \in Task, WaitIf(t) /\ m_locked /\ UNCHANGED cvVars PROVE CvSleepers'
  <2>1. Place(t) /\ Place(t)'
    BY <1>2 DEF CvSleepers, Place, WaitIf, Suspend, CvTypeOK, TypeOK, cvVars
  <2>2. /\ Running(t) /\ m_waiters' = m_waiters /\ m_waiters_mutex' = m_waiters_mutex
        /\ \A u \in Task : u # t => pc'[u] = pc[u] /\ cv'[u] = cv[u] /\ susp'[u] = susp[u]
    BY <1>2 DEF WaitIf, Suspend, cvVars, CvTypeOK, TypeOK, WQTypeOK
  <2> QED BY <2>1, <2>2, CvSleepersFrame
<1>3. ASSUME NEW t \in Task, WaitForNotify(t) PROVE CvSleepers'
  <2>1. Place(t)'
    BY <1>3 DEF CvSleepers, Place, WaitForNotify, Suspend, Enter, CvTypeOK, TypeOK, mutexVars
  <2>2. /\ Running(t) /\ m_waiters' = m_waiters /\ m_waiters_mutex' = m_waiters_mutex
        /\ \A u \in Task : u # t => pc'[u] = pc[u] /\ cv'[u] = cv[u] /\ susp'[u] = susp[u]
    BY <1>3 DEF WaitForNotify, Suspend, Enter, mutexVars, CvTypeOK, TypeOK, WQTypeOK
  <2> QED BY <2>1, <2>2, CvSleepersFrame
<1>4. ASSUME NEW t \in Task, UnlockResumeOne(t), UNCHANGED cvVars PROVE CvSleepers'
  <2>1. /\ Range(m_waiters["mutex"]) = Range(batch'[t]) \cup Range(m_waiters'["mutex"])
        /\ \A p \in Queue : p # "mutex" => m_waiters'[p] = m_waiters[p]
        /\ susp' = susp
    BY <1>4, PopNEffect, MutexQueueAssumption DEF UnlockResumeOne, PopOne
  <2>2. Place(t)'
    BY <1>4, <2>1 DEF CvSleepers, Place, UnlockResumeOne, Running, cvVars, CvTypeOK, TypeOK
  <2>3. /\ Running(t) /\ m_waiters_mutex' = m_waiters_mutex
        /\ \A u \in Task : u # t => pc'[u] = pc[u] /\ cv'[u] = cv[u]
    BY <1>4 DEF UnlockResumeOne, PopOne, PopN, cvVars, CvTypeOK, TypeOK
  <2>4. \A q \in Queue : Range(m_waiters'[q]) \subseteq Range(m_waiters[q])
    BY <2>1
  <2> QED BY <2>1, <2>2, <2>3, <2>4, CvSleepersFrame
<1>5. ASSUME NEW t \in Task, NotifyOne(t) PROVE CvSleepers'
  <2>1. /\ Range(m_waiters["cv"]) = Range(batch'[t]) \cup Range(m_waiters'["cv"])
        /\ \A p \in Queue : p # "cv" => m_waiters'[p] = m_waiters[p]
        /\ susp' = susp
    BY <1>5, PopNEffect, CvQueueAssumption DEF NotifyOne, PopOne
  <2>2. /\ Running(t) /\ m_waiters_mutex' = m_waiters_mutex /\ pc' = pc /\ cv' = cv
    BY <1>5 DEF NotifyOne, MayNotify, PopOne, PopN, cvVars, mutexVars
  <2>3. Place(t)'
    BY <2>1, <2>2 DEF CvSleepers, Place
  <2>4. \A q \in Queue : Range(m_waiters'[q]) \subseteq Range(m_waiters[q])
    BY <2>1
  <2> QED BY <2>1, <2>2, <2>3, <2>4, CvSleepersFrame
<1>6. ASSUME NEW t \in Task, NotifyAll(t) PROVE CvSleepers'
  <2>1. /\ Range(m_waiters'["cv"]) = {}
        /\ \A p \in Queue : p # "cv" => m_waiters'[p] = m_waiters[p]
        /\ susp' = susp
    BY <1>6, SwapAllEffect, CvQueueAssumption DEF NotifyAll
  <2>2. /\ Running(t) /\ m_waiters_mutex' = m_waiters_mutex /\ pc' = pc
        /\ \A u \in Task : u # t => cv'[u] = cv[u]
        /\ cv'[t] = "none" /\ pc[t] \in {"out", "cs"}
    BY <1>6 DEF NotifyAll, MayNotify, SwapAll, Enter, mutexVars, CvTypeOK
  <2>3. Place(t)'
    BY <2>1, <2>2 DEF Running, Place
  <2>4. \A q \in Queue : Range(m_waiters'[q]) \subseteq Range(m_waiters[q])
    BY <2>1
  <2> QED BY <2>1, <2>2, <2>3, <2>4, CvSleepersFrame
<1>7. ASSUME NEW t \in Task, BounceBack(t), UNCHANGED cvVars PROVE CvSleepers'
  BY <1>7 DEF BounceBack, Bounce, mutexVars, cvVars, CvSleepers, Place, OfQueue, CvTypeOK,
     TypeOK, WQTypeOK
<1>8. ASSUME NEW t \in Task, ResumeWaiter(t), UNCHANGED cvVars PROVE CvSleepers'
  <2>1. m_waiters' = m_waiters /\ m_waiters_mutex' = m_waiters_mutex /\ pc' = pc /\ cv' = cv
    BY <1>8 DEF ResumeWaiter, ResumeNext, mutexVars, cvVars
  <2>2. \A u \in Task : susp'[u] = susp[u] \/ susp'[u] = "idle"
    BY <1>8, ResumeNextEffect DEF ResumeWaiter
  <2> QED BY <2>1, <2>2 DEF CvSleepers, Place, OfQueue
<1>9. ASSUME NEW t \in Task, NEW q \in {"mutex", "cv"}, NEW b \in BOOLEAN, Recheck(t, q, b),
             OfQueue(t, q), UNCHANGED <<cvVars, mutexVars>>
      PROVE  CvSleepers'
  <2>1. pc' = pc /\ cv' = cv /\ m_waiters' = m_waiters /\ susp[t] = "suspended" /\ q \in Queue
    BY <1>9, CvQueueAssumption DEF Recheck, mutexVars, cvVars
  <2>2. /\ \A u \in Task : u # t => susp'[u] = susp[u]
        /\ \A p \in Queue : \/ m_waiters_mutex'[p] = m_waiters_mutex[p]
                            \/ p = q /\ m_waiters_mutex'[p] = t
    <3>1. /\ susp \in [Task -> SuspState]
          /\ m_waiters_mutex \in [Queue -> Task \cup {NoTask}]
      BY DEF CvTypeOK, TypeOK, WQTypeOK
    <3>2. CASE /\ susp' = [susp EXCEPT ![t] = "push"]
               /\ m_waiters_mutex' = [m_waiters_mutex EXCEPT ![q] = t]
      BY <2>1, <3>1, <3>2
    <3>3. CASE susp' = [susp EXCEPT ![t] = "bounce"] /\ m_waiters_mutex' = m_waiters_mutex
      BY <3>1, <3>3
    <3> QED BY <1>9, <3>2, <3>3 DEF Recheck
  <2>3. \A u \in Task : Place(u)'
    BY <2>1, <2>2 DEF CvSleepers, Place
  <2>4. \A p \in Queue : \A u \in Range(m_waiters'[p]) : OfQueue(u, p)'
    BY <2>1 DEF CvSleepers, OfQueue
  <2>5. \A p \in Queue, u \in Task : m_waiters_mutex'[p] = u => OfQueue(u, p)'
    BY <1>9, <2>1, <2>2 DEF CvSleepers, OfQueue
  <2> QED BY <2>3, <2>4, <2>5 DEF CvSleepers
<1>10. ASSUME NEW t \in Task, NEW q \in {"mutex", "cv"}, Push(t, q),
              OfQueue(t, q), UNCHANGED <<cvVars, mutexVars>>
      PROVE  CvSleepers'
  <2>1. pc' = pc /\ cv' = cv /\ q \in Queue
    BY <1>10, CvQueueAssumption DEF mutexVars, cvVars
  <2>2. /\ Range(m_waiters'[q]) = Range(m_waiters[q]) \cup {t}
        /\ \A p \in Queue : p # q => m_waiters'[p] = m_waiters[p]
        /\ \A u \in Task : u # t => susp'[u] = susp[u]
    BY <1>10, <2>1, PushEffect
  <2>3. \A p \in Queue : m_waiters_mutex'[p] = m_waiters_mutex[p] \/ m_waiters_mutex'[p] = NoTask
    BY <1>10 DEF Push, CvTypeOK, TypeOK, WQTypeOK
  <2>4. susp[t] = "push"
    BY <1>10 DEF Push
  <2>5. \A u \in Task : Place(u)'
    BY <2>1, <2>2, <2>4 DEF CvSleepers, Place
  <2>6. \A p \in Queue : \A u \in Range(m_waiters'[p]) : OfQueue(u, p)'
    BY <1>10, <2>1, <2>2 DEF CvSleepers, OfQueue
  <2>7. \A p \in Queue, u \in Task : m_waiters_mutex'[p] = u => OfQueue(u, p)'
    <3> SUFFICES ASSUME NEW p \in Queue, NEW u \in Task, m_waiters_mutex'[p] = u
                 PROVE  OfQueue(u, p)'
      OBVIOUS
    <3>1. m_waiters_mutex[p] = u
      BY <2>3, NoTaskAssumption
    <3>2. OfQueue(u, p)
      BY <3>1 DEF CvSleepers
    <3> QED BY <2>1, <3>2 DEF OfQueue
  <2> QED BY <2>5, <2>6, <2>7 DEF CvSleepers
<1>11. CASE UNCHANGED cvAllVars
  BY <1>11 DEF cvAllVars, CvSleepers, Place, OfQueue
<1>12. ASSUME NEW t \in Task, RecheckLocked(t), UNCHANGED cvVars PROVE CvSleepers'
  <2>1. m_locked \in BOOLEAN /\ OfQueue(t, "mutex")
    BY <1>12 DEF RecheckLocked, CvTypeOK, TypeOK, OfQueue
  <2> QED BY <1>9, <1>12, <2>1 DEF RecheckLocked
<1>13. ASSUME NEW t \in Task, PushWaiter(t), UNCHANGED cvVars PROVE CvSleepers'
  BY <1>10, <1>13 DEF PushWaiter, OfQueue
<1>14. ASSUME NEW t \in Task, RecheckNotify(t) PROVE CvSleepers'
  BY <1>9, <1>14 DEF RecheckNotify, OfQueue
<1>15. ASSUME NEW t \in Task, PushNotify(t) PROVE CvSleepers'
  BY <1>10, <1>15 DEF PushNotify, OfQueue
<1> QED BY <1>1, <1>2, <1>3, <1>4, <1>5, <1>6, <1>7, <1>8, <1>11, <1>12, <1>13, <1>14,
        <1>15, CvCases

(* A task that is to wake a task in lock() stays one until it sets the     *)
(* flag, takes a waiter into its batch, or resumes one.                    *)
LEMMA CvNextWakeup ==
  ASSUME WQInv, CvTypeOK, CvSleepers, LockWakeup, [CvNext]_cvAllVars
  PROVE  LockWakeup'
<1>0. WQTypeOK /\ pc \in [Task -> PC]
  BY DEF CvTypeOK, TypeOK
<1>1. ASSUME NEW t \in Task, CvLocal(t) PROVE LockWakeup'
  <2>1. /\ m_waiters' = m_waiters /\ susp' = susp /\ batch' = batch /\ susp[t] = "idle"
        /\ \A u \in Task : u # t => pc'[u] = pc[u]
        /\ \/ pc'[t] = pc[t] /\ m_locked' = m_locked
           \/ pc[t] = "out" /\ pc'[t] = "lock" /\ m_locked' = m_locked
           \/ pc[t] \in {"out", "lock"} /\ pc'[t] = "cs" /\ ~m_locked /\ m_locked'
           \/ pc[t] = "cs" /\ pc'[t] = "resume_one" /\ ~m_locked'
           \/ pc[t] = "lock" /\ pc'[t] = "wait_if" /\ m_locked /\ m_locked'
           \/ pc[t] = "wait_if" /\ pc'[t] = "lock" /\ m_locked' = m_locked
    BY <1>1, CvLocalFrame DEF wqVars, Running
  <2>2. CASE pc'[t] \in {"lock", "resume_one"}
    BY <2>1, <2>2 DEF LockWakeup, Wakes
  <2>3. CASE m_locked'
    BY <2>3 DEF LockWakeup
  <2>4. CASE pc'[t] = pc[t] /\ m_locked' = m_locked
    BY <2>1, <2>4 DEF LockWakeup, Wakes
  <2> QED BY <2>1, <2>2, <2>3, <2>4
<1>2. ASSUME NEW t \in Task, m_locked /\ (WaitIf(t) \/ RecheckLocked(t)) PROVE LockWakeup'
  BY <1>2 DEF WaitIf, RecheckLocked, mutexVars, LockWakeup
<1>3. ASSUME NEW t \in Task, (RecheckLocked(t) /\ ~m_locked) \/ BounceBack(t) PROVE LockWakeup'
  <2>1. pc'[t] = "lock" /\ susp'[t] \in {"idle", "bounce"}
    BY <1>0, <1>3 DEF RecheckLocked, Recheck, BounceBack, Bounce, mutexVars, WQTypeOK
  <2> QED BY <2>1 DEF LockWakeup, Wakes
<1>4. ASSUME NEW t \in Task, PushWaiter(t) PROVE LockWakeup'
  <2>1. /\ pc' = pc /\ m_locked' = m_locked /\ batch' = batch
        /\ \A u \in Task : u # t => susp'[u] = susp[u]
        /\ susp[t] = "push" /\ susp'[t] = "parked" /\ pc[t] = "lock"
    BY <1>0, <1>4 DEF PushWaiter, Push, mutexVars, WQTypeOK
  <2>2. \A u \in Task : Wakes(u) => Wakes(u)'
    BY <2>1 DEF Wakes
  <2> QED BY <2>1, <2>2 DEF LockWakeup
<1>5. ASSUME NEW t \in Task, pc[t] # "lock", pc[t] # "wait_if", UNCHANGED mutexVars, batch' = batch,
             \A u \in Task : u # t => susp'[u] = susp[u]
      PROVE  LockWakeup'
  <2>1. \A u \in Task : Wakes(u) => Wakes(u)'
    BY <1>5 DEF Wakes, mutexVars
  <2> QED BY <1>5, <2>1 DEF LockWakeup, mutexVars
<1>6. ASSUME NEW t \in Task, WaitForNotify(t) \/ RecheckNotify(t) \/ PushNotify(t) PROVE LockWakeup'
  <2>1. pc[t] = "out"
    BY <1>6 DEF WaitForNotify, RecheckNotify, PushNotify, CvSleepers, Place
  <2>2. /\ UNCHANGED mutexVars /\ batch' = batch
        /\ \A u \in Task : u # t => susp'[u] = susp[u]
    BY <1>0, <1>6 DEF WaitForNotify, RecheckNotify, PushNotify, Suspend, Recheck, Push,
       WQTypeOK, mutexVars
  <2> QED BY <1>5, <2>1, <2>2
<1>7. ASSUME NEW t \in Task, NotifyOne(t) \/ NotifyAll(t) PROVE LockWakeup'
  <2>1. /\ pc' = pc /\ m_locked' = m_locked /\ susp' = susp /\ batch[t] = <<>>
        /\ \A u \in Task : u # t => batch'[u] = batch[u]
    BY <1>0, <1>7 DEF NotifyOne, NotifyAll, MayNotify, Running, PopOne, PopN, SwapAll,
       WQTypeOK, mutexVars
  <2>2. Range(batch[t]) = {}
    BY <2>1, RangeEmpty
  <2>3. \A u \in Task : Wakes(u) => Wakes(u)'
    BY <2>1, <2>2 DEF Wakes
  <2> QED BY <2>1, <2>3 DEF LockWakeup
<1>8. ASSUME NEW t \in Task, ResumeWaiter(t) PROVE LockWakeup'
  <2>1. pc' = pc /\ m_locked' = m_locked
    BY <1>8 DEF ResumeWaiter, mutexVars
  <2>2. PICK h \in Task :
           /\ h \in Range(batch[t]) /\ susp[h] = "parked" /\ susp'[h] = "idle"
           /\ Range(batch'[t]) = Range(batch[t]) \ {h}
           /\ \A v \in Task : v # t => batch'[v] = batch[v]
           /\ \A v \in Task : v # h => susp'[v] = susp[v]
    BY <1>8, ResumeNextEffect DEF ResumeWaiter
  <2>3. CASE pc[h] = "lock"
    BY <2>1, <2>2, <2>3 DEF LockWakeup, Wakes
  <2>4. CASE pc[h] # "lock"
    <3>1. ASSUME NEW u \in Task, Wakes(u) PROVE Wakes(u)'
      <4>1. CASE \E w \in Task : w \in Range(batch[u]) /\ pc[w] = "lock"
        BY <2>1, <2>2, <2>4, <4>1 DEF Wakes
      <4>2. CASE pc[u] = "resume_one"
        BY <2>1, <4>2 DEF Wakes
      <4>3. CASE pc[u] \in {"lock", "wait_if"} /\ susp[u] \in {"idle", "suspended", "bounce"}
        BY <2>1, <2>2, <4>3 DEF Wakes
      <4> QED BY <3>1, <4>1, <4>2, <4>3 DEF Wakes
    <3> QED BY <2>1, <2>2, <3>1 DEF LockWakeup
  <2> QED BY <2>3, <2>4
<1>9. ASSUME NEW t \in Task, UnlockResumeOne(t) PROVE LockWakeup'
  <2> SUFFICES ASSUME NEW w \in Task, pc'[w] = "lock", susp'[w] \in {"push", "parked"}
               PROVE  \E u \in Task : Wakes(u)'
    BY DEF LockWakeup
  <2>1. /\ m_waiters_mutex["mutex"] = NoTask /\ susp' = susp /\ pc'[t] = "out"
        /\ batch[t] = <<>> /\ PopOne(t, "mutex")
        /\ \A u \in Task : u # t => batch'[u] = batch[u] /\ pc'[u] = pc[u]
    BY <1>0, <1>9 DEF UnlockResumeOne, PopOne, PopN, Running, WQTypeOK
  <2>2. pc[w] = "lock" /\ pc[t] = "resume_one"
    BY <1>9, <2>1 DEF UnlockResumeOne
  <2>3. \A q \in Queue : OfQueue(w, q) => q = "mutex"
    BY <2>2 DEF OfQueue, CvSleepers, Place
  <2>4. susp[w] = "parked"
    <3>1. \A q \in Queue : m_waiters_mutex[q] # w
      BY <2>1, <2>3, NoTaskAssumption DEF CvSleepers
    <3> QED BY <2>1, <3>1 DEF WQInv, PushingHoldsLock
  <2>5. CASE m_waiters["mutex"] = <<>>
    <3>1. \A q \in Queue : w \notin Range(m_waiters[q])
      BY <2>3, <2>5, RangeEmpty DEF CvSleepers
    <3>2. PICK u \in Task : w \in Range(batch[u])
      BY <2>4, <3>1 DEF WQInv, NodeLifetime, InSomeList
    <3>3. u # t
      BY <2>1, <3>2, RangeEmpty
    <3> QED BY <2>1, <3>2, <3>3 DEF Wakes
  <2>6. CASE m_waiters["mutex"] # <<>>
    <3>1. PICK v \in Range(m_waiters["mutex"]) : Range(batch'[t]) = {v}
      BY <2>1, <2>6, PopOneEffect, MutexQueueAssumption
    <3>2. v \in Task
      <4>1. m_waiters["mutex"] \in Seq(Task) /\ v \in Range(m_waiters["mutex"])
        BY <1>0, MutexQueueAssumption DEF WQTypeOK
      <4> QED BY <4>1 DEF Range
    <3>3. pc[v] = "lock"
      BY MutexQueueAssumption DEF CvSleepers, OfQueue
    <3> QED BY <2>1, <2>2, <3>1, <3>2, <3>3 DEF Wakes
  <2> QED BY <2>5, <2>6
<1>10. CASE UNCHANGED cvAllVars
  BY <1>10 DEF cvAllVars, LockWakeup, Wakes
<1> QED BY <1>1, <1>2, <1>3, <1>4, <1>6, <1>7, <1>8, <1>9, <1>10, CvCases

(* The conjunction is inductive. *)
THEOREM CvInvariant == CvSpec => []CvInv
<1>1. CvInit => CvInv
  <2> SUFFICES ASSUME CvInit PROVE CvInv
    OBVIOUS
  <2>1. WQInv /\ TypeOK /\ OwnedExclusively
    BY InitInv DEF CvInit, MutexInv
  <2>2. CvTypeOK
    BY <2>1 DEF CvInit, CvTypeOK
  <2>3. CvSleepers
    BY RangeEmpty, NoTaskAssumption DEF CvInit, Init, WQInit, CvSleepers, Place
  <2>4. LockWakeup
    BY DEF CvInit, Init, LockWakeup
  <2> QED BY <2>1, <2>2, <2>3, <2>4, SoundMeans DEF CvInv
<1>2. CvInv /\ [CvNext]_cvAllVars => CvInv'
  <2> SUFFICES ASSUME CvInv, [CvNext]_cvAllVars PROVE CvInv'
    OBVIOUS
  <2>1. WQInv' /\ CvTypeOK' /\ CvSleepers'
    BY CvNextWQInv, CvNextType, CvNextSleepers DEF CvInv
  <2>2. OwnedExclusively' /\ LockWakeup'
    BY SoundMeans, CvNextOwned, CvNextWakeup DEF CvInv
  <2>3. LockStillSound'
    BY <2>2 DEF LockStillSound, LockWakeup, Wakes
  <2> QED BY <2>1, <2>3 DEF CvInv
<1> QED BY <1>1, <1>2, PTL DEF CvSpec

(* Types of the condition variable's state and of its clients'             *)
(* (condition_variable.hpp:31-49).                                         *)
THEOREM CvTypes == CvSpec => []CvTypeOK
<1>1. CvInv => CvTypeOK
  BY DEF CvInv
<1> QED BY <1>1, CvInvariant, PTL

(* wait() unlocks and locks the mutex from inside the condition variable,  *)
(* and the mutex keeps one owner and loses no wake-up of the tasks that    *)
(* wait in lock() (condition_variable.hpp:70-77, mutex.cpp:21-34).         *)
THEOREM CvLockStillSound == CvSpec => []LockStillSound
<1>1. CvInv => LockStillSound
  BY DEF CvInv
<1> QED BY <1>1, CvInvariant, PTL

(* A node is in the queue of the mutex or of the condition variable, once, *)
(* exactly while its task is parked (wait_queue.hpp:91-105).               *)
THEOREM CvNodes == CvSpec => [](NodeLifetime /\ PushingHoldsLock)
<1>1. CvInv => NodeLifetime /\ PushingHoldsLock
  BY DEF CvInv, WQInv
<1> QED BY <1>1, CvInvariant, PTL

-----------------------------------------------------------------------------
(* The notification that is missed, and only that one. *)

(* In wait(lock, pred), not yet taken by a notification.  AsleepOnlyIfMissed *)
(* speaks of the tasks in the queue; a task gets there from the window       *)
(* between unlock() and push_back, so both have to be told.                  *)
ToBeNotified(t) == /\ loop[t]
                   /\ \/ cv[t] = "unlock"
                      \/ /\ cv[t] = "wait_if"
                         /\ \/ susp[t] \in {"suspended", "push"}
                            \/ t \in Range(m_waiters["cv"])
Told == \A t \in Task :
          ToBeNotified(t) /\ ready /\ (\A u \in Task : cv[u] # "owes") => t \in missed

(* A step that starts no wait with the flag set, and drops no notification *)
(* that is owed.                                                           *)
Quietly == /\ \A t \in Task : ToBeNotified(t)' /\ ready' => ToBeNotified(t) /\ ready
           /\ \A t \in Task : cv[t] = "owes" => cv'[t] = "owes"

(* Such a step leaves every notification as it was: owed, given or missed. *)
LEMMA QuietlyTold == ASSUME Told, MCNext, Quietly PROVE Told'
<1> SUFFICES ASSUME NEW t \in Task, ToBeNotified(t)', ready', \A u \in Task : cv'[u] # "owes"
             PROVE  t \in missed'
  BY DEF Told
<1>1. t \in missed
  BY DEF Quietly, Told
<1>2. cv'[t] \in {"unlock", "wait_if"}
  BY DEF ToBeNotified
<1>3. ~ \E u \in Task : cv[u] = "owes" /\ cv'[u] = "none"
  BY DEF Quietly
<1> QED BY <1>1, <1>2, <1>3 DEF MCNext

(* Every step but the three that set the flag, clear it or notify. *)
LEMMA CvQuietly ==
  ASSUME CvInv, NEW t \in Task,
         \/ CvLocal(t) /\ ~SetReady(t)
         \/ WaitIf(t) /\ m_locked /\ UNCHANGED cvVars
         \/ (RecheckLocked(t) \/ PushWaiter(t) \/ BounceBack(t)) /\ UNCHANGED cvVars
         \/ UnlockResumeOne(t) /\ UNCHANGED cvVars
         \/ ResumeWaiter(t) /\ UNCHANGED cvVars
         \/ WaitForNotify(t) \/ RecheckNotify(t) \/ PushNotify(t)
         \/ NotifyOne(t)
         \/ NotifyAll(t) /\ cv[t] # "owes"
  PROVE  Quietly
<1>0. /\ WQInv /\ WQTypeOK /\ CvTypeOK /\ Place(t) /\ "cv" \in Queue /\ "mutex" \in Queue
  BY CvQueueAssumption DEF CvInv, CvTypeOK, TypeOK, CvSleepers
<1>1. ASSUME UNCHANGED cvVars,
             \A u \in Task : susp'[u] \in {"suspended", "push"}
                               => susp[u] \in {"suspended", "push"} \/ cv[u] # "wait_if",
             \A u \in Range(m_waiters'["cv"]) :
               u \in Range(m_waiters["cv"]) \/ susp[u] = "push"
      PROVE  Quietly
  BY <1>1 DEF Quietly, ToBeNotified, cvVars
<1>2. CASE CvLocal(t) /\ ~SetReady(t)
  <2>1. /\ m_waiters' = m_waiters /\ susp' = susp /\ susp[t] = "idle"
        /\ \A u \in Task : u # t => cv'[u] = cv[u]
    BY <1>0, <1>2, CvLocalFrame DEF wqVars, Running
  <2>2. CASE UNCHANGED cvVars
    BY <1>1, <2>1, <2>2
  <2>3. CASE ClearReady(t) \/ CallWait(t) \/ CallWaitPred(t)
    BY <1>0, <2>1, <2>3 DEF ClearReady, CallWait, CallWaitPred, Enter, Quietly, ToBeNotified,
       CvTypeOK
  <2>4. CASE Pred(t) \/ Relock(t) \/ WaitReturn(t)
    BY <1>0, <2>1, <2>4 DEF Pred, Relock, WaitReturn, Enter, Quietly, ToBeNotified, CvTypeOK
  <2> QED BY <1>2, <2>2, <2>3, <2>4 DEF CvLocal, ClientLock, ClientUnlock
<1>3. CASE WaitIf(t) /\ m_locked /\ UNCHANGED cvVars
  <2>1. cv[t] # "wait_if"
    BY <1>0, <1>3 DEF WaitIf, Place
  <2> QED BY <1>0, <1>1, <1>3, <2>1 DEF WaitIf, Suspend, WQTypeOK
<1>4. CASE (RecheckLocked(t) \/ PushWaiter(t) \/ BounceBack(t)) /\ UNCHANGED cvVars
  BY <1>0, <1>1, <1>4 DEF RecheckLocked, Recheck, PushWaiter, Push, BounceBack, Bounce, WQTypeOK
<1>5. CASE UnlockResumeOne(t) /\ UNCHANGED cvVars
  <2>1. m_waiters'["cv"] = m_waiters["cv"] /\ susp' = susp
    BY <1>0, <1>5, PopNEffect DEF UnlockResumeOne, PopOne
  <2> QED BY <1>1, <1>5, <2>1
<1>6. CASE ResumeWaiter(t) /\ UNCHANGED cvVars
  <2>1. \A u \in Task : susp'[u] = susp[u] \/ susp'[u] = "idle"
    BY <1>0, <1>6, ResumeNextEffect DEF ResumeWaiter
  <2>2. m_waiters' = m_waiters
    BY <1>6 DEF ResumeWaiter, ResumeNext
  <2> QED BY <1>1, <1>6, <2>1, <2>2
<1>7. CASE WaitForNotify(t)
  <2>1. /\ m_waiters' = m_waiters /\ \A u \in Task : u # t => susp'[u] = susp[u] /\ cv'[u] = cv[u]
        /\ loop' = loop /\ ready' = ready /\ cv[t] = "unlock"
    BY <1>0, <1>7 DEF WaitForNotify, Suspend, Enter, WQTypeOK, CvTypeOK
  <2> QED BY <2>1 DEF Quietly, ToBeNotified
<1>8. CASE RecheckNotify(t)
  BY <1>0, <1>1, <1>8 DEF RecheckNotify, Recheck, cvVars, WQTypeOK
<1>9. CASE PushNotify(t)
  <2>1. /\ Range(m_waiters'["cv"]) = Range(m_waiters["cv"]) \cup {t} /\ susp[t] = "push"
        /\ susp'[t] = "parked" /\ \A u \in Task : u # t => susp'[u] = susp[u]
    BY <1>0, <1>9, PushEffect DEF PushNotify, Push
  <2>2. UNCHANGED cvVars
    BY <1>9 DEF PushNotify, cvVars
  <2> QED BY <1>1, <2>1, <2>2
<1>10. CASE NotifyOne(t)
  <2>1. /\ Range(m_waiters["cv"]) = Range(batch'[t]) \cup Range(m_waiters'["cv"])
        /\ susp' = susp
    BY <1>0, <1>10, PopNEffect DEF NotifyOne, PopOne
  <2>2. UNCHANGED cvVars
    BY <1>10 DEF NotifyOne, cvVars
  <2> QED BY <1>1, <2>1, <2>2
<1>11. CASE NotifyAll(t) /\ cv[t] # "owes"
  <2>1. Range(m_waiters'["cv"]) = {} /\ susp' = susp
    BY <1>0, <1>11, SwapAllEffect DEF NotifyAll
  <2>2. UNCHANGED cvVars
    BY <1>0, <1>11 DEF NotifyAll, Enter, cvVars, CvTypeOK
  <2> QED BY <1>1, <2>1, <2>2
<1> QED BY <1>2, <1>3, <1>4, <1>5, <1>6, <1>7, <1>8, <1>9, <1>10, <1>11

(* notify_all of a client that set the flag takes everybody in the queue;  *)
(* whoever it does not find was in the window.                             *)
LEMMA CvNextTold == ASSUME CvInv, Told, MCNext PROVE Told'
<1>1. ASSUME NEW t \in Task, SetReady(t) PROVE Told'
  <2>1. cv'[t] = "owes"
    BY <1>1 DEF SetReady, Enter, CvInv, CvTypeOK
  <2> QED BY <2>1 DEF Told
<1>2. ASSUME NEW t \in Task, NotifyAll(t), cv[t] = "owes" PROVE Told'
  <2>1. /\ Range(m_waiters'["cv"]) = {} /\ susp' = susp
    BY <1>2, SwapAllEffect, CvQueueAssumption DEF NotifyAll, CvInv
  <2>2. /\ cv'[t] = "none" /\ loop' = loop
        /\ \A u \in Task : u # t => cv'[u] = cv[u]
    BY <1>2 DEF NotifyAll, Enter, CvInv, CvTypeOK
  <2>3. missed' = missed \cup {u \in Task : InWindow(u)}
    BY <1>2, <2>2 DEF MCNext
  <2>4. ASSUME NEW u \in Task, ToBeNotified(u)' PROVE u \in missed'
    <3>1. u # t
      BY <2>2, <2>4 DEF ToBeNotified
    <3>2. InWindow(u)
      BY <2>1, <2>2, <2>4, <3>1 DEF ToBeNotified, InWindow
    <3> QED BY <2>3, <3>2
  <2> QED BY <2>4 DEF Told
<1>3. CASE Quietly
  BY <1>3, QuietlyTold
<1>4. CvNext
  BY DEF MCNext
<1> QED BY <1>1, <1>2, <1>3, <1>4, CvCases, CvQuietly

(* With the protocol set-under-lock, notify_all, a task stays asleep with  *)
(* its predicate true only if it was between the unlock() of wait() and    *)
(* push_back at the notification (condition_variable.hpp:70-84): the       *)
(* window is the only hole.                                                *)
THEOREM CvAsleepOnlyIfMissed == MCSpec => []AsleepOnlyIfMissed
<1>1. MCSpec => CvSpec
  <2>1. [MCNext]_<<cvAllVars, missed>> => [CvNext]_cvAllVars
    BY DEF MCNext
  <2> QED BY <2>1, PTL DEF MCSpec, MCInit, CvSpec
<1>2. MCInit => Told
  BY DEF MCInit, CvInit, Told
<1>3. CvInv /\ Told /\ [MCNext]_<<cvAllVars, missed>> => Told'
  <2> SUFFICES ASSUME CvInv, Told, [MCNext]_<<cvAllVars, missed>> PROVE Told'
    OBVIOUS
  <2>1. CASE UNCHANGED <<cvAllVars, missed>>
    BY <2>1 DEF cvAllVars, Told, ToBeNotified
  <2> QED BY <2>1, CvNextTold
<1>4. CvInv /\ Told => AsleepOnlyIfMissed
  <2> SUFFICES ASSUME CvInv, Told, NEW t \in Task, ready, loop[t], t \in Range(m_waiters["cv"]),
                      \A u \in Task : cv[u] # "owes"
               PROVE  t \in missed
    BY DEF AsleepOnlyIfMissed
  <2>1. cv[t] = "wait_if"
    BY CvQueueAssumption DEF CvInv, CvSleepers, OfQueue
  <2> QED BY <2>1 DEF Told, ToBeNotified
<1> QED BY <1>1, <1>2, <1>3, <1>4, CvInvariant, PTL DEF MCSpec
=============================================================================
