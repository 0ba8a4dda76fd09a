--------------------------------- MODULE Mutex ---------------------------------
(***************************************************************************)
(* coopsync_tbb::mutex: an atomic flag and a wait queue.  lock() retries a *)
(* compare-and-swap and waits in between, unlock() clears the flag and     *)
(* resumes one waiter, which competes for the flag again with every task   *)
(* that calls lock() or try_lock() in the meantime.                        *)
(*                                                                         *)
(* pc[t] is where task t is in the code:                                   *)
(*   "out"         in no call and not the owner                            *)
(*   "lock"        in lock(), at the try_lock() of the loop condition (or, *)
(*                 when susp[t] is not "idle", inside wait_if before it)   *)
(*   "wait_if"     in lock(), try_lock() failed, wait_if is called         *)
(*   "cs"          the owner, in no call                                   *)
(*   "resume_one"  in unlock(), m_locked is cleared                        *)
(***************************************************************************)
EXTENDS WaitQueue

VARIABLES m_locked,   \* std::atomic<bool>
          pc

mutexVars == <<m_locked, pc>>
vars == <<m_locked, pc, m_waiters, m_waiters_mutex, susp, batch>>

ASSUME MutexQueueAssumption == "mutex" \in Queue

PC == {"out", "lock", "wait_if", "cs", "resume_one"}

TypeOK == /\ WQTypeOK
          /\ m_locked \in BOOLEAN
          /\ pc \in [Task -> PC]

Init == /\ WQInit
        /\ m_locked = FALSE
        /\ pc = [t \in Task |-> "out"]

-----------------------------------------------------------------------------
(* lock() is called. *)
Lock(t) == /\ pc[t] = "out"
           /\ Running(t)
           /\ pc' = [pc EXCEPT ![t] = "lock"]
           /\ UNCHANGED <<m_locked, m_waiters, m_waiters_mutex, susp, batch>>

(* A mistaken variant: a store instead of a compare-and-swap. *)
TryLock_Store(t) == /\ pc[t] \in {"out", "lock"}
                    /\ Running(t)
                    /\ m_locked' = TRUE
                    /\ pc' = [pc EXCEPT ![t] = "cs"]
                    /\ UNCHANGED <<m_waiters, m_waiters_mutex, susp, batch>>

(* The compare-and-swap of try_lock() succeeds, called by lock() or by the *)
(* client.  A failed try_lock() of a client changes nothing.               *)
TryLock(t) == /\ pc[t] \in {"out", "lock"}
              /\ Running(t)
              /\ ~m_locked
              /\ m_locked' = TRUE
              /\ pc' = [pc EXCEPT ![t] = "cs"]
              /\ UNCHANGED <<m_waiters, m_waiters_mutex, susp, batch>>

(* try_lock() fails inside lock(). *)
TryLockFails(t) == /\ pc[t] = "lock"
                   /\ Running(t)
                   /\ m_locked
                   /\ pc' = [pc EXCEPT ![t] = "wait_if"]
                   /\ UNCHANGED <<m_locked, m_waiters, m_waiters_mutex, susp,
                                  batch>>

(* The fast path of wait_if: suspend if the flag is set, else return to    *)
(* the loop condition.                                                     *)
WaitIf(t) == /\ pc[t] = "wait_if"
             /\ Running(t)
             /\ pc' = [pc EXCEPT ![t] = "lock"]
             /\ \/ m_locked /\ Suspend(t)
                \/ ~m_locked /\ UNCHANGED wqVars
             /\ UNCHANGED m_locked

(* The rest of wait_if, in the callback of the suspended task. *)
RecheckLocked(t) == /\ pc[t] = "lock"
                    /\ Recheck(t, "mutex", m_locked)
                    /\ UNCHANGED mutexVars
PushWaiter(t) == /\ pc[t] = "lock"
                 /\ Push(t, "mutex")
                 /\ UNCHANGED mutexVars
BounceBack(t) == /\ pc[t] = "lock"
                 /\ Bounce(t)
                 /\ UNCHANGED mutexVars

(* unlock(), called by the owner: clear the flag... *)
Unlock(t) == /\ pc[t] = "cs"
             /\ Running(t)
             /\ m_locked' = FALSE
             /\ pc' = [pc EXCEPT ![t] = "resume_one"]
             /\ UNCHANGED <<m_waiters, m_waiters_mutex, susp, batch>>

(* A mistaken variant: nobody is resumed. *)
UnlockResumeOne_Forgets(t) == /\ pc[t] = "resume_one"
                              /\ Running(t)
                              /\ pc' = [pc EXCEPT ![t] = "out"]
                              /\ UNCHANGED <<m_locked, wqVars>>

(* ... and wake one waiter. *)
UnlockResumeOne(t) == /\ pc[t] = "resume_one"
                      /\ Running(t)
                      /\ PopOne(t, "mutex")
                      /\ pc' = [pc EXCEPT ![t] = "out"]
                      /\ UNCHANGED m_locked
ResumeWaiter(t) == ResumeNext(t) /\ UNCHANGED mutexVars

-----------------------------------------------------------------------------
(* The steps of t inside a call, or towards the call of unlock() that an   *)
(* owner owes: a thread of the pool runs them, so they do not stop.        *)
Step(t) == \/ pc[t] = "lock" /\ TryLock(t)
           \/ TryLockFails(t)
           \/ WaitIf(t)
           \/ RecheckLocked(t)
           \/ PushWaiter(t)
           \/ BounceBack(t)
           \/ Unlock(t)
           \/ UnlockResumeOne(t)
           \/ ResumeWaiter(t)

Next == \E t \in Task : Lock(t) \/ TryLock(t) \/ Step(t)

Spec == Init /\ [][Next]_vars
FairSpec == Spec /\ \A t \in Task : WF_vars(Step(t))

-----------------------------------------------------------------------------
(* Mutual exclusion: the flag is set exactly while one task owns the       *)
(* mutex; at most one does.                                                *)
MutualExclusion == \A t, u \in Task : pc[t] = "cs" /\ pc[u] = "cs" => t = u
LockedIffOwned == m_locked <=> \E t \in Task : pc[t] = "cs"
OwnedExclusively == MutualExclusion /\ LockedIffOwned

(* Only lock() waits, and it waits in the mutex's own queue. *)
SuspendedInLock ==
    /\ \A t \in Task : susp[t] # "idle" => pc[t] = "lock"
    /\ \A q \in Queue \ {"mutex"} : /\ m_waiters[q] = <<>>
                                   /\ m_waiters_mutex[q] = NoTask

(* A task that will look at the queue, resume somebody, or look at the     *)
(* flag again before it can park.                                          *)
Waker(u) == \/ pc[u] = "resume_one"
            \/ batch[u] # <<>>
            \/ /\ pc[u] \in {"lock", "wait_if"}
               /\ susp[u] \in {"idle", "suspended", "bounce"}

(* No lost wake-up (mutex.cpp:21-34): unlock() clears the flag before it   *)
(* looks at the queue and lock() checks the flag under the queue's mutex,  *)
(* so a task never sleeps on a free mutex without somebody on its way.     *)
NoLostWakeup == (\E t \in Task : susp[t] \in {"push", "parked"}) /\ ~m_locked
                    => \E u \in Task : Waker(u)

(* Progress: once tasks stop entering by lock() or try_lock(), every task  *)
(* inside lock() gets the mutex.  Without that proviso it may starve: the  *)
(* woken task competes with newcomers.                                     *)
NoNewCalls == <>[][\A t \in Task : pc[t] = "out" => pc'[t] = "out"]_vars
WaitersAcquire == NoNewCalls
    => \A t \in Task : pc[t] \in {"lock", "wait_if"} ~> pc[t] = "cs"

-----------------------------------------------------------------------------
(* mutex.hpp:47-60: a mutex is a lock.  Its owner is the task at "cs"; a   *)
(* task anywhere in lock() is waiting.                                     *)
status == [t \in Task |-> CASE pc[t] = "cs" -> "in"
                            [] pc[t] \in {"lock", "wait_if"} -> "waiting"
                            [] OTHER -> "out"]
ALock == INSTANCE AbstractLock
ImplementsLock == ALock!Spec
=============================================================================
