--------------------------- MODULE ConditionVariable ---------------------------
(***************************************************************************)
(* coopsync_tbb::condition_variable: a wait queue and nothing else.  A     *)
(* wait releases the caller's lock, parks unconditionally and locks again; *)
(* the lock is a coopsync_tbb::mutex, so this module composes the two: the *)
(* tasks that wait for the lock are in queue "mutex", those that wait for  *)
(* a notification in queue "cv".                                           *)
(*                                                                         *)
(* The clients guard a flag, ready, by the lock: one sets it and then owes *)
(* a notification to all, others wait until it is set, anybody who has the *)
(* lock may clear it, and anybody may notify at any time.                  *)
(*                                                                         *)
(* cv[t] is the call of this class that t is in, pc[t] its place in the    *)
(* mutex's code when that call is in lock() or unlock():                   *)
(*   "none"     no call                                                    *)
(*   "pred"     wait(lock, pred), about to evaluate pred()                 *)
(*   "unlock"   wait(lock), in lock.unlock()                               *)
(*   "wait_if"  wait(lock), in m_waiters.wait_if                           *)
(*   "relock"   wait(lock), in lock.lock()                                 *)
(*   "owes"     no call, but the client is to call notify_all()            *)
(***************************************************************************)
EXTENDS Mutex

VARIABLES cv,      \* task -> the call of condition_variable it is in
          loop,    \* task -> wait(lock) is called by wait(lock, pred)
          ready    \* the clients' flag, protected by the mutex

cvVars == <<cv, loop, ready>>
cvAllVars == <<cv, loop, ready, m_locked, pc, m_waiters, m_waiters_mutex, susp,
               batch>>

ASSUME CvQueueAssumption == {"mutex", "cv"} \subseteq Queue

CvTypeOK == /\ TypeOK
            /\ cv \in [Task -> {"none", "pred", "unlock", "wait_if", "relock",
                                "owes"}]
            /\ loop \in [Task -> BOOLEAN]
            /\ ready \in BOOLEAN

CvInit == /\ Init
          /\ cv = [t \in Task |-> "none"]
          /\ loop = [t \in Task |-> FALSE]
          /\ ready = FALSE

Enter(t, call) == cv' = [cv EXCEPT ![t] = call]
Owner(t) == pc[t] = "cs" /\ Running(t)

-----------------------------------------------------------------------------
(* The clients: lock, try to lock, and, with the lock, change the flag. *)

ClientLock(t) == /\ cv[t] = "none"
                 /\ Lock(t) \/ TryLock(t)
                 /\ UNCHANGED cvVars
ClientUnlock(t) == /\ cv[t] \in {"none", "owes"}
                   /\ Unlock(t)
                   /\ UNCHANGED cvVars
SetReady(t) == /\ cv[t] = "none" /\ Owner(t)
               /\ ready' = TRUE
               /\ Enter(t, "owes")
               /\ UNCHANGED <<loop, mutexVars, wqVars>>
ClearReady(t) == /\ cv[t] = "none" /\ Owner(t)
                 /\ ready' = FALSE
                 /\ UNCHANGED <<cv, loop, mutexVars, wqVars>>

-----------------------------------------------------------------------------
(* wait(lock) and wait(lock, pred), called with the lock held *)

CallWait(t) == /\ cv[t] = "none" /\ Unlock(t)
               /\ Enter(t, "unlock")
               /\ loop' = [loop EXCEPT ![t] = FALSE]
               /\ UNCHANGED ready
CallWaitPred(t) == /\ cv[t] = "none" /\ Owner(t)
                   /\ Enter(t, "pred")
                   /\ loop' = [loop EXCEPT ![t] = TRUE]
                   /\ UNCHANGED <<ready, mutexVars, wqVars>>

(* while (!pred()): return, or wait(lock), which starts with unlock(). *)
Pred(t) == /\ cv[t] = "pred" /\ Owner(t)
           /\ \/ /\ ready
                 /\ Enter(t, "none")
                 /\ UNCHANGED <<mutexVars, wqVars>>
              \/ /\ ~ready
                 /\ Enter(t, "unlock")
                 /\ Unlock(t)
           /\ UNCHANGED <<loop, ready>>

(* unlock() has returned; the predicate of wait_if is always true, so the  *)
(* task suspends.                                                          *)
WaitForNotify(t) == /\ cv[t] = "unlock" /\ pc[t] = "out" /\ Running(t)
                    /\ Enter(t, "wait_if")
                    /\ Suspend(t)
                    /\ UNCHANGED <<loop, ready, mutexVars>>
RecheckNotify(t) == /\ cv[t] = "wait_if"
                    /\ Recheck(t, "cv", TRUE)
                    /\ UNCHANGED <<cvVars, mutexVars>>
PushNotify(t) == /\ cv[t] = "wait_if"
                 /\ Push(t, "cv")
                 /\ UNCHANGED <<cvVars, mutexVars>>

(* Resumed: lock again; then wait(lock) returns, perhaps to the loop. *)
Relock(t) == /\ cv[t] = "wait_if" /\ Lock(t)
             /\ Enter(t, "relock")
             /\ UNCHANGED <<loop, ready>>
WaitReturn(t) == /\ cv[t] = "relock" /\ Owner(t)
                 /\ Enter(t, IF loop[t] THEN "pred" ELSE "none")
                 /\ UNCHANGED <<loop, ready, mutexVars, wqVars>>

-----------------------------------------------------------------------------
(* notify_one() and notify_all(), called with the lock held or without *)

MayNotify(t) == pc[t] \in {"out", "cs"} /\ Running(t)
NotifyOne(t) == /\ cv[t] = "none" /\ MayNotify(t)
                /\ PopOne(t, "cv")
                /\ UNCHANGED <<cvVars, mutexVars>>
(* A mistaken variant: notify_all resumes one. *)
NotifyAll_One(t) == /\ cv[t] \in {"none", "owes"} /\ MayNotify(t)
                    /\ PopOne(t, "cv")
                    /\ Enter(t, "none")
                    /\ UNCHANGED <<loop, ready, mutexVars>>

NotifyAll(t) == /\ cv[t] \in {"none", "owes"} /\ MayNotify(t)
                /\ SwapAll(t, "cv")
                /\ Enter(t, "none")
                /\ UNCHANGED <<loop, ready, mutexVars>>

-----------------------------------------------------------------------------
(* The mutex's own steps inside lock() and unlock(), whoever called them.  *)
InMutex(t) == /\ \/ pc[t] = "lock" /\ TryLock(t)
                 \/ TryLockFails(t) \/ WaitIf(t) \/ RecheckLocked(t)
                 \/ PushWaiter(t) \/ BounceBack(t)
                 \/ UnlockResumeOne(t) \/ ResumeWaiter(t)
              /\ UNCHANGED cvVars

(* The steps that do not wait for a client's decision: those inside calls, *)
(* the notification that is owed and, with no call to make, the unlock.    *)
CvStep(t) == \/ InMutex(t)
             \/ ClientUnlock(t)
             \/ Pred(t) \/ WaitForNotify(t) \/ RecheckNotify(t)
             \/ PushNotify(t) \/ Relock(t) \/ WaitReturn(t)
             \/ cv[t] = "owes" /\ NotifyAll(t)

ClientCall(t) == \/ ClientLock(t) \/ SetReady(t) \/ ClearReady(t)
                 \/ CallWait(t) \/ CallWaitPred(t)
                 \/ NotifyOne(t)
                 \/ cv[t] = "none" /\ NotifyAll(t)

CvNext == \E t \in Task : ClientCall(t) \/ CvStep(t)

CvSpec == CvInit /\ [][CvNext]_cvAllVars
CvFairSpec == CvSpec /\ \A t \in Task : WF_cvAllVars(CvStep(t))

-----------------------------------------------------------------------------

(* The lock survives the composition: with tasks that unlock and lock it   *)
(* from inside wait(), it still has one owner and loses no wake-up of its  *)
(* own waiters (condition_variable.hpp:70-77, mutex.cpp:21-34).            *)
LockStillSound ==
    /\ OwnedExclusively
    /\ (\E t \in Task : pc[t] = "lock" /\ susp[t] \in {"push", "parked"})
         /\ ~m_locked
       => \E u \in Task : \/ pc[u] = "resume_one"
                          \/ Range(batch[u]) \cap {t \in Task : pc[t] = "lock"}
                               # {}
                          \/ /\ pc[u] \in {"lock", "wait_if"}
                             /\ susp[u] \in {"idle", "suspended", "bounce"}

(* Tasks that have been notified and are to return from wait(), holding    *)
(* the lock: each of them is on its way, in a batch, or in lock().         *)
Notified(t) == \/ cv[t] = "wait_if" /\ susp[t] = "idle"
               \/ cv[t] = "wait_if" /\ \E u \in Task : t \in Range(batch[u])
               \/ cv[t] = "relock"

(* condition_variable.hpp:45-49: a notified task returns from wait() with  *)
(* the lock, provided that clients stop making new calls; the lock it has  *)
(* to take again may be held or contended, but it is not lost.             *)
CvNoNewCalls == <>[][\A t \in Task : ~ClientCall(t)]_cvAllVars
NotifiedReturn == CvNoNewCalls
    => \A t \in Task : Notified(t) ~> Owner(t) /\ cv[t] \in {"none", "pred"}
=============================================================================
