------------------------------ MODULE SharedMutex ------------------------------
(***************************************************************************)
(* coopsync_tbb::shared_mutex: an atomic int and two wait queues.  A       *)
(* release that leaves no owner first offers the mutex to one waiting      *)
(* writer, without giving it up in between (direct hand-off), and only if  *)
(* there is none does it clear the state and resume all waiting readers.   *)
(*                                                                         *)
(* pc[t]:                                                                  *)
(*   "out"           in no call, not an owner                              *)
(*   "lock"          lock(), before the first try_lock()                   *)
(*   "lock_wait_if"  lock(), wait_if is called (or susp[t] is not "idle")  *)
(*   "lock_return"   lock(), inside or after the suspension in wait_if     *)
(*   "writer"        exclusive owner                                       *)
(*   "shared"        lock_shared(), before try_lock_shared() (or inside    *)
(*                   the suspension before it)                             *)
(*   "shared_wait_if"  lock_shared(), wait_if is called                    *)
(*   "reader"        shared owner                                          *)
(*   "transition"    unlock_shared() of the last reader, m_state is -2     *)
(*   "handoff"       a release, before m_writer_waiters.resume_one()       *)
(*   "clear"         a release, resume_one() found no writer               *)
(*   "resume_all"    a release, before m_reader_waiters.resume_all()       *)
(***************************************************************************)
EXTENDS WaitQueue, Integers

VARIABLES m_state,   \* readers, or one of the two negative values below
          pc

smVars == <<m_state, pc>>
vars == <<m_state, pc, m_waiters, m_waiters_mutex, susp, batch>>

ASSUME SharedMutexQueues == {"writer", "reader"} \subseteq Queue
ASSUME SharedMutexTasks == IsFiniteSet(Task)

k_transition == -2
k_writer_locked == -1

PC == {"out", "lock", "lock_wait_if", "lock_return", "writer",
       "shared", "shared_wait_if", "reader",
       "transition", "handoff", "clear", "resume_all"}

TypeOK == /\ WQTypeOK
          /\ m_state \in k_transition..Cardinality(Task)
          /\ pc \in [Task -> PC]

Init == /\ WQInit
        /\ m_state = 0
        /\ pc = [t \in Task |-> "out"]

(* A step of a running task from one place to another that leaves the wait *)
(* queues alone.                                                           *)
Goto(t, from, to) == /\ pc[t] \in from
                     /\ Running(t)
                     /\ pc' = [pc EXCEPT ![t] = to]
                     /\ UNCHANGED wqVars

-----------------------------------------------------------------------------
(* lock() and try_lock() *)

Lock(t) == Goto(t, {"out"}, "lock") /\ UNCHANGED m_state

(* try_lock() succeeds, for the client or as the first try of lock(). *)
TryLock(t) == /\ Goto(t, {"out", "lock"}, "writer")
              /\ m_state = 0
              /\ m_state' = k_writer_locked
TryLockFails(t) == /\ Goto(t, {"lock"}, "lock_wait_if")
                   /\ m_state # 0
                   /\ UNCHANGED m_state

(* The predicate of the writers' wait_if is !try_lock(): evaluating it     *)
(* takes the mutex when it is free.                                        *)
WriterPredicate == m_state # 0
TryLockEffect == m_state' = IF m_state = 0 THEN k_writer_locked ELSE m_state

LockWaitIf(t) == /\ pc[t] = "lock_wait_if"
                 /\ Running(t)
                 /\ pc' = [pc EXCEPT ![t] = "lock_return"]
                 /\ TryLockEffect
                 /\ \/ WriterPredicate /\ Suspend(t)
                    \/ ~WriterPredicate /\ UNCHANGED wqVars
RecheckWriter(t) == /\ pc[t] = "lock_return"
                    /\ Recheck(t, "writer", WriterPredicate)
                    /\ TryLockEffect
                    /\ UNCHANGED pc
PushWriter(t) == /\ pc[t] = "lock_return"
                 /\ Push(t, "writer")
                 /\ UNCHANGED smVars

(* wait_if is not in a loop: the code asserts that the mutex is locked on  *)
(* this task's behalf and returns from lock().                             *)
LockReturn(t) == Goto(t, {"lock_return"}, "writer") /\ UNCHANGED m_state

-----------------------------------------------------------------------------
(* lock_shared() and try_lock_shared() *)

LockShared(t) == Goto(t, {"out"}, "shared") /\ UNCHANGED m_state

TryLockShared(t) == /\ Goto(t, {"out", "shared"}, "reader")
                    /\ m_state >= 0
                    /\ m_state' = m_state + 1
TryLockSharedFails(t) == /\ Goto(t, {"shared"}, "shared_wait_if")
                         /\ m_state < 0
                         /\ UNCHANGED m_state

SharedWaitIf(t) == /\ pc[t] = "shared_wait_if"
                   /\ Running(t)
                   /\ pc' = [pc EXCEPT ![t] = "shared"]
                   /\ \/ m_state < 0 /\ Suspend(t)
                      \/ m_state >= 0 /\ UNCHANGED wqVars
                   /\ UNCHANGED m_state
RecheckReader(t) == /\ pc[t] = "shared"
                    /\ Recheck(t, "reader", m_state < 0)
                    /\ UNCHANGED smVars
PushReader(t) == /\ pc[t] = "shared"
                 /\ Push(t, "reader")
                 /\ UNCHANGED smVars

BounceBack(t) == Bounce(t) /\ UNCHANGED smVars

-----------------------------------------------------------------------------
(* unlock() and unlock_shared() *)

Unlock(t) == Goto(t, {"writer"}, "handoff") /\ UNCHANGED m_state

(* The compare-and-swap loop of unlock_shared(): one of several readers    *)
(* leaves, the last one keeps everybody out while it decides.              *)
UnlockShared(t) == /\ m_state > 1
                   /\ Goto(t, {"reader"}, "out")
                   /\ m_state' = m_state - 1
UnlockLastShared(t) == /\ m_state = 1
                       /\ Goto(t, {"reader"}, "transition")
                       /\ m_state' = k_transition
LockForWriter(t) == /\ Goto(t, {"transition"}, "handoff")
                    /\ m_state' = k_writer_locked

(* A mistaken variant: the state is cleared after a hand-off as well. *)
HandOff_Clears(t) == /\ pc[t] = "handoff"
                     /\ Running(t)
                     /\ PopOne(t, "writer")
                     /\ pc' = [pc EXCEPT ![t] = "clear"]
                     /\ UNCHANGED m_state

(* The tail that both releases share: hand off to the first writer, or     *)
(* clear the state and resume the readers.                                 *)
HandOff(t) == /\ pc[t] = "handoff"
              /\ Running(t)
              /\ PopOne(t, "writer")
              /\ pc' = [pc EXCEPT ![t] = IF m_waiters["writer"] # <<>>
                                           THEN "out" ELSE "clear"]
              /\ UNCHANGED m_state
Clear(t) == Goto(t, {"clear"}, "resume_all") /\ m_state' = 0
(* A mistaken variant: the readers are not resumed. *)
ResumeReaders_Forgets(t) == /\ Goto(t, {"resume_all"}, "out")
                            /\ UNCHANGED m_state

ResumeReaders(t) == /\ pc[t] = "resume_all"
                    /\ Running(t)
                    /\ SwapAll(t, "reader")
                    /\ pc' = [pc EXCEPT ![t] = "out"]
                    /\ UNCHANGED m_state

ResumeWaiter(t) == ResumeNext(t) /\ UNCHANGED smVars

-----------------------------------------------------------------------------
InLock(t) == \/ pc[t] = "lock" /\ TryLock(t)
             \/ TryLockFails(t)
             \/ LockWaitIf(t)
             \/ RecheckWriter(t)
             \/ PushWriter(t)
             \/ LockReturn(t)
InLockShared(t) == \/ pc[t] = "shared" /\ TryLockShared(t)
                   \/ TryLockSharedFails(t)
                   \/ SharedWaitIf(t)
                   \/ RecheckReader(t)
                   \/ PushReader(t)
Releasing(t) == \/ Unlock(t)
                \/ UnlockShared(t)
                \/ UnlockLastShared(t)
                \/ LockForWriter(t)
                \/ HandOff(t)
                \/ Clear(t)
                \/ ResumeReaders(t)
Step(t) == InLock(t) \/ InLockShared(t) \/ Releasing(t)
             \/ BounceBack(t) \/ ResumeWaiter(t)

Next == \E t \in Task : \/ Lock(t) \/ TryLock(t)
                        \/ LockShared(t) \/ TryLockShared(t)
                        \/ Step(t)

Spec == Init /\ [][Next]_vars
FairSpec == Spec /\ \A t \in Task : WF_vars(Step(t))

-----------------------------------------------------------------------------
(* Who m_state says owns the mutex.  Exclusive ownership passes from the   *)
(* task that releases to the writer it pops, which has it from then on,    *)
(* suspended or not.                                                       *)
HasExclusive(t) ==
    \/ pc[t] \in {"writer", "handoff", "clear"}
    \/ /\ pc[t] = "lock_return"
       /\ \/ susp[t] \in {"idle", "bounce"}
          \/ \E u \in Task : t \in Range(batch[u])

(* One word tells the truth about the owners through every hand-off: the   *)
(* assertions of lock(), unlock() and unlock_shared() hold, a hand-off is  *)
(* to one task and nobody barges into it, and the reader count is exact    *)
(* (shared_mutex.cpp:29-32, 36-37, 71, 82-98).                             *)
StateMatchesOwners ==
    LET owners == {t \in Task : HasExclusive(t)}
        readers == {t \in Task : pc[t] = "reader"}
        leaving == {t \in Task : pc[t] = "transition"}
    IN  /\ Cardinality(owners) = IF m_state = k_writer_locked THEN 1 ELSE 0
        /\ Cardinality(leaving) = IF m_state = k_transition THEN 1 ELSE 0
        /\ Cardinality(readers) = IF m_state >= 0 THEN m_state ELSE 0

(* No lost wake-up of a reader (shared_mutex.cpp:43-45, 60-65, 97-98): a   *)
(* reader that sleeps, or is about to, while the mutex can be shared is in *)
(* the hands of a task that is about to resume it.                         *)
ReaderNotForgotten ==
    \A t \in Task :
      pc[t] = "shared" /\ susp[t] \in {"push", "parked"} /\ m_state >= 0
        => \E u \in Task : pc[u] = "resume_all" \/ t \in Range(batch[u])

(* Progress of readers: once tasks stop entering the mutex, every reader   *)
(* inside lock_shared() gets in.                                           *)
NoNewCalls == <>[][\A t \in Task : pc[t] = "out" => pc'[t] = "out"]_vars
ReadersAcquire == NoNewCalls
    => \A t \in Task : pc[t] \in {"shared", "shared_wait_if"} ~> pc[t] = "reader"

(* Hand-offs serve writers in order: a writer in the queue gets the mutex  *)
(* if releases keep reaching the hand-off, whoever else comes and goes.    *)
ParkedWritersServed ==
    []<>(\E u \in Task : pc[u] = "handoff")
      => \A t \in Task :
           pc[t] = "lock_return" /\ susp[t] = "parked" ~> pc[t] = "writer"

-----------------------------------------------------------------------------
(* shared_mutex.hpp:51-86: the two modes of a reader-writer lock. *)
status == [t \in Task |->
             CASE pc[t] = "writer" -> "exclusive"
               [] pc[t] = "reader" -> "shared"
               [] pc[t] \in {"lock", "lock_wait_if", "lock_return",
                             "shared", "shared_wait_if"} -> "waiting"
               [] OTHER -> "out"]
ASharedLock == INSTANCE AbstractSharedLock
ImplementsSharedLock == ASharedLock!Spec

-----------------------------------------------------------------------------
(* shared_mutex.hpp:55-57 says that lock() suspends "until the             *)
(* shared_mutex becomes available", and 63-66 that a release with tasks    *)
(* suspended resumes one or a batch of them: a writer does not stay parked *)
(* on a free mutex with every other task out of it.                        *)
NoStrandedWriter ==
    ~ \E t \in Task : /\ pc[t] = "lock_return"
                      /\ susp[t] = "parked"
                      /\ m_state = 0
                      /\ \A u \in Task \ {t} : pc[u] = "out" /\ Running(u)
=============================================================================
