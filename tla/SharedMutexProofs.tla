--------------------------- MODULE SharedMutexProofs ---------------------------
(***************************************************************************)
(* The shared_mutex, for any finite set of tasks: m_state tells who owns   *)
(* it through every hand-off, no reader is forgotten, it implements the    *)
(* abstract reader-writer lock, and the members of a scoped_lock tell the  *)
(* mode of its task.                                                       *)
(*                                                                         *)
(* That a hand-off is to one task and to a writer needs QueuesSorted: who  *)
(* is linked in the writers' queue is in lock(), who is linked in the      *)
(* readers' queue is in lock_shared().  That it passes ownership on and    *)
(* does not double it needs NodeLifetime: the writer that resume_one pops  *)
(* was in no batch before.                                                 *)
(***************************************************************************)
EXTENDS SharedScopedLock, WaitQueueProofs, FiniteSetTheorems

(* The three sets of tasks that m_state tells about. *)
Owners == {t \in Task : HasExclusive(t)}
Readers == {t \in Task : pc[t] = "reader"}
Leaving == {t \in Task : pc[t] = "transition"}

(* StateMatchesOwners with the cardinalities below two spelt out. *)
StateTells ==
    /\ m_state \in Int /\ m_state >= k_transition
    /\ m_state = k_writer_locked => \E t \in Task : Owners = {t}
    /\ m_state # k_writer_locked => Owners = {}
    /\ m_state = k_transition => \E t \in Task : Leaving = {t}
    /\ m_state # k_transition => Leaving = {}
    /\ Cardinality(Readers) = IF m_state >= 0 THEN m_state ELSE 0

(* Who sleeps is in one of the two waits, and its node is in the queue of  *)
(* that wait or in a batch.                                                *)
QueuesSorted ==
    /\ \A t \in Task : susp[t] # "idle" => pc[t] \in {"lock_return", "shared"}
    /\ \A t \in Range(m_waiters["writer"]) : pc[t] = "lock_return"
    /\ \A t \in Range(m_waiters["reader"]) : pc[t] = "shared"
    /\ \A t \in Task : m_waiters_mutex["writer"] = t => pc[t] = "lock_return"
    /\ \A t \in Task : m_waiters_mutex["reader"] = t => pc[t] = "shared"
    /\ \A q \in Queue \ {"writer", "reader"} :
         m_waiters[q] = <<>> /\ m_waiters_mutex[q] = NoTask

PCType == pc \in [Task -> PC]

SharedMutexInv == WQInv /\ PCType /\ StateTells /\ QueuesSorted /\ ReaderNotForgotten

-----------------------------------------------------------------------------
(* The sets and the cardinalities. *)

(* Finite sets, by the assumption on the tasks. *)
LEMMA FiniteOwners ==
    IsFiniteSet(Owners) /\ IsFiniteSet(Readers) /\ IsFiniteSet(Leaving)
BY SharedMutexTasks, FS_Subset DEF Owners, Readers, Leaving

(* StateTells says what StateMatchesOwners says. *)
LEMMA TellsOwners == StateTells => StateMatchesOwners
<1> SUFFICES ASSUME StateTells PROVE StateMatchesOwners
  OBVIOUS
<1>1. Cardinality(Owners) = IF m_state = k_writer_locked THEN 1 ELSE 0
  BY FS_EmptySet, FS_Singleton DEF StateTells
<1>2. Cardinality(Leaving) = IF m_state = k_transition THEN 1 ELSE 0
  BY FS_EmptySet, FS_Singleton DEF StateTells
<1>3. Cardinality(Readers) = IF m_state >= 0 THEN m_state ELSE 0
  BY DEF StateTells
<1> QED BY <1>1, <1>2, <1>3 DEF StateMatchesOwners, Owners, Readers, Leaving

(* No more readers than tasks. *)
LEMMA TellsType == WQInv /\ PCType /\ StateTells => TypeOK
<1> SUFFICES ASSUME WQInv, PCType, StateTells PROVE TypeOK
  OBVIOUS
<1>1. Cardinality(Readers) <= Cardinality(Task) /\ Cardinality(Task) \in Nat
  BY SharedMutexTasks, FS_Subset, FS_CardinalityType DEF Readers
<1>2. m_state \in k_transition..Cardinality(Task)
  BY <1>1 DEF StateTells, k_transition, k_writer_locked
<1> QED BY <1>2 DEF TypeOK, WQInv, PCType

(* Without readers the count is zero. *)
LEMMA NoReaders ==
  ASSUME StateTells, m_state <= 0
  PROVE  Readers = {}
<1>1. Cardinality(Readers) = 0
  BY DEF StateTells
<1> QED BY <1>1, FiniteOwners, FS_EmptySet

(* A step that leaves m_state and the three sets as they are. *)
LEMMA TellsFrame ==
  ASSUME StateTells, m_state' = m_state,
         \A u \in Task : /\ HasExclusive(u)' <=> HasExclusive(u)
                         /\ pc'[u] = "reader" <=> pc[u] = "reader"
                         /\ pc'[u] = "transition" <=> pc[u] = "transition"
  PROVE  StateTells'
<1>1. Owners' = Owners /\ Readers' = Readers /\ Leaving' = Leaving
  BY DEF Owners, Readers, Leaving
<1> QED BY <1>1 DEF StateTells, k_transition, k_writer_locked

(* A step that makes t the exclusive owner of a free mutex. *)
LEMMA TellsTaken ==
  ASSUME StateTells, NEW t \in Task, m_state = 0, m_state' = k_writer_locked,
         HasExclusive(t)',
         \A u \in Task : /\ u # t => (HasExclusive(u)' <=> HasExclusive(u))
                         /\ pc'[u] = "reader" => pc[u] = "reader"
                         /\ pc'[u] = "transition" => pc[u] = "transition"
  PROVE  StateTells'
<1> USE DEF k_transition, k_writer_locked
<1>1. Owners = {} /\ Leaving = {} /\ Readers = {}
  BY NoReaders DEF StateTells
<1>2. Owners' = {t} /\ Leaving' = {} /\ Readers' = {}
  BY <1>1 DEF Owners, Readers, Leaving
<1> QED BY <1>2, FS_EmptySet DEF StateTells
-----------------------------------------------------------------------------
(* The initial state. *)

(* A shared_mutex nobody has used yet. *)
LEMMA InitInv == Init => SharedMutexInv
<1> SUFFICES ASSUME Init PROVE SharedMutexInv
  OBVIOUS
<1> USE DEF Init
<1>1. WQInv
  BY WQInitInv
<1>2. PCType
  BY DEF PCType, PC
<1>3. Owners = {} /\ Readers = {} /\ Leaving = {}
  BY DEF Owners, Readers, Leaving, HasExclusive
<1>4. StateTells
  BY <1>3, FS_EmptySet DEF StateTells, k_transition, k_writer_locked
<1>5. QueuesSorted
  BY RangeEmpty, SharedMutexQueues, NoTaskAssumption DEF WQInit, QueuesSorted
<1>6. ReaderNotForgotten
  BY DEF WQInit, ReaderNotForgotten
<1> QED BY <1>1, <1>2, <1>4, <1>5, <1>6 DEF SharedMutexInv

-----------------------------------------------------------------------------
(* One lemma for each conjunct of the invariant. *)

(* Whatever step is taken, the wait queues keep their own invariant. *)
LEMMA NextWQInv ==
  ASSUME SharedMutexInv, [Next]_vars
  PROVE  WQInv'
<1> USE SharedMutexQueues DEF SharedMutexInv
<1>0. ASSUME UNCHANGED wqVars PROVE WQInv'
  BY <1>0 DEF wqVars, WQInv, WQTypeOK, NodeLifetime, ListsDisjoint, InSomeList,
     PushingHoldsLock
<1>1. ASSUME NEW t \in Task, NEW from, NEW to, Goto(t, from, to) PROVE WQInv'
  BY <1>0, <1>1 DEF Goto
<1>2. ASSUME NEW t \in Task, LockWaitIf(t) PROVE WQInv'
  BY <1>0, <1>2, SuspendInv DEF LockWaitIf
<1>3. ASSUME NEW t \in Task, SharedWaitIf(t) PROVE WQInv'
  BY <1>0, <1>3, SuspendInv DEF SharedWaitIf
<1>4. ASSUME NEW t \in Task, RecheckWriter(t) PROVE WQInv'
  BY <1>4, RecheckInv DEF RecheckWriter, WriterPredicate
<1>5. ASSUME NEW t \in Task, RecheckReader(t) PROVE WQInv'
  <2>1. (m_state < 0) \in BOOLEAN
    OBVIOUS
  <2>2. Recheck(t, "reader", m_state < 0) /\ "reader" \in Queue /\ WQInv
    BY <1>5 DEF RecheckReader
  <2> HIDE DEF SharedMutexInv
  <2> QED BY <2>1, <2>2, RecheckInv
<1>6. ASSUME NEW t \in Task, PushWriter(t) \/ PushReader(t) PROVE WQInv'
  BY <1>6, PushInv DEF PushWriter, PushReader
<1>7. ASSUME NEW t \in Task, BounceBack(t) PROVE WQInv'
  BY <1>7, BounceInv DEF BounceBack
<1>8. ASSUME NEW t \in Task, HandOff(t) PROVE WQInv'
  BY <1>8, PopNInv DEF HandOff, PopOne
<1>9. ASSUME NEW t \in Task, ResumeReaders(t) PROVE WQInv'
  BY <1>9, SwapAllInv DEF ResumeReaders
<1>10. ASSUME NEW t \in Task, ResumeWaiter(t) PROVE WQInv'
  BY <1>10, ResumeNextInv DEF ResumeWaiter
<1>11. CASE UNCHANGED vars
  BY <1>0, <1>11 DEF vars, wqVars
<1>12. ASSUME NEW t \in Task,
              Lock(t) \/ TryLock(t) \/ TryLockFails(t) \/ LockReturn(t)
                \/ LockShared(t) \/ TryLockShared(t) \/ TryLockSharedFails(t)
                \/ Unlock(t) \/ UnlockShared(t) \/ UnlockLastShared(t)
                \/ LockForWriter(t) \/ Clear(t)
       PROVE  WQInv'
  BY <1>1, <1>12 DEF Lock, TryLock, TryLockFails, LockReturn, LockShared,
     TryLockShared, TryLockSharedFails, Unlock, UnlockShared, UnlockLastShared,
     LockForWriter, Clear
<1> QED BY <1>2, <1>3, <1>4, <1>5, <1>6, <1>7, <1>8, <1>9, <1>10, <1>11, <1>12
        DEF Next, Step, InLock, InLockShared, Releasing

(* The places in the code. *)
LEMMA NextPCType ==
  ASSUME SharedMutexInv, [Next]_vars
  PROVE  PCType'
BY DEF SharedMutexInv, PCType, PC, Next, Step, InLock, InLockShared, Releasing,
   Goto, Lock, TryLock, TryLockFails, LockWaitIf, RecheckWriter, PushWriter,
   LockReturn, LockShared, TryLockShared, TryLockSharedFails, SharedWaitIf,
   RecheckReader, PushReader, BounceBack, Unlock, UnlockShared,
   UnlockLastShared, LockForWriter, HandOff, Clear, ResumeReaders,
   ResumeWaiter, smVars, vars

(* Exclusive ownership of a task that is at the same place, as suspended   *)
(* as before, and in the same batch.                                       *)
LEMMA ExclusiveFrame ==
  ASSUME NEW u \in Task, pc'[u] = pc[u], susp'[u] = susp[u], batch' = batch
  PROVE  HasExclusive(u)' <=> HasExclusive(u)
BY DEF HasExclusive

(* lock(), up to the point where the task owns the mutex or sleeps. *)
LEMMA LockTells ==
  ASSUME SharedMutexInv, NEW t \in Task,
         Lock(t) \/ TryLock(t) \/ TryLockFails(t) \/ LockWaitIf(t)
           \/ RecheckWriter(t) \/ PushWriter(t) \/ LockReturn(t)
  PROVE  StateTells'
<1> USE DEF SharedMutexInv
<1>0. PCType /\ StateTells /\ susp \in [Task -> SuspState]
  BY DEF WQInv, WQTypeOK
<1>1. susp[t] # "parked" => \A u \in Task : t \notin Range(batch[u])
  BY UnparkedUnlisted
<1>2. CASE Lock(t) \/ TryLockFails(t) \/ LockReturn(t)
  <2>1. /\ pc'[t] # "reader" /\ pc[t] # "reader" /\ pc'[t] # "transition"
        /\ pc[t] # "transition" /\ m_state' = m_state /\ batch' = batch
        /\ HasExclusive(t)' <=> HasExclusive(t)
        /\ \A u \in Task : u # t => pc'[u] = pc[u] /\ susp'[u] = susp[u]
    BY <1>0, <1>2 DEF Lock, TryLockFails, LockReturn, Goto, wqVars, HasExclusive,
       PCType, Running
  <2> QED BY <1>0, <2>1, ExclusiveFrame, TellsFrame
<1>3. CASE TryLock(t)
  <2>1. /\ pc'[t] = "writer" /\ batch' = batch
        /\ m_state = 0 /\ m_state' = k_writer_locked
        /\ \A u \in Task : u # t => pc'[u] = pc[u] /\ susp'[u] = susp[u]
    BY <1>0, <1>3 DEF TryLock, Goto, wqVars, PCType
  <2>2. HasExclusive(t)'
    BY <2>1 DEF HasExclusive
  <2> QED BY <1>0, <2>1, <2>2, ExclusiveFrame, TellsTaken
<1>4. CASE LockWaitIf(t)
  <2>1. /\ pc'[t] = "lock_return" /\ batch' = batch /\ pc[t] = "lock_wait_if"
        /\ susp[t] = "idle"
        /\ m_state' = IF m_state = 0 THEN k_writer_locked ELSE m_state
        /\ susp'[t] = IF m_state = 0 THEN "idle" ELSE "suspended"
        /\ \A u \in Task : u # t => pc'[u] = pc[u] /\ susp'[u] = susp[u]
    BY <1>0, <1>4 DEF LockWaitIf, TryLockEffect, WriterPredicate, Suspend,
       wqVars, PCType, Running
  <2>2. CASE m_state = 0
    <3>1. HasExclusive(t)'
      BY <2>1, <2>2 DEF HasExclusive
    <3> QED BY <1>0, <2>1, <2>2, <3>1, ExclusiveFrame, TellsTaken
  <2>3. CASE m_state # 0
    <3>1. ~HasExclusive(t)' /\ ~HasExclusive(t)
      BY <1>1, <2>1, <2>3 DEF HasExclusive
    <3> QED BY <1>0, <2>1, <2>3, <3>1, ExclusiveFrame, TellsFrame
  <2> QED BY <2>2, <2>3
<1>5. CASE RecheckWriter(t)
  <2>1. /\ pc' = pc /\ batch' = batch /\ pc[t] = "lock_return"
        /\ susp[t] = "suspended"
        /\ m_state' = IF m_state = 0 THEN k_writer_locked ELSE m_state
        /\ susp'[t] = IF m_state = 0 THEN "bounce" ELSE "push"
        /\ \A u \in Task : u # t => susp'[u] = susp[u]
    BY <1>0, <1>5 DEF RecheckWriter, Recheck, TryLockEffect, WriterPredicate
  <2>2. CASE m_state = 0
    <3>1. HasExclusive(t)'
      BY <2>1, <2>2 DEF HasExclusive
    <3> QED BY <1>0, <2>1, <2>2, <3>1, ExclusiveFrame, TellsTaken
  <2>3. CASE m_state # 0
    <3>1. ~HasExclusive(t)' /\ ~HasExclusive(t)
      BY <1>1, <2>1, <2>3 DEF HasExclusive
    <3> QED BY <1>0, <2>1, <2>3, <3>1, ExclusiveFrame, TellsFrame
  <2> QED BY <2>2, <2>3
<1>6. CASE PushWriter(t)
  <2>1. /\ pc' = pc /\ batch' = batch /\ pc[t] = "lock_return"
        /\ susp[t] = "push" /\ susp'[t] = "parked" /\ m_state' = m_state
        /\ \A u \in Task : u # t => susp'[u] = susp[u]
    BY <1>0, <1>6 DEF PushWriter, Push, smVars
  <2>2. ~HasExclusive(t)' /\ ~HasExclusive(t)
    BY <1>1, <2>1 DEF HasExclusive
  <2> QED BY <1>0, <2>1, <2>2, ExclusiveFrame, TellsFrame
<1> QED BY <1>2, <1>3, <1>4, <1>5, <1>6
(* lock_shared(): a reader more, or a reader asleep. *)
LEMMA LockSharedTells ==
  ASSUME SharedMutexInv, NEW t \in Task,
         LockShared(t) \/ TryLockShared(t) \/ TryLockSharedFails(t)
           \/ SharedWaitIf(t) \/ RecheckReader(t) \/ PushReader(t)
  PROVE  StateTells'
<1>0. PCType /\ StateTells /\ susp \in [Task -> SuspState]
  BY DEF SharedMutexInv, WQInv, WQTypeOK
<1>1. CASE ~TryLockShared(t)
  <2>1. /\ pc[t] \in {"out", "shared", "shared_wait_if"}
        /\ pc'[t] \in {"out", "shared", "shared_wait_if"}
        /\ m_state' = m_state /\ batch' = batch
        /\ \A u \in Task : u # t => pc'[u] = pc[u] /\ susp'[u] = susp[u]
    BY <1>0, <1>1 DEF LockShared, TryLockSharedFails, SharedWaitIf, RecheckReader,
       PushReader, Goto, Suspend, Recheck, Push, wqVars, smVars, PCType
  <2>2. ~HasExclusive(t)' /\ ~HasExclusive(t)
    BY <2>1 DEF HasExclusive
  <2> QED BY <1>0, <2>1, <2>2, ExclusiveFrame, TellsFrame
<1>2. CASE TryLockShared(t)
  <2>1. /\ pc[t] \in {"out", "shared"} /\ pc'[t] = "reader" /\ m_state >= 0
        /\ m_state' = m_state + 1 /\ batch' = batch
        /\ \A u \in Task : u # t => pc'[u] = pc[u] /\ susp'[u] = susp[u]
    BY <1>0, <1>2 DEF TryLockShared, Goto, wqVars, PCType
  <2>2. ~HasExclusive(t)' /\ ~HasExclusive(t)
    BY <2>1 DEF HasExclusive
  <2>3. \A u \in Task : HasExclusive(u)' <=> HasExclusive(u)
    BY <2>1, <2>2, ExclusiveFrame
  <2>4. Owners' = Owners /\ Leaving' = Leaving /\ Readers' = Readers \cup {t}
    BY <2>1, <2>3 DEF Owners, Leaving, Readers
  <2>5. t \notin Readers
    BY <2>1 DEF Readers
  <2>6. Cardinality(Readers') = m_state + 1
    <3>1. Cardinality(Readers) = m_state
      BY <1>0, <2>1 DEF StateTells
    <3>2. Cardinality(Readers \cup {t}) = Cardinality(Readers) + 1
      BY <2>5, FiniteOwners, FS_AddElement
    <3> QED BY <2>4, <3>1, <3>2
  <2> QED BY <1>0, <2>1, <2>4, <2>6 DEF StateTells, k_transition, k_writer_locked
<1> QED BY <1>1, <1>2

(* unlock() and unlock_shared(), up to the hand-off. *)
LEMMA UnlockTells ==
  ASSUME SharedMutexInv, NEW t \in Task,
         Unlock(t) \/ UnlockShared(t) \/ UnlockLastShared(t)
           \/ LockForWriter(t) \/ Clear(t)
  PROVE  StateTells'
<1> USE DEF k_transition, k_writer_locked
<1>0. PCType /\ StateTells
  BY DEF SharedMutexInv
<1>1. /\ batch' = batch /\ susp' = susp
      /\ \A u \in Task : u # t => pc'[u] = pc[u]
  BY <1>0 DEF Unlock, UnlockShared, UnlockLastShared, LockForWriter, Clear, Goto,
     wqVars, PCType
<1>2. \A u \in Task : u # t => (HasExclusive(u)' <=> HasExclusive(u))
  BY <1>1, ExclusiveFrame
<1>3. CASE Unlock(t)
  <2>1. pc[t] = "writer" /\ pc'[t] = "handoff" /\ m_state' = m_state
    BY <1>0, <1>3 DEF Unlock, Goto, PCType
  <2>2. HasExclusive(t)' /\ HasExclusive(t)
    BY <2>1 DEF HasExclusive
  <2> QED BY <1>0, <1>1, <1>2, <2>1, <2>2, TellsFrame
<1>4. CASE UnlockShared(t)
  <2>1. /\ pc[t] = "reader" /\ pc'[t] = "out" /\ m_state > 1
        /\ m_state' = m_state - 1
    BY <1>0, <1>4 DEF UnlockShared, Goto, PCType
  <2>2. ~HasExclusive(t)' /\ ~HasExclusive(t)
    BY <2>1 DEF HasExclusive
  <2>3. Owners' = Owners /\ Leaving' = Leaving /\ Readers' = Readers \ {t}
    BY <1>1, <1>2, <2>1, <2>2 DEF Owners, Leaving, Readers
  <2>4. t \in Readers
    BY <2>1 DEF Readers
  <2>5. Cardinality(Readers') = m_state - 1
    <3>1. Cardinality(Readers) = m_state
      BY <1>0, <2>1 DEF StateTells
    <3>2. Cardinality(Readers \ {t}) = Cardinality(Readers) - 1
      BY <2>4, FiniteOwners, FS_RemoveElement
    <3> QED BY <2>3, <3>1, <3>2
  <2> QED BY <1>0, <2>1, <2>3, <2>5 DEF StateTells
<1>5. CASE UnlockLastShared(t)
  <2>1. /\ pc[t] = "reader" /\ pc'[t] = "transition" /\ m_state = 1
        /\ m_state' = k_transition
    BY <1>0, <1>5 DEF UnlockLastShared, Goto, PCType
  <2>2. ~HasExclusive(t)' /\ ~HasExclusive(t)
    BY <2>1 DEF HasExclusive
  <2>3. Owners = {} /\ Leaving = {}
    BY <1>0, <2>1 DEF StateTells
  <2>4. t \in Readers /\ Cardinality(Readers) = 1
    BY <1>0, <2>1 DEF Readers, StateTells
  <2>5. Readers = {t}
    BY <2>4, FiniteOwners, FS_Singleton
  <2>6. Owners' = {} /\ Leaving' = {t} /\ Readers' = {}
    BY <1>1, <1>2, <2>1, <2>2, <2>3, <2>5 DEF Owners, Leaving, Readers
  <2> QED BY <2>1, <2>6, FS_EmptySet DEF StateTells
<1>6. CASE LockForWriter(t)
  <2>1. pc[t] = "transition" /\ pc'[t] = "handoff" /\ m_state' = k_writer_locked
    BY <1>0, <1>6 DEF LockForWriter, Goto, PCType
  <2>2. HasExclusive(t)'
    BY <2>1 DEF HasExclusive
  <2>3. t \in Leaving
    BY <2>1 DEF Leaving
  <2>4. m_state = k_transition /\ Leaving = {t} /\ Owners = {} /\ Readers = {}
    BY <1>0, <2>3, NoReaders DEF StateTells
  <2>5. Owners' = {t} /\ Leaving' = {} /\ Readers' = {}
    BY <1>1, <1>2, <2>1, <2>2, <2>4 DEF Owners, Leaving, Readers
  <2> QED BY <2>1, <2>5, FS_EmptySet DEF StateTells
<1>7. CASE Clear(t)
  <2>1. pc[t] = "clear" /\ pc'[t] = "resume_all" /\ m_state' = 0
    BY <1>0, <1>7 DEF Clear, Goto, PCType
  <2>2. ~HasExclusive(t)' /\ t \in Owners
    BY <2>1 DEF HasExclusive, Owners
  <2>3. m_state = k_writer_locked /\ Owners = {t} /\ Leaving = {} /\ Readers = {}
    BY <1>0, <2>2, NoReaders DEF StateTells
  <2>4. Owners' = {} /\ Leaving' = {} /\ Readers' = {}
    BY <1>1, <1>2, <2>1, <2>2, <2>3 DEF Owners, Leaving, Readers
  <2> QED BY <2>1, <2>4, FS_EmptySet DEF StateTells
<1> QED BY <1>3, <1>4, <1>5, <1>6, <1>7

(* The hand-off itself: ownership goes to the writer that is popped, or    *)
(* stays where it is.                                                      *)
LEMMA HandOffTells ==
  ASSUME SharedMutexInv, NEW t \in Task, HandOff(t)
  PROVE  StateTells'
<1> USE DEF k_transition, k_writer_locked
<1> DEFINE ws == m_waiters["writer"]
<1>0. PCType /\ StateTells /\ WQInv /\ QueuesSorted
  BY DEF SharedMutexInv
<1>1. /\ pc[t] = "handoff" /\ susp[t] = "idle" /\ batch[t] = <<>>
      /\ PopOne(t, "writer") /\ m_state' = m_state
      /\ pc'[t] = IF ws # <<>> THEN "out" ELSE "clear"
      /\ \A u \in Task : u # t => pc'[u] = pc[u]
  BY <1>0 DEF HandOff, Running, PCType
<1>2. /\ Range(ws) = Range(batch'[t]) \cup Range(m_waiters'["writer"])
      /\ \A u \in Task : u # t => batch'[u] = batch[u]
      /\ susp' = susp
  BY <1>0, <1>1, PopNEffect, SharedMutexQueues DEF PopOne
<1>3. /\ ws = <<>> => batch'[t] = <<>>
      /\ ws # <<>> => \E w \in Range(ws) : Range(batch'[t]) = {w}
  BY <1>0, <1>1, PopOneEffect, SharedMutexQueues
<1>4. HasExclusive(t) /\ t \in Owners
  BY <1>1 DEF HasExclusive, Owners
<1>5. m_state = k_writer_locked /\ Owners = {t} /\ Leaving = {} /\ Readers = {}
  BY <1>0, <1>4, NoReaders DEF StateTells
<1>6. Leaving' = {} /\ Readers' = {}
  BY <1>1, <1>5 DEF Leaving, Readers
<1>7. Range(batch[t]) = {}
  BY <1>1, RangeEmpty
<1>8. CASE ws = <<>>
  <2>1. Range(batch'[t]) = {}
    BY <1>3, <1>8, RangeEmpty
  <2>2. HasExclusive(t)'
    BY <1>1, <1>8 DEF HasExclusive
  <2>3. \A u \in Task : u # t => (HasExclusive(u)' <=> HasExclusive(u))
    BY <1>1, <1>2, <1>7, <2>1 DEF HasExclusive
  <2>4. Owners' = {t}
    BY <1>5, <2>2, <2>3 DEF Owners
  <2> QED BY <1>1, <1>5, <1>6, <2>4, FS_EmptySet DEF StateTells
<1>9. CASE ws # <<>>
  <2>1. PICK w \in Range(ws) : Range(batch'[t]) = {w}
    BY <1>3, <1>9
  <2>2. w \in Task /\ pc[w] = "lock_return" /\ w # t
    <3>1. ws \in Seq(Task)
      BY <1>0, SharedMutexQueues DEF WQInv, WQTypeOK
    <3>2. w \in Task
      BY <3>1 DEF Range
    <3>3. pc[w] = "lock_return"
      BY <1>0 DEF QueuesSorted
    <3> QED BY <3>2, <3>3, <1>1
  <2>3. HasExclusive(w)'
    BY <1>1, <2>1, <2>2 DEF HasExclusive
  <2>4. ~HasExclusive(t)'
    BY <1>1, <1>9 DEF HasExclusive
  <2>5. \A u \in Task : u # t /\ u # w => (HasExclusive(u)' <=> HasExclusive(u))
    BY <1>1, <1>2, <1>7, <2>1 DEF HasExclusive
  <2>6. Owners' = {w}
    BY <1>5, <2>2, <2>3, <2>4, <2>5 DEF Owners
  <2> QED BY <1>1, <1>5, <1>6, <2>2, <2>6, FS_EmptySet DEF StateTells
<1> QED BY <1>8, <1>9

(* Resuming tasks: a writer owned the mutex already, in the batch. *)
LEMMA ResumeTells ==
  ASSUME SharedMutexInv, NEW t \in Task,
         BounceBack(t) \/ ResumeReaders(t) \/ ResumeWaiter(t)
  PROVE  StateTells'
<1>0. PCType /\ StateTells /\ WQInv /\ QueuesSorted /\ susp \in [Task -> SuspState]
  BY DEF SharedMutexInv, WQInv, WQTypeOK
<1>1. CASE BounceBack(t)
  <2>1. /\ pc' = pc /\ m_state' = m_state /\ batch' = batch
        /\ susp[t] = "bounce" /\ susp'[t] = "idle"
        /\ \A u \in Task : u # t => susp'[u] = susp[u]
    BY <1>0, <1>1 DEF BounceBack, Bounce, smVars
  <2>2. \A u \in Task : HasExclusive(u)' <=> HasExclusive(u)
    BY <2>1 DEF HasExclusive
  <2> QED BY <1>0, <2>1, <2>2, TellsFrame
<1>2. CASE ResumeReaders(t)
  <2>1. /\ pc[t] = "resume_all" /\ pc'[t] = "out" /\ m_state' = m_state
        /\ batch[t] = <<>> /\ SwapAll(t, "reader")
        /\ \A u \in Task : u # t => pc'[u] = pc[u]
    BY <1>0, <1>2 DEF ResumeReaders, Running, PCType
  <2>2. /\ batch'[t] = m_waiters["reader"] /\ susp' = susp
        /\ \A u \in Task : u # t => batch'[u] = batch[u]
    BY <1>0, <2>1, SwapAllEffect, SharedMutexQueues
  <2>3. \A u \in Range(batch'[t]) : pc[u] = "shared"
    BY <1>0, <2>2 DEF QueuesSorted
  <2>4. Range(batch[t]) = {}
    BY <2>1, RangeEmpty
  <2>5. \A u \in Task : HasExclusive(u)' <=> HasExclusive(u)
    BY <2>1, <2>2, <2>3, <2>4 DEF HasExclusive
  <2> QED BY <1>0, <2>1, <2>5, TellsFrame
<1>3. CASE ResumeWaiter(t)
  <2>1. pc' = pc /\ m_state' = m_state /\ ResumeNext(t)
    BY <1>3 DEF ResumeWaiter, smVars
  <2>2. PICK h \in Task :
           /\ h \in Range(batch[t]) /\ susp[h] = "parked" /\ susp'[h] = "idle"
           /\ Range(batch'[t]) = Range(batch[t]) \ {h}
           /\ \A v \in Task : v # t => batch'[v] = batch[v]
           /\ \A v \in Task : v # h => susp'[v] = susp[v]
    BY <1>0, <2>1, ResumeNextEffect
  <2>3. \A u \in Task : u # h => (HasExclusive(u)' <=> HasExclusive(u))
    BY <2>1, <2>2 DEF HasExclusive
  <2>4. HasExclusive(h)' <=> HasExclusive(h)
    BY <2>1, <2>2 DEF HasExclusive
  <2> QED BY <1>0, <2>1, <2>3, <2>4, TellsFrame
<1> QED BY <1>1, <1>2, <1>3

(* Every step. *)
LEMMA NextStateTells ==
  ASSUME SharedMutexInv, [Next]_vars
  PROVE  StateTells'
<1>1. CASE UNCHANGED vars
  BY <1>1, TellsFrame DEF SharedMutexInv, vars, HasExclusive
<1>2. CASE Next
  BY <1>2, LockTells, LockSharedTells, UnlockTells, HandOffTells, ResumeTells
     DEF Next, Step, InLock, InLockShared, Releasing
<1> QED BY <1>1, <1>2
(* A step at which t leaves or stays in its waits and no list changes. *)
LEMMA SortedFrame ==
  ASSUME WQInv, QueuesSorted, NEW t \in Task,
         m_waiters' = m_waiters, m_waiters_mutex' = m_waiters_mutex,
         susp[t] = "idle",
         susp'[t] # "idle" => pc'[t] \in {"lock_return", "shared"},
         \A u \in Task : u # t => pc'[u] = pc[u] /\ susp'[u] = susp[u]
  PROVE  QueuesSorted'
<1>1. \A q \in Queue : t \notin Range(m_waiters[q]) /\ m_waiters_mutex[q] # t
  BY UnparkedUnlisted, NoTaskAssumption DEF WQInv, PushingHoldsLock
<1>2. \A q \in Queue : m_waiters[q] \in Seq(Task)
  BY DEF WQInv, WQTypeOK
<1>3. \A q \in Queue : Range(m_waiters[q]) \subseteq Task
  BY <1>2 DEF Range
<1> QED BY <1>1, <1>3, SharedMutexQueues DEF QueuesSorted

(* Nodes enter their own queue and leave it for a batch. *)
LEMMA NextQueuesSorted ==
  ASSUME SharedMutexInv, [Next]_vars
  PROVE  QueuesSorted'
<1>0. /\ PCType /\ WQInv /\ QueuesSorted /\ susp \in [Task -> SuspState]
      /\ m_waiters_mutex \in [Queue -> Task \cup {NoTask}]
      /\ m_waiters \in [Queue -> Seq(Task)]
  BY DEF SharedMutexInv, WQInv, WQTypeOK
<1>1. ASSUME NEW t \in Task, NEW from, NEW to, Goto(t, from, to)
      PROVE  QueuesSorted'
  <2>1. /\ m_waiters' = m_waiters /\ m_waiters_mutex' = m_waiters_mutex
        /\ susp[t] = "idle" /\ susp' = susp
        /\ \A u \in Task : u # t => pc'[u] = pc[u]
    BY <1>0, <1>1 DEF Goto, Running, wqVars, PCType
  <2> QED BY <1>0, <2>1, SortedFrame
<1>2. ASSUME NEW t \in Task,
             Lock(t) \/ TryLock(t) \/ TryLockFails(t) \/ LockReturn(t)
               \/ LockShared(t) \/ TryLockShared(t) \/ TryLockSharedFails(t)
               \/ Unlock(t) \/ UnlockShared(t) \/ UnlockLastShared(t)
               \/ LockForWriter(t) \/ Clear(t)
      PROVE  QueuesSorted'
  BY <1>1, <1>2 DEF Lock, TryLock, TryLockFails, LockReturn, LockShared,
     TryLockShared, TryLockSharedFails, Unlock, UnlockShared, UnlockLastShared,
     LockForWriter, Clear
<1>3. ASSUME NEW t \in Task, LockWaitIf(t) \/ SharedWaitIf(t)
      PROVE  QueuesSorted'
  <2>1. /\ m_waiters' = m_waiters /\ m_waiters_mutex' = m_waiters_mutex
        /\ susp[t] = "idle" /\ pc'[t] \in {"lock_return", "shared"}
        /\ \A u \in Task : u # t => pc'[u] = pc[u] /\ susp'[u] = susp[u]
    BY <1>0, <1>3 DEF LockWaitIf, SharedWaitIf, Suspend, Running, wqVars, PCType
  <2> QED BY <1>0, <2>1, SortedFrame
<1>4. ASSUME NEW t \in Task, NEW q \in {"writer", "reader"}, NEW pred,
             Recheck(t, q, pred), pc' = pc,
             pc[t] = IF q = "writer" THEN "lock_return" ELSE "shared"
      PROVE  QueuesSorted'
  <2>1. /\ m_waiters' = m_waiters /\ m_waiters_mutex'[q] \in {t, NoTask}
        /\ \A p \in Queue : p # q => m_waiters_mutex'[p] = m_waiters_mutex[p]
        /\ \A u \in Task : u # t => susp'[u] = susp[u]
    BY <1>0, <1>4, SharedMutexQueues DEF Recheck
  <2> QED BY <1>0, <1>4, <2>1, NoTaskAssumption, SharedMutexQueues DEF QueuesSorted
<1>5. ASSUME NEW t \in Task, RecheckWriter(t) \/ RecheckReader(t)
      PROVE  QueuesSorted'
  <2>1. CASE RecheckWriter(t)
    BY <1>4, <2>1 DEF RecheckWriter
  <2>2. CASE RecheckReader(t)
    BY <1>4, <2>2 DEF RecheckReader, smVars
  <2> QED BY <1>5, <2>1, <2>2
<1>6. ASSUME NEW t \in Task, NEW q \in {"writer", "reader"}, Push(t, q), pc' = pc,
             pc[t] = IF q = "writer" THEN "lock_return" ELSE "shared"
      PROVE  QueuesSorted'
  <2>1. /\ Range(m_waiters'[q]) = Range(m_waiters[q]) \cup {t}
        /\ \A p \in Queue : p # q => m_waiters'[p] = m_waiters[p]
        /\ \A u \in Task : u # t => susp'[u] = susp[u]
    BY <1>0, <1>6, PushEffect, SharedMutexQueues
  <2>2. /\ m_waiters_mutex'[q] = NoTask
        /\ \A p \in Queue : p # q => m_waiters_mutex'[p] = m_waiters_mutex[p]
    BY <1>0, <1>6, SharedMutexQueues DEF Push
  <2>3. \A u \in Task : susp'[u] # "idle" => pc[u] \in {"lock_return", "shared"}
    BY <1>0, <1>6, <2>1 DEF QueuesSorted
  <2>4. /\ \A u \in Range(m_waiters'["writer"]) : pc[u] = "lock_return"
        /\ \A u \in Range(m_waiters'["reader"]) : pc[u] = "shared"
    <3>1. CASE q = "writer"
      BY <1>0, <1>6, <2>1, <3>1, SharedMutexQueues DEF QueuesSorted
    <3>2. CASE q = "reader"
      BY <1>0, <1>6, <2>1, <3>2, SharedMutexQueues DEF QueuesSorted
    <3> QED BY <3>1, <3>2
  <2>5. /\ \A u \in Task : m_waiters_mutex'["writer"] = u => pc[u] = "lock_return"
        /\ \A u \in Task : m_waiters_mutex'["reader"] = u => pc[u] = "shared"
    BY <1>0, <2>2, NoTaskAssumption, SharedMutexQueues DEF QueuesSorted
  <2>6. \A p \in Queue \ {"writer", "reader"} :
           m_waiters'[p] = <<>> /\ m_waiters_mutex'[p] = NoTask
    BY <1>0, <2>1, <2>2 DEF QueuesSorted
  <2> QED BY <1>6, <2>3, <2>4, <2>5, <2>6 DEF QueuesSorted
<1>7. ASSUME NEW t \in Task, PushWriter(t) \/ PushReader(t) PROVE QueuesSorted'
  <2>1. CASE PushWriter(t)
    BY <1>6, <2>1 DEF PushWriter, smVars
  <2>2. CASE PushReader(t)
    BY <1>6, <2>2 DEF PushReader, smVars
  <2> QED BY <1>7, <2>1, <2>2
<1>8. ASSUME NEW t \in Task, HandOff(t) PROVE QueuesSorted'
  <2>1. /\ PopOne(t, "writer") /\ susp[t] = "idle"
        /\ \A u \in Task : u # t => pc'[u] = pc[u]
    BY <1>0, <1>8 DEF HandOff, Running, PCType
  <2>2. /\ Range(m_waiters'["writer"]) \subseteq Range(m_waiters["writer"])
        /\ \A p \in Queue : p # "writer" => m_waiters'[p] = m_waiters[p]
        /\ susp' = susp /\ m_waiters_mutex' = m_waiters_mutex
    BY <1>0, <2>1, PopNEffect, SharedMutexQueues DEF PopOne, PopN
  <2>3. pc[t] = "handoff"
    BY <1>8 DEF HandOff
  <2>4. \A q \in Queue : Range(m_waiters[q]) \subseteq Task
    BY <1>0 DEF Range
  <2> QED BY <1>0, <2>1, <2>2, <2>3, <2>4, SharedMutexQueues DEF QueuesSorted
<1>9. ASSUME NEW t \in Task, ResumeReaders(t) PROVE QueuesSorted'
  <2>1. /\ SwapAll(t, "reader") /\ susp[t] = "idle" /\ pc[t] = "resume_all"
        /\ \A u \in Task : u # t => pc'[u] = pc[u]
    BY <1>0, <1>9 DEF ResumeReaders, Running, PCType
  <2>2. /\ Range(m_waiters'["reader"]) = {}
        /\ \A p \in Queue : p # "reader" => m_waiters'[p] = m_waiters[p]
        /\ susp' = susp /\ m_waiters_mutex' = m_waiters_mutex
    BY <1>0, <2>1, SwapAllEffect, SharedMutexQueues DEF SwapAll
  <2>3. \A q \in Queue : Range(m_waiters[q]) \subseteq Task
    BY <1>0 DEF Range
  <2> QED BY <1>0, <2>1, <2>2, <2>3, SharedMutexQueues DEF QueuesSorted
<1>10. ASSUME NEW t \in Task, BounceBack(t) PROVE QueuesSorted'
  BY <1>0, <1>10 DEF BounceBack, Bounce, smVars, QueuesSorted
<1>11. ASSUME NEW t \in Task, ResumeWaiter(t) PROVE QueuesSorted'
  <2>1. /\ pc' = pc /\ ResumeNext(t) /\ m_waiters' = m_waiters
        /\ m_waiters_mutex' = m_waiters_mutex
    BY <1>11 DEF ResumeWaiter, ResumeNext, smVars
  <2>2. \A u \in Task : susp'[u] # "idle" => susp[u] # "idle"
    BY <1>0, <2>1, ResumeNextEffect
  <2> QED BY <1>0, <2>1, <2>2 DEF QueuesSorted
<1>12. CASE UNCHANGED vars
  BY <1>0, <1>12 DEF vars, QueuesSorted
<1> QED BY <1>2, <1>3, <1>5, <1>7, <1>8, <1>9, <1>10, <1>11, <1>12
        DEF Next, Step, InLock, InLockShared, Releasing

(* The reader: it sleeps only behind a mutex that is taken, and the task   *)
(* that frees the mutex takes every sleeping reader along.                 *)
LEMMA NextReaderNotForgotten ==
  ASSUME SharedMutexInv, [Next]_vars
  PROVE  ReaderNotForgotten'
<1>0. /\ PCType /\ WQInv /\ StateTells /\ QueuesSorted /\ ReaderNotForgotten
      /\ susp \in [Task -> SuspState] /\ NodeLifetime /\ PushingHoldsLock
      /\ m_waiters_mutex \in [Queue -> Task \cup {NoTask}]
  BY DEF SharedMutexInv, WQInv, WQTypeOK
<1> USE DEF k_transition, k_writer_locked
<1> DEFINE Sleeps(r) == pc[r] = "shared" /\ susp[r] \in {"push", "parked"}
(* A step that sends nobody to sleep as a reader, keeps the batches, and   *)
(* does not free the mutex.                                                *)
<1>1. ASSUME NEW t \in Task, batch' = batch,
             \A r \in Task : Sleeps(r)' => Sleeps(r),
             \A u \in Task : pc[u] = "resume_all" => pc'[u] = "resume_all",
             m_state' >= 0 => m_state >= 0
      PROVE  ReaderNotForgotten'
  BY <1>0, <1>1 DEF ReaderNotForgotten
<1>2. ASSUME NEW t \in Task,
             Lock(t) \/ TryLock(t) \/ TryLockFails(t) \/ LockReturn(t)
               \/ LockShared(t) \/ TryLockShared(t) \/ TryLockSharedFails(t)
               \/ Unlock(t) \/ UnlockShared(t) \/ UnlockLastShared(t)
               \/ LockForWriter(t)
      PROVE  ReaderNotForgotten'
  <2>1. /\ batch' = batch /\ susp' = susp /\ susp[t] = "idle"
        /\ \A u \in Task : u # t => pc'[u] = pc[u]
        /\ pc[t] # "resume_all"
        /\ m_state' >= 0 => m_state >= 0
    BY <1>0, <1>2 DEF Lock, TryLock, TryLockFails, LockReturn, LockShared,
       TryLockShared, TryLockSharedFails, Unlock, UnlockShared,
       UnlockLastShared, LockForWriter, Goto, Running, wqVars, PCType, StateTells
  <2> QED BY <1>1, <2>1
<1>3. ASSUME NEW t \in Task, LockWaitIf(t) \/ SharedWaitIf(t)
      PROVE  ReaderNotForgotten'
  <2>1. /\ batch' = batch /\ susp'[t] \in {"idle", "suspended"}
        /\ \A u \in Task : u # t => pc'[u] = pc[u] /\ susp'[u] = susp[u]
        /\ pc[t] # "resume_all"
        /\ m_state' >= 0 => m_state >= 0
    BY <1>0, <1>3 DEF LockWaitIf, SharedWaitIf, Suspend, Running, wqVars,
       TryLockEffect, PCType, StateTells
  <2> QED BY <1>1, <2>1
<1>4. ASSUME NEW t \in Task, RecheckWriter(t) \/ PushWriter(t) \/ BounceBack(t)
      PROVE  ReaderNotForgotten'
  <2>1. /\ batch' = batch /\ pc' = pc
        /\ pc[t] = "lock_return" \/ susp'[t] = "idle"
        /\ \A u \in Task : u # t => susp'[u] = susp[u]
        /\ m_state' >= 0 => m_state >= 0
    BY <1>0, <1>4 DEF RecheckWriter, PushWriter, BounceBack, Recheck, Push, Bounce,
       TryLockEffect, StateTells, smVars
  <2> QED BY <1>1, <2>1
<1>5. ASSUME NEW t \in Task, RecheckReader(t) PROVE ReaderNotForgotten'
  <2>1. /\ batch' = batch /\ pc' = pc /\ m_state' = m_state
        /\ m_state < 0 \/ susp'[t] = "bounce"
        /\ \A u \in Task : u # t => susp'[u] = susp[u]
    BY <1>0, <1>5 DEF RecheckReader, Recheck, smVars
  <2> QED BY <1>0, <2>1 DEF ReaderNotForgotten, StateTells
<1>6. ASSUME NEW t \in Task, PushReader(t) PROVE ReaderNotForgotten'
  <2>1. /\ batch' = batch /\ pc' = pc /\ m_state' = m_state
        /\ susp[t] = "push" /\ pc[t] = "shared"
        /\ \A u \in Task : u # t => susp'[u] = susp[u]
    BY <1>0, <1>6 DEF PushReader, Push, smVars
  <2> QED BY <1>1, <2>1
<1>7. ASSUME NEW t \in Task, HandOff(t) PROVE ReaderNotForgotten'
  <2>1. pc[t] = "handoff" /\ m_state' = m_state
    BY <1>7 DEF HandOff
  <2>2. m_state < 0
    <3>1. t \in Owners
      BY <2>1 DEF Owners, HasExclusive
    <3> QED BY <1>0, <3>1 DEF StateTells
  <2> QED BY <1>0, <2>1, <2>2 DEF ReaderNotForgotten, StateTells
<1>8. ASSUME NEW t \in Task, Clear(t) PROVE ReaderNotForgotten'
  <2>1. pc'[t] = "resume_all"
    BY <1>0, <1>8 DEF Clear, Goto, PCType
  <2> QED BY <2>1 DEF ReaderNotForgotten
<1>9. ASSUME NEW t \in Task, ResumeReaders(t) PROVE ReaderNotForgotten'
  <2>1. /\ pc'[t] = "out" /\ SwapAll(t, "reader") /\ batch[t] = <<>>
        /\ \A u \in Task : u # t => pc'[u] = pc[u]
    BY <1>0, <1>9 DEF ResumeReaders, Running, PCType
  <2>2. /\ batch'[t] = m_waiters["reader"] /\ susp' = susp
        /\ \A u \in Task : u # t => batch'[u] = batch[u]
        /\ m_waiters_mutex["reader"] = NoTask
    BY <1>0, <2>1, SwapAllEffect, SharedMutexQueues DEF SwapAll
  <2>3. SUFFICES ASSUME NEW r \in Task, Sleeps(r)'
                 PROVE  \E u \in Task : r \in Range(batch'[u])
    BY DEF ReaderNotForgotten
  <2>4. r # t /\ pc[r] = "shared" /\ susp[r] \in {"push", "parked"}
    BY <2>1, <2>2, <2>3
  <2>5. susp[r] # "push"
    <3> SUFFICES ASSUME susp[r] = "push" PROVE FALSE
      OBVIOUS
    <3>1. PICK q \in Queue : m_waiters_mutex[q] = r
      BY <1>0 DEF PushingHoldsLock
    <3>2. q # "reader" /\ q # "writer"
      BY <1>0, <2>2, <2>4, <3>1, NoTaskAssumption DEF QueuesSorted
    <3> QED BY <1>0, <3>1, <3>2, NoTaskAssumption DEF QueuesSorted
  <2>6. InSomeList(r)
    BY <1>0, <2>4, <2>5 DEF NodeLifetime
  <2>7. CASE \E u \in Task : r \in Range(batch[u])
    BY <2>1, <2>2, <2>7, RangeEmpty
  <2>8. ASSUME NEW q \in Queue, r \in Range(m_waiters[q])
        PROVE  r \in Range(batch'[t])
    <3>1. q # "writer"
      BY <1>0, <2>4, <2>8 DEF QueuesSorted
    <3>2. q = "reader"
      BY <1>0, <2>8, <3>1, RangeEmpty DEF QueuesSorted
    <3> QED BY <2>2, <2>8, <3>2
  <2> QED BY <2>6, <2>7, <2>8 DEF InSomeList
<1>10. ASSUME NEW t \in Task, ResumeWaiter(t) PROVE ReaderNotForgotten'
  <2>1. pc' = pc /\ m_state' = m_state /\ ResumeNext(t)
    BY <1>10 DEF ResumeWaiter, smVars
  <2>2. PICK h \in Task :
           /\ h \in Range(batch[t]) /\ susp[h] = "parked" /\ susp'[h] = "idle"
           /\ Range(batch'[t]) = Range(batch[t]) \ {h}
           /\ \A v \in Task : v # t => batch'[v] = batch[v]
           /\ \A v \in Task : v # h => susp'[v] = susp[v]
    BY <1>0, <2>1, ResumeNextEffect
  <2>3. \A r, u \in Task : r # h /\ r \in Range(batch[u]) => r \in Range(batch'[u])
    BY <2>2
  <2> QED BY <1>0, <2>1, <2>2, <2>3 DEF ReaderNotForgotten
<1>11. CASE UNCHANGED vars
  BY <1>0, <1>11 DEF vars, ReaderNotForgotten
<1> QED BY <1>2, <1>3, <1>4, <1>5, <1>6, <1>7, <1>8, <1>9, <1>10, <1>11
        DEF Next, Step, InLock, InLockShared, Releasing

-----------------------------------------------------------------------------
(* The theorems about SharedMutex. *)

(* The inductive invariant. *)
THEOREM SharedMutexInvariant == Spec => []SharedMutexInv
<1>1. Init => SharedMutexInv
  BY InitInv
<1>2. SharedMutexInv /\ [Next]_vars => SharedMutexInv'
  <2> SUFFICES ASSUME SharedMutexInv, [Next]_vars PROVE SharedMutexInv'
    OBVIOUS
  <2>1. WQInv' /\ PCType' /\ StateTells' /\ QueuesSorted' /\ ReaderNotForgotten'
    BY NextWQInv, NextPCType, NextStateTells, NextQueuesSorted,
       NextReaderNotForgotten
  <2> QED BY <2>1 DEF SharedMutexInv
<1> QED BY <1>1, <1>2, PTL DEF Spec

(* Type correctness of shared_mutex; in particular m_state never counts    *)
(* more readers than there are tasks (shared_mutex.cpp:47-58).             *)
THEOREM SharedMutexTypeOK == Spec => []TypeOK
<1>1. SharedMutexInv => TypeOK
  BY TellsType DEF SharedMutexInv
<1> QED BY <1>1, SharedMutexInvariant, PTL

(* The word of shared_mutex tells who owns it, through every hand-off and  *)
(* for any finite number of tasks (shared_mutex.cpp:29-37, 71, 82-98).     *)
THEOREM SharedMutexState == Spec => []StateMatchesOwners
<1>1. SharedMutexInv => StateMatchesOwners
  BY TellsOwners DEF SharedMutexInv
<1> QED BY <1>1, SharedMutexInvariant, PTL

(* A reader asleep while the mutex can be shared is about to be resumed    *)
(* (shared_mutex.cpp:43-45, 60-65, 97-98).                                 *)
THEOREM SharedMutexReaders == Spec => []ReaderNotForgotten
<1>1. SharedMutexInv => ReaderNotForgotten
  BY DEF SharedMutexInv
<1> QED BY <1>1, SharedMutexInvariant, PTL

(* The nodes of both queues of shared_mutex outlive their links, and a     *)
(* callback between re-check and push_back owns its queue's spin mutex     *)
(* (wait_queue.hpp:76-127).                                                *)
THEOREM SharedMutexNodes == Spec => [](NodeLifetime /\ PushingHoldsLock)
<1>1. SharedMutexInv => NodeLifetime /\ PushingHoldsLock
  BY DEF SharedMutexInv, WQInv
<1> QED BY <1>1, SharedMutexInvariant, PTL

(* shared_mutex is a reader-writer lock (shared_mutex.hpp:51-86): taking   *)
(* it is the step that makes m_state -1 or counts one reader more, or, for *)
(* a writer that was handed the mutex, its return from lock().             *)
THEOREM SharedMutexImplementsLock == Spec => ImplementsSharedLock
<1> USE DEF ASharedLock!Holds, ASharedLock!Becomes
<1>1. Init => ASharedLock!Init
  BY DEF Init, ASharedLock!Init, status
<1>2. SharedMutexInv /\ [Next]_vars => [ASharedLock!Next]_status
  <2> SUFFICES ASSUME SharedMutexInv, [Next]_vars
               PROVE  [ASharedLock!Next]_status
    OBVIOUS
  <2>0. PCType /\ StateTells
    BY DEF SharedMutexInv
  <2> USE DEF PCType, PC
  <2>1. ASSUME NEW t \in Task, Lock(t) \/ LockShared(t) PROVE ASharedLock!Request(t)
    BY <2>0, <2>1 DEF Lock, LockShared, Goto, ASharedLock!Request, status
  <2>2. ASSUME NEW t \in Task, TryLock(t) PROVE ASharedLock!AcquireExclusive(t)
    <3>1. Owners = {} /\ Readers = {}
      BY <2>0, <2>2, NoReaders DEF TryLock, StateTells, k_writer_locked
    <3>2. \A u \in Task : pc[u] # "writer" /\ pc[u] # "reader"
      BY <3>1 DEF Owners, Readers, HasExclusive
    <3> QED BY <2>0, <2>2, <3>2 DEF TryLock, Goto, ASharedLock!AcquireExclusive, status
  <2>3. ASSUME NEW t \in Task, LockReturn(t) PROVE ASharedLock!AcquireExclusive(t)
    <3>1. t \in Owners /\ pc[t] = "lock_return"
      BY <2>3 DEF LockReturn, Goto, Running, Owners, HasExclusive
    <3>2. Owners = {t} /\ Readers = {}
      BY <2>0, <3>1, NoReaders DEF StateTells, k_writer_locked
    <3>3. \A u \in Task : pc[u] # "writer" /\ pc[u] # "reader"
      BY <3>1, <3>2 DEF Owners, Readers, HasExclusive
    <3> QED BY <2>0, <2>3, <3>3 DEF LockReturn, Goto, ASharedLock!AcquireExclusive, status
  <2>4. ASSUME NEW t \in Task, TryLockShared(t) PROVE ASharedLock!AcquireShared(t)
    <3>1. Owners = {}
      BY <2>0, <2>4 DEF TryLockShared, StateTells, k_writer_locked
    <3>2. \A u \in Task : pc[u] # "writer"
      BY <3>1 DEF Owners, HasExclusive
    <3> QED BY <2>0, <2>4, <3>2 DEF TryLockShared, Goto, ASharedLock!AcquireShared, status
  <2>5. ASSUME NEW t \in Task, Unlock(t) \/ UnlockShared(t) \/ UnlockLastShared(t)
        PROVE  ASharedLock!Release(t)
    BY <2>0, <2>5 DEF Unlock, UnlockShared, UnlockLastShared, Goto,
       ASharedLock!Release, status
  <2>6. ASSUME NEW t \in Task,
               TryLockFails(t) \/ LockWaitIf(t) \/ TryLockSharedFails(t)
                 \/ SharedWaitIf(t) \/ LockForWriter(t) \/ HandOff(t)
                 \/ Clear(t) \/ ResumeReaders(t)
        PROVE  UNCHANGED status
    BY <2>0, <2>6 DEF TryLockFails, LockWaitIf, TryLockSharedFails, SharedWaitIf,
       LockForWriter, HandOff, Clear, ResumeReaders, Goto, status
  <2>7. ASSUME UNCHANGED pc PROVE UNCHANGED status
    BY <2>7 DEF status
  <2> QED BY <2>1, <2>2, <2>3, <2>4, <2>5, <2>6, <2>7
          DEF Next, Step, InLock, InLockShared, Releasing, RecheckWriter,
              PushWriter, RecheckReader, PushReader, BounceBack, ResumeWaiter,
              vars, smVars, ASharedLock!Next
<1> QED BY <1>1, <1>2, SharedMutexInvariant, PTL
        DEF Spec, ImplementsSharedLock, ASharedLock!Spec

-----------------------------------------------------------------------------
(* shared_mutex::scoped_lock. *)

(* The places in lock() and in lock_shared(), the owner's included, and    *)
(* those in a release, its end included.                                   *)
WriterPlaces == {"lock", "lock_wait_if", "lock_return", "writer"}
ReaderPlaces == {"shared", "shared_wait_if", "reader"}
ReleasePlaces == {"transition", "handoff", "clear", "resume_all", "out"}

(* Where a task is while its scoped_lock is in the call c, and what the    *)
(* members m and w hold then.                                              *)
Fits(place, m, w, c) ==
    /\ c = "none" => place \in IF ~m THEN {"out"}
                              ELSE IF w THEN WriterPlaces ELSE ReaderPlaces
    /\ c = "acquire_writer" => m /\ place \in WriterPlaces
    /\ c = "acquire_reader" => m /\ place \in ReaderPlaces
    /\ c \in {"release", "upgrade", "downgrade"} => m /\ place \in ReleasePlaces
    /\ c = "upgrade_lock" => m /\ place \in WriterPlaces
    /\ c = "downgrade_lock" => m /\ place \in ReaderPlaces

MembersType == /\ m_mutex \in [Task -> BOOLEAN]
               /\ m_is_writer_lock \in [Task -> BOOLEAN]
               /\ call \in [Task -> Call]
LockInv == /\ MembersType
           /\ \A t \in Task : Fits(pc[t], m_mutex[t], m_is_writer_lock[t], call[t])

(* A step of the mutex below the scoped_locks. *)
LEMMA MutexStep == ASSUME [SLNext]_slVars PROVE [Next]_vars
<1>1. CASE UNCHANGED slVars
  BY <1>1 DEF slVars
<1>2. ASSUME NEW t \in Task, NEW write \in BOOLEAN,
             Construct(t, write) \/ Acquire(t, write) \/ TryAcquire(t, write)
      PROVE  Next
  BY <1>2 DEF Construct, Acquire, TryAcquire, Next
<1>3. ASSUME NEW t \in Task, NEW w, Give(t, w) PROVE Next
  BY <1>3 DEF Give, Next, Step, Releasing
<1>4. ASSUME NEW t \in Task, Release(t) \/ Upgrade(t) \/ Downgrade(t) PROVE Next
  BY <1>3, <1>4 DEF Release, Upgrade, Downgrade
<1>5. ASSUME NEW t \in Task, SLStep(t) PROVE [Next]_vars
  BY <1>5 DEF SLStep, Acquired, Released, UpgradeLock, Upgraded, DowngradeLock,
     Downgraded, Next
<1> QED BY <1>1, <1>2, <1>4, <1>5 DEF SLNext

(* How far a task that owns nothing gets in one step inside a call. *)
LEMMA StepMoves ==
  ASSUME PCType, NEW t \in Task, Step(t), pc[t] \notin Owning
  PROVE  /\ \A u \in Task : u # t => pc'[u] = pc[u]
         /\ \/ pc'[t] = pc[t]
            \/ pc[t] \in WriterPlaces /\ pc'[t] \in WriterPlaces
            \/ pc[t] \in ReaderPlaces /\ pc'[t] \in ReaderPlaces
            \/ pc[t] \in ReleasePlaces \ {"out"} /\ pc'[t] \in ReleasePlaces
<1> USE DEF PCType, PC, WriterPlaces, ReaderPlaces, ReleasePlaces, Owning, Goto,
            smVars
<1>1. CASE InLock(t)
  BY <1>1 DEF InLock, TryLock, TryLockFails, LockWaitIf, RecheckWriter,
     PushWriter, LockReturn
<1>2. CASE InLockShared(t)
  BY <1>2 DEF InLockShared, TryLockShared, TryLockSharedFails, SharedWaitIf,
     RecheckReader, PushReader
<1>3. CASE Releasing(t)
  BY <1>3 DEF Releasing, Unlock, UnlockShared, UnlockLastShared, LockForWriter,
     HandOff, Clear, ResumeReaders
<1>4. CASE BounceBack(t) \/ ResumeWaiter(t)
  BY <1>4 DEF BounceBack, ResumeWaiter
<1> QED BY <1>1, <1>2, <1>3, <1>4 DEF Step

(* The members follow the mutex. *)
LEMMA LockStep ==
  ASSUME LockInv, PCType, [SLNext]_slVars
  PROVE  LockInv'
<1> USE DEF LockInv, MembersType, PCType, PC
<1> USE DEF WriterPlaces, ReaderPlaces, ReleasePlaces, Call
(* A step of t that assigns its members and moves it. *)
<1>1. ASSUME NEW t \in Task, NEW m \in BOOLEAN, NEW w \in BOOLEAN,
             NEW c \in Call, Assign(t, m, w, c),
             \A u \in Task : u # t => pc'[u] = pc[u],
             Fits(pc'[t], m, w, c)
      PROVE  LockInv'
  <2>1. MembersType'
    BY <1>1 DEF Assign
  <2>2. ASSUME NEW u \in Task
        PROVE  Fits(pc'[u], m_mutex'[u], m_is_writer_lock'[u], call'[u])
    <3>1. CASE u = t
      BY <1>1, <3>1 DEF Assign
    <3>2. CASE u # t
      <4>1. /\ pc'[u] = pc[u] /\ m_mutex'[u] = m_mutex[u]
            /\ m_is_writer_lock'[u] = m_is_writer_lock[u] /\ call'[u] = call[u]
        BY <1>1, <3>2 DEF Assign
      <4> QED BY <4>1
    <3> QED BY <3>1, <3>2
  <2> QED BY <2>1, <2>2
<1>2. CASE UNCHANGED slVars
  BY <1>2 DEF slVars, vars
<1>3. ASSUME NEW t \in Task, NEW write \in BOOLEAN, Construct(t, write)
      PROVE  LockInv'
  <2>1. /\ Assign(t, TRUE, write, "none") /\ "none" \in Call
        /\ \A u \in Task : u # t => pc'[u] = pc[u]
        /\ Fits(pc'[t], TRUE, write, "none")
    BY <1>3 DEF Construct, Lock, LockShared, Goto, Fits
  <2> HIDE DEF LockInv, Call
  <2> QED BY <1>1, <2>1
<1>4. ASSUME NEW t \in Task, NEW write \in BOOLEAN, Acquire(t, write)
      PROVE  LockInv'
  <2> DEFINE c == IF write THEN "acquire_writer" ELSE "acquire_reader"
  <2>1. m_is_writer_lock[t] \in BOOLEAN
    OBVIOUS
  <2>2. /\ Assign(t, TRUE, m_is_writer_lock[t], c) /\ c \in Call
        /\ \A u \in Task : u # t => pc'[u] = pc[u]
    BY <1>4 DEF Acquire, Lock, LockShared, Goto
  <2>3. Fits(pc'[t], TRUE, m_is_writer_lock[t], c)
    BY <1>4 DEF Acquire, Lock, LockShared, Goto, Fits
  <2> HIDE DEF LockInv, Call, c
  <2> QED BY <1>1, <2>1, <2>2, <2>3
<1>5. ASSUME NEW t \in Task, NEW write \in BOOLEAN, TryAcquire(t, write)
      PROVE  LockInv'
  <2>1. /\ Assign(t, TRUE, write, "none") /\ "none" \in Call
        /\ \A u \in Task : u # t => pc'[u] = pc[u]
        /\ Fits(pc'[t], TRUE, write, "none")
    BY <1>5 DEF TryAcquire, TryLock, TryLockShared, Goto, Fits
  <2> HIDE DEF LockInv, Call
  <2> QED BY <1>1, <2>1
<1>6. ASSUME NEW t \in Task, Release(t) \/ Upgrade(t) \/ Downgrade(t)
      PROVE  LockInv'
  <2>1. /\ pc'[t] \in {"handoff", "out", "transition"}
        /\ \A u \in Task : u # t => pc'[u] = pc[u]
    BY <1>6 DEF Release, Upgrade, Downgrade, Give, Unlock, UnlockShared,
       UnlockLastShared, Goto
  <2>2. PICK w \in BOOLEAN, c \in {"release", "upgrade", "downgrade"} :
           Assign(t, TRUE, w, c)
    <3>1. m_is_writer_lock[t] \in BOOLEAN
      OBVIOUS
    <3> QED BY <1>6, <3>1 DEF Release, Upgrade, Downgrade
  <2>3. c \in Call /\ Fits(pc'[t], TRUE, w, c)
    BY <2>1 DEF Fits
  <2> HIDE DEF LockInv, Call
  <2> QED BY <1>1, <2>1, <2>2, <2>3
<1>7. ASSUME NEW t \in Task,
             Acquired(t) \/ Released(t) \/ Upgraded(t) \/ Downgraded(t)
      PROVE  LockInv'
  BY <1>1, <1>7 DEF Acquired, Released, Upgraded, Downgraded, Back, vars, Fits
<1>8. ASSUME NEW t \in Task, UpgradeLock(t) \/ DowngradeLock(t)
      PROVE  LockInv'
  <2>1. CASE UpgradeLock(t)
    <3>1. /\ Assign(t, TRUE, FALSE, "upgrade_lock") /\ "upgrade_lock" \in Call
          /\ \A u \in Task : u # t => pc'[u] = pc[u]
          /\ Fits(pc'[t], TRUE, FALSE, "upgrade_lock")
      BY <2>1 DEF UpgradeLock, Lock, Goto, Fits
    <3> HIDE DEF LockInv, Call
    <3> QED BY <1>1, <3>1
  <2>2. CASE DowngradeLock(t)
    <3>1. /\ Assign(t, TRUE, TRUE, "downgrade_lock") /\ "downgrade_lock" \in Call
          /\ \A u \in Task : u # t => pc'[u] = pc[u]
          /\ Fits(pc'[t], TRUE, TRUE, "downgrade_lock")
      BY <2>2 DEF DowngradeLock, LockShared, Goto, Fits
    <3> HIDE DEF LockInv, Call
    <3> QED BY <1>1, <3>1
  <2> QED BY <1>8, <2>1, <2>2
<1>9. ASSUME NEW t \in Task, pc[t] \notin Owning, Step(t), UNCHANGED lockVars
      PROVE  LockInv'
  <2>1. /\ \A u \in Task : u # t => pc'[u] = pc[u]
        /\ \/ pc'[t] = pc[t]
           \/ pc[t] \in WriterPlaces /\ pc'[t] \in WriterPlaces
           \/ pc[t] \in ReaderPlaces /\ pc'[t] \in ReaderPlaces
           \/ pc[t] \in ReleasePlaces \ {"out"} /\ pc'[t] \in ReleasePlaces
    BY <1>9, StepMoves
  <2>2. Fits(pc'[t], m_mutex[t], m_is_writer_lock[t], call[t])
    BY <2>1 DEF Fits
  <2> QED BY <1>9, <2>1, <2>2 DEF lockVars
<1> QED BY <1>2, <1>3, <1>4, <1>5, <1>6, <1>7, <1>8, <1>9 DEF SLNext, SLStep

(* shared_mutex::scoped_lock only makes calls that the specification of    *)
(* the mutex has, so each theorem above holds for its clients.             *)
THEOREM SharedScopedLockUsesMutex == SLSpec => Spec
<1>1. SLInit => Init
  BY DEF SLInit
<1> QED BY <1>1, MutexStep, PTL DEF SLSpec, Spec

(* A scoped_lock in no call knows whether its task owns the mutex and in   *)
(* which mode, whatever happened between the two halves of an upgrade or a *)
(* downgrade (shared_mutex.cpp:101-186).                                   *)
THEOREM SharedScopedLockMembers == SLSpec => []MembersTellOwner
<1>1. SLInit => LockInv
  BY DEF SLInit, Init, LockInv, MembersType, Fits, Call
<1>2. LockInv => MembersTellOwner
  BY DEF LockInv, MembersType, Fits, MembersTellOwner, Owning, WriterPlaces, ReaderPlaces
<1>3. SLSpec => []SharedMutexInv
  BY SharedScopedLockUsesMutex, SharedMutexInvariant, PTL
<1>4. SharedMutexInv => PCType
  BY DEF SharedMutexInv
<1>5. SLSpec => []LockInv
  BY <1>1, <1>3, <1>4, LockStep, PTL DEF SLSpec
<1> QED BY <1>2, <1>5, PTL
=============================================================================
