--------------------------- MODULE SharedScopedLock ----------------------------
(***************************************************************************)
(* coopsync_tbb::shared_mutex::scoped_lock, and through it the clients of  *)
(* SharedMutex: every task has one scoped_lock for the one mutex.          *)
(*                                                                         *)
(* call[t] is the member function of t that still has something to assign, *)
(* "none" if there is none: "acquire_writer", "acquire_reader", "release", *)
(* "upgrade" and "downgrade"; the last two give the mutex up and lock it   *)
(* again, and are "upgrade_lock" and "downgrade_lock" in their second half.*)
(***************************************************************************)
EXTENDS SharedMutex

VARIABLES m_mutex,            \* task -> the pointer of its lock is not null
          m_is_writer_lock,
          call

lockVars == <<m_mutex, m_is_writer_lock, call>>
slVars == <<vars, m_mutex, m_is_writer_lock, call>>

Call == {"none", "acquire_writer", "acquire_reader", "release",
         "upgrade", "upgrade_lock", "downgrade", "downgrade_lock"}

SLTypeOK == /\ TypeOK
            /\ m_mutex \in [Task -> BOOLEAN]
            /\ m_is_writer_lock \in [Task -> BOOLEAN]
            /\ call \in [Task -> Call]

SLInit == /\ Init
          /\ m_mutex = [t \in Task |-> FALSE]
          /\ m_is_writer_lock = [t \in Task |-> FALSE]
          /\ call = [t \in Task |-> "none"]

Assign(t, mutex, writer, c) ==
    /\ m_mutex' = [m_mutex EXCEPT ![t] = mutex]
    /\ m_is_writer_lock' = [m_is_writer_lock EXCEPT ![t] = writer]
    /\ call' = [call EXCEPT ![t] = c]

(* The call of the mutex that t made has returned. *)
Back(t, place) == pc[t] = place /\ Running(t)

-----------------------------------------------------------------------------
(* The constructor sets both members before it locks; acquire() sets the   *)
(* second one once the lock is taken.  acquire() throws on a lock that has *)
(* a mutex.                                                                *)
Construct(t, write) ==
    /\ call[t] = "none" /\ ~m_mutex[t]
    /\ Assign(t, TRUE, write, "none")
    /\ IF write THEN Lock(t) ELSE LockShared(t)
Acquire(t, write) ==
    /\ call[t] = "none" /\ ~m_mutex[t]
    /\ Assign(t, TRUE, m_is_writer_lock[t],
              IF write THEN "acquire_writer" ELSE "acquire_reader")
    /\ IF write THEN Lock(t) ELSE LockShared(t)
Acquired(t) ==
    /\ \/ call[t] = "acquire_writer" /\ Back(t, "writer")
       \/ call[t] = "acquire_reader" /\ Back(t, "reader")
    /\ Assign(t, TRUE, call[t] = "acquire_writer", "none")
    /\ UNCHANGED vars

(* A mistaken variant: the mode is not stored. *)
TryAcquire_ModeLost(t, write) ==
    /\ call[t] = "none" /\ ~m_mutex[t] /\ pc[t] = "out"
    /\ IF write THEN TryLock(t) ELSE TryLockShared(t)
    /\ Assign(t, TRUE, m_is_writer_lock[t], "none")

(* try_acquire() that succeeds; one that fails changes nothing. *)
TryAcquire(t, write) ==
    /\ call[t] = "none" /\ ~m_mutex[t] /\ pc[t] = "out"
    /\ IF write THEN TryLock(t) ELSE TryLockShared(t)
    /\ Assign(t, TRUE, write, "none")

(* unlock() or unlock_shared(), as the member says. *)
Give(t, writer) == \/ writer /\ Unlock(t)
                   \/ ~writer /\ (UnlockShared(t) \/ UnlockLastShared(t))

(* release() and the destructor; without a mutex they do nothing. *)
Release(t) == /\ call[t] = "none" /\ m_mutex[t]
              /\ Give(t, m_is_writer_lock[t])
              /\ Assign(t, TRUE, m_is_writer_lock[t], "release")
Released(t) == /\ call[t] = "release" /\ Back(t, "out")
               /\ Assign(t, FALSE, FALSE, "none")
               /\ UNCHANGED vars

-----------------------------------------------------------------------------
(* upgrade_to_writer() of a reader gives the shared lock up, locks, and    *)
(* returns false; of a writer it returns true at once.  Both throw without *)
(* a mutex.                                                                *)
Upgrade(t) == /\ call[t] = "none" /\ m_mutex[t] /\ ~m_is_writer_lock[t]
              /\ Give(t, FALSE)
              /\ Assign(t, TRUE, FALSE, "upgrade")
UpgradeLock(t) == /\ call[t] = "upgrade" /\ Back(t, "out")
                  /\ Lock(t)
                  /\ Assign(t, TRUE, FALSE, "upgrade_lock")
Upgraded(t) == /\ call[t] = "upgrade_lock" /\ Back(t, "writer")
               /\ Assign(t, TRUE, TRUE, "none")
               /\ UNCHANGED vars

(* downgrade_to_reader(), likewise. *)
Downgrade(t) == /\ call[t] = "none" /\ m_mutex[t] /\ m_is_writer_lock[t]
                /\ Give(t, TRUE)
                /\ Assign(t, TRUE, TRUE, "downgrade")
DowngradeLock(t) == /\ call[t] = "downgrade" /\ Back(t, "out")
                    /\ LockShared(t)
                    /\ Assign(t, TRUE, TRUE, "downgrade_lock")
Downgraded(t) == /\ call[t] = "downgrade_lock" /\ Back(t, "reader")
                 /\ Assign(t, TRUE, FALSE, "none")
                 /\ UNCHANGED vars

-----------------------------------------------------------------------------
Owning == {"writer", "reader"}
SLStep(t) == \/ pc[t] \notin Owning /\ Step(t) /\ UNCHANGED lockVars
             \/ Acquired(t) \/ Released(t)
             \/ UpgradeLock(t) \/ Upgraded(t)
             \/ DowngradeLock(t) \/ Downgraded(t)

SLNext == \E t \in Task :
            \/ \E write \in BOOLEAN : \/ Construct(t, write)
                                      \/ Acquire(t, write)
                                      \/ TryAcquire(t, write)
            \/ Release(t) \/ Upgrade(t) \/ Downgrade(t)
            \/ SLStep(t)

SLSpec == SLInit /\ [][SLNext]_slVars
SLFairSpec == SLSpec /\ \A t \in Task : WF_slVars(SLStep(t)) /\ WF_slVars(Release(t))

-----------------------------------------------------------------------------
(* shared_mutex.cpp:101-186: a scoped_lock that is in no call has a mutex  *)
(* exactly when its task owns it, and knows in which mode, whatever other  *)
(* tasks did between the two halves of an upgrade or a downgrade.  So      *)
(* release() always calls the right one of unlock() and unlock_shared(),   *)
(* and only for an owner.                                                  *)
MembersTellOwner ==
    \A t \in Task :
      call[t] = "none" /\ pc[t] \in Owning \cup {"out"} /\ Running(t)
        => pc[t] = IF ~m_mutex[t] THEN "out"
                   ELSE IF m_is_writer_lock[t] THEN "writer" ELSE "reader"
===============================================================================
