------------------------------ MODULE ScopedLock -------------------------------
(***************************************************************************)
(* coopsync_tbb::mutex::scoped_lock, and through it the clients of Mutex:  *)
(* every task has one scoped_lock for the one mutex, and locks and unlocks *)
(* only with it.                                                           *)
(***************************************************************************)
EXTENDS Mutex

VARIABLES m_mutex,    \* task -> the pointer of its scoped_lock is not null
          releasing   \* task -> in release(), which has not cleared it yet

slVars == <<vars, m_mutex, releasing>>

SLTypeOK == /\ TypeOK
            /\ m_mutex \in [Task -> BOOLEAN]
            /\ releasing \in [Task -> BOOLEAN]

SLInit == /\ Init
          /\ m_mutex = [t \in Task |-> FALSE]
          /\ releasing = [t \in Task |-> FALSE]

(* The constructor and acquire() set the pointer and then lock; acquire()  *)
(* of a lock that has a mutex throws instead.                              *)
Acquire(t) == /\ ~m_mutex[t] /\ ~releasing[t]
              /\ m_mutex' = [m_mutex EXCEPT ![t] = TRUE]
              /\ Lock(t)
              /\ UNCHANGED releasing

(* A mistaken variant: the pointer is not set. *)
TryAcquire_Forgets(t) == /\ ~m_mutex[t] /\ ~releasing[t] /\ pc[t] = "out"
                         /\ TryLock(t)
                         /\ UNCHANGED <<m_mutex, releasing>>

(* try_acquire() that succeeds; one that fails changes nothing. *)
TryAcquire(t) == /\ ~m_mutex[t] /\ ~releasing[t] /\ pc[t] = "out"
                 /\ m_mutex' = [m_mutex EXCEPT ![t] = TRUE]
                 /\ TryLock(t)
                 /\ UNCHANGED releasing

(* release() and the destructor: nothing without a mutex, else unlock(),   *)
(* during which others already run, and then the pointer is cleared.       *)
Release(t) == /\ m_mutex[t] /\ ~releasing[t]
              /\ Unlock(t)
              /\ releasing' = [releasing EXCEPT ![t] = TRUE]
              /\ UNCHANGED m_mutex
Released(t) == /\ releasing[t] /\ pc[t] = "out" /\ Running(t)
               /\ m_mutex' = [m_mutex EXCEPT ![t] = FALSE]
               /\ releasing' = [releasing EXCEPT ![t] = FALSE]
               /\ UNCHANGED vars

-----------------------------------------------------------------------------
SLStep(t) == \/ pc[t] # "cs" /\ Step(t) /\ UNCHANGED <<m_mutex, releasing>>
             \/ Release(t)
             \/ Released(t)

SLNext == \E t \in Task : Acquire(t) \/ TryAcquire(t) \/ SLStep(t)

SLSpec == SLInit /\ [][SLNext]_slVars
SLFairSpec == SLSpec /\ \A t \in Task : WF_slVars(SLStep(t))

-----------------------------------------------------------------------------
(* mutex.cpp:36-73: a scoped_lock that is in no call has a mutex exactly   *)
(* when its task owns it.  So release() never unlocks the mutex of another *)
(* task, the end of the scope never leaves it locked, and acquire() is not *)
(* refused for a mutex given up before.                                    *)
InNoCall(t) == pc[t] \in {"out", "cs"} /\ Running(t) /\ ~releasing[t]
PointerTellsOwner == \A t \in Task : InNoCall(t) => (m_mutex[t] <=> pc[t] = "cs")
===============================================================================
