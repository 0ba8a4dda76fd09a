------------------------------- MODULE WaitQueue -------------------------------
(***************************************************************************)
(* coopsync_tbb::detail::wait_queue: a FIFO list of suspended oneTBB tasks *)
(* protected by a spin mutex.  Every primitive of the library is an atomic *)
(* word plus one or two of these queues, so this module offers the steps   *)
(* of wait_if and resume_one / resume_n / resume_all as action operators;  *)
(* a primitive's module EXTENDS it and supplies the predicates.            *)
(*                                                                         *)
(* A task is in at most one wait_if at a time, so the progress of the      *)
(* callback passed to tbb::task::suspend is a function of the task, susp:  *)
(*   "idle"       not inside tbb::task::suspend: the task runs             *)
(*   "suspended"  the callback has not yet taken m_waiters_mutex           *)
(*   "push"       the callback holds the mutex, its predicate was true     *)
(*   "bounce"     the callback let the mutex go, its predicate was false:  *)
(*                it is about to resume the task itself                    *)
(*   "parked"     the task's node is in the list, the callback has ended   *)
(* A resuming task first moves the nodes it takes, under the mutex, to a   *)
(* list of its own, batch (waiters_to_resume, or the single pointer waiter *)
(* of resume_one), and then resumes them one by one with the mutex free.   *)
(*                                                                         *)
(* intrusive_list is abstracted to a sequence of the tasks whose nodes it  *)
(* links.  The two steps under the mutex that touch shared memory only     *)
(* there (acquire + evaluate the predicate, push_back + release) are each  *)
(* one step; a primitive may change its atomic word between them.          *)
(***************************************************************************)
EXTENDS Naturals, Sequences, FiniteSets, Functions

CONSTANTS Task,     \* the oneTBB tasks that use the primitive
          Queue,    \* the wait_queue objects
          NoTask    \* the owner of a free spin mutex

ASSUME NoTaskAssumption == NoTask \notin Task

VARIABLES m_waiters,         \* queue -> FIFO list of the nodes it links
          m_waiters_mutex,   \* queue -> holder of the spin mutex
          susp,              \* task  -> progress of its suspend callback
          batch              \* task  -> nodes it took and has yet to resume

wqVars == <<m_waiters, m_waiters_mutex, susp, batch>>

SuspState == {"idle", "suspended", "push", "bounce", "parked"}

WQTypeOK == /\ m_waiters \in [Queue -> Seq(Task)]
            /\ m_waiters_mutex \in [Queue -> Task \cup {NoTask}]
            /\ susp \in [Task -> SuspState]
            /\ batch \in [Task -> Seq(Task)]

WQInit == /\ m_waiters = [q \in Queue |-> <<>>]
          /\ m_waiters_mutex = [q \in Queue |-> NoTask]
          /\ susp = [t \in Task |-> "idle"]
          /\ batch = [t \in Task |-> <<>>]

-----------------------------------------------------------------------------
(* wait_if *)

(* The task executes its own code: it is neither suspended nor in the loop *)
(* of do_resume_all.                                                       *)
Running(t) == susp[t] = "idle" /\ batch[t] = <<>>

(* The fast path found the predicate true: tbb::task::suspend is called.   *)
Suspend(t) == /\ susp' = [susp EXCEPT ![t] = "suspended"]
              /\ UNCHANGED <<m_waiters, m_waiters_mutex, batch>>

(* A mistaken variant: the predicate is not evaluated again. *)
Recheck_Skipped(t, q, pred) ==
    /\ susp[t] = "suspended"
    /\ m_waiters_mutex[q] = NoTask
    /\ susp' = [susp EXCEPT ![t] = "push"]
    /\ m_waiters_mutex' = [m_waiters_mutex EXCEPT ![q] = t]
    /\ UNCHANGED <<m_waiters, batch>>

(* The callback takes the spin mutex and evaluates the predicate again; if *)
(* it is false now, the scope ends and the mutex is released.              *)
Recheck(t, q, pred) ==
    /\ susp[t] = "suspended"
    /\ m_waiters_mutex[q] = NoTask
    /\ \/ /\ pred
          /\ susp' = [susp EXCEPT ![t] = "push"]
          /\ m_waiters_mutex' = [m_waiters_mutex EXCEPT ![q] = t]
       \/ /\ ~pred
          /\ susp' = [susp EXCEPT ![t] = "bounce"]
          /\ UNCHANGED m_waiters_mutex
    /\ UNCHANGED <<m_waiters, batch>>

(* The callback links its node at the tail and releases the mutex. *)
Push(t, q) ==
    /\ susp[t] = "push"
    /\ m_waiters_mutex[q] = t
    /\ m_waiters' = [m_waiters EXCEPT ![q] = Append(@, t)]
    /\ m_waiters_mutex' = [m_waiters_mutex EXCEPT ![q] = NoTask]
    /\ susp' = [susp EXCEPT ![t] = "parked"]
    /\ UNCHANGED batch

(* The callback resumes its own task, the predicate having become false. *)
Bounce(t) == /\ susp[t] = "bounce"
             /\ susp' = [susp EXCEPT ![t] = "idle"]
             /\ UNCHANGED <<m_waiters, m_waiters_mutex, batch>>

-----------------------------------------------------------------------------
(* resume_one, resume_n and resume_all *)

Least(m, n) == IF m <= n THEN m ELSE n

(* Mistaken variants: the nodes read but not unlinked; the newest waiter   *)
(* first.                                                                  *)
PopN_Peek(u, q, n) ==
    /\ m_waiters_mutex[q] = NoTask
    /\ batch' = [batch EXCEPT ![u] = SubSeq(m_waiters[q], 1,
                                            Least(n, Len(m_waiters[q])))]
    /\ UNCHANGED <<m_waiters, m_waiters_mutex, susp>>
PopN_NewestFirst(u, q, n) ==
    LET m == Len(m_waiters[q])
        k == Least(n, m)
    IN  /\ m_waiters_mutex[q] = NoTask
        /\ batch' = [batch EXCEPT ![u] = SubSeq(m_waiters[q], m - k + 1, m)]
        /\ m_waiters' = [m_waiters EXCEPT ![q] = SubSeq(@, 1, m - k)]
        /\ UNCHANGED <<m_waiters_mutex, susp>>

(* Under the spin mutex, task u moves the first n nodes of the queue (all  *)
(* of them if there are fewer) to its own list.                            *)
PopN(u, q, n) ==
    LET k == Least(n, Len(m_waiters[q]))
    IN  /\ m_waiters_mutex[q] = NoTask
        /\ batch' = [batch EXCEPT ![u] = SubSeq(m_waiters[q], 1, k)]
        /\ m_waiters' = [m_waiters EXCEPT ![q] = SubSeq(@, k + 1, Len(@))]
        /\ UNCHANGED <<m_waiters_mutex, susp>>

(* resume_one pops the head, if any. *)
PopOne(u, q) == PopN(u, q, 1)

(* resume_all swaps the list with an empty one. *)
SwapAll(u, q) == /\ m_waiters_mutex[q] = NoTask
                 /\ batch' = [batch EXCEPT ![u] = m_waiters[q]]
                 /\ m_waiters' = [m_waiters EXCEPT ![q] = <<>>]
                 /\ UNCHANGED <<m_waiters_mutex, susp>>

(* One iteration of do_resume_all: the node leaves the list before its     *)
(* task is resumed, for the resumed task may destroy it at once.           *)
ResumeNext(u) ==
    /\ batch[u] # <<>>
    /\ susp' = [susp EXCEPT ![Head(batch[u])] = "idle"]
    /\ batch' = [batch EXCEPT ![u] = Tail(@)]
    /\ UNCHANGED <<m_waiters, m_waiters_mutex>>

-----------------------------------------------------------------------------
(* What every primitive's run checks of its queues. *)

InSomeList(t) == \/ \E q \in Queue : t \in Range(m_waiters[q])
                 \/ \E u \in Task : t \in Range(batch[u])

(* wait_queue.hpp:92-94.  A node is a local of the suspended task, so it   *)
(* may be linked only while that task is suspended, in one list and once;  *)
(* and a parked task is linked somewhere, or nobody could ever resume it.  *)
ListsDisjoint ==
    /\ \A q \in Queue : IsInjective(m_waiters[q])
    /\ \A u \in Task : IsInjective(batch[u])
    /\ \A p, q \in Queue :
         p # q => Range(m_waiters[p]) \cap Range(m_waiters[q]) = {}
    /\ \A u, v \in Task : u # v => Range(batch[u]) \cap Range(batch[v]) = {}
    /\ \A q \in Queue, u \in Task :
         Range(m_waiters[q]) \cap Range(batch[u]) = {}

NodeLifetime == /\ ListsDisjoint
                /\ \A t \in Task : InSomeList(t) <=> susp[t] = "parked"

(* Between the re-check and push_back the callback owns the spin mutex, so *)
(* no resume_* call can slip in between and miss the node.                 *)
PushingHoldsLock ==
    /\ \A q \in Queue : m_waiters_mutex[q] # NoTask
                          => susp[m_waiters_mutex[q]] = "push"
    /\ \A p, q \in Queue : m_waiters_mutex[p] = m_waiters_mutex[q]
                            => p = q \/ m_waiters_mutex[p] = NoTask
    /\ \A t \in Task : susp[t] = "push"
                          => \E q \in Queue : m_waiters_mutex[q] = t
=============================================================================
