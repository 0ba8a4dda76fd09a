------------------------------- MODULE Semaphore -------------------------------
(***************************************************************************)
(* coopsync_tbb::counting_semaphore<LeastMaxValue> and its specialization  *)
(* binary_semaphore: a counter of free permits and a wait queue.  release  *)
(* adds permits and then resumes as many waiters as it added, which retry. *)
(*                                                                         *)
(* The clients keep to what release() requires: a client gives back the    *)
(* permits it holds, held[t], or brings new ones as long as there are at   *)
(* most max() in all.  permits is how many there are, with any number and  *)
(* any distribution at first.  Semaphores of several capacities are        *)
(* explored side by side, one per behaviour.                               *)
(*                                                                         *)
(* pc[t]:                                                                  *)
(*   "out"       in no call                                                *)
(*   "acquire"   acquire(), before try_acquire() (or inside the suspension *)
(*               before it)                                                *)
(*   "wait_if"   acquire(), wait_if is called                              *)
(*   "resume"    release(), the permits are added, resume_n(pending[t]) or *)
(*               resume_one() is next                                      *)
(***************************************************************************)
EXTENDS WaitQueue, FiniteSetsExt

CONSTANTS Capacities,   \* the template's arguments; 1 is the binary semaphore
          StorageMax    \* the largest values of the integer types to choose from

(* A capacity has a type that can hold it, and of those a smallest one.    *)
ASSUME SemaphoreAssumption ==
    /\ Capacities \subseteq Nat \ {0} /\ StorageMax \subseteq Nat
    /\ \A c \in Capacities :
         \E m \in StorageMax : c <= m /\ \A k \in StorageMax : c <= k => m <= k
    /\ "semaphore" \in Queue
    /\ IsFiniteSet(Task)

VARIABLES m_counter,   \* std::atomic<storage_t>; m_available of the binary one
          pc,
          pending,     \* task -> the argument of the resume_n it is to call
          held,        \* task -> permits its client holds
          permits,     \* the permits in circulation
          LeastMaxValue   \* the capacity of the semaphore at hand

semVars == <<m_counter, pc, pending, held, permits, LeastMaxValue>>
vars == <<m_counter, pc, pending, held, permits, LeastMaxValue,
          m_waiters, m_waiters_mutex, susp, batch>>

(* The counter is stored in the smallest type that can hold LeastMaxValue  *)
(* and may count as far as that type does.                                 *)
max == IF LeastMaxValue = 1 THEN 1
       ELSE Min({m \in StorageMax : LeastMaxValue <= m})

PC == {"out", "acquire", "wait_if", "resume"}

(* The sum of f over the tasks, as the size of a set with f[t] pairs of t. *)
Units(f) == UNION {{t} \X (1..f[t]) : t \in Task}
Sum(f) == Cardinality(Units(f))

TypeOK == /\ WQTypeOK
          /\ LeastMaxValue \in Capacities
          /\ m_counter \in 0..max
          /\ pc \in [Task -> PC]
          /\ pending \in [Task -> 0..max]
          /\ held \in [Task -> 0..max]
          /\ permits \in 1..max

Init == /\ WQInit
        /\ LeastMaxValue \in Capacities
        /\ pc = [t \in Task |-> "out"]
        /\ pending = [t \in Task |-> 0]
        /\ permits \in 1..max
        /\ m_counter \in 0..permits
        /\ held \in {h \in [Task -> 0..max] : m_counter + Sum(h) = permits}

-----------------------------------------------------------------------------
(* acquire() is called by a client that holds nothing. *)
Acquire(t) == /\ pc[t] = "out" /\ Running(t) /\ held[t] = 0
              /\ pc' = [pc EXCEPT ![t] = "acquire"]
              /\ UNCHANGED <<m_counter, pending, held, permits, LeastMaxValue, wqVars>>

(* A mistaken variant: no decrement. *)
TryAcquire_NotTaken(t) == /\ pc[t] \in {"out", "acquire"} /\ Running(t)
                          /\ held[t] = 0 /\ m_counter > 0
                          /\ held' = [held EXCEPT ![t] = 1]
                          /\ pc' = [pc EXCEPT ![t] = "out"]
                          /\ UNCHANGED <<m_counter, pending, permits,
                                         LeastMaxValue, wqVars>>

(* The compare-and-swap loop of try_acquire() takes a permit, for acquire()*)
(* or for the client.                                                      *)
TryAcquire(t) == /\ pc[t] \in {"out", "acquire"} /\ Running(t) /\ held[t] = 0
                 /\ m_counter > 0
                 /\ m_counter' = m_counter - 1
                 /\ held' = [held EXCEPT ![t] = 1]
                 /\ pc' = [pc EXCEPT ![t] = "out"]
                 /\ UNCHANGED <<pending, permits, LeastMaxValue, wqVars>>
TryAcquireFails(t) == /\ pc[t] = "acquire" /\ Running(t)
                      /\ m_counter = 0
                      /\ pc' = [pc EXCEPT ![t] = "wait_if"]
                      /\ UNCHANGED <<m_counter, pending, held, permits, LeastMaxValue, wqVars>>
WaitIf(t) == /\ pc[t] = "wait_if" /\ Running(t)
             /\ pc' = [pc EXCEPT ![t] = "acquire"]
             /\ \/ m_counter = 0 /\ Suspend(t)
                \/ m_counter > 0 /\ UNCHANGED wqVars
             /\ UNCHANGED <<m_counter, pending, held, permits, LeastMaxValue>>
RecheckCounter(t) == /\ pc[t] = "acquire"
                     /\ Recheck(t, "semaphore", m_counter = 0)
                     /\ UNCHANGED semVars
PushWaiter(t) == pc[t] = "acquire" /\ Push(t, "semaphore") /\ UNCHANGED semVars
BounceBack(t) == Bounce(t) /\ UNCHANGED semVars

(* release(update): add the permits, then wake as many.  update = 0 does   *)
(* nothing.  The binary semaphore stores that it is available and wakes    *)
(* one task, whatever the update and whatever it was before: clients have  *)
(* to see to it that its permit was taken.                                 *)
Added(update) == IF LeastMaxValue = 1 THEN 1 ELSE update
Replenished(n) == IF LeastMaxValue = 1 THEN 1 ELSE m_counter + n
Add(t, n) == /\ pc[t] = "out" /\ Running(t)
             /\ m_counter' = Replenished(n)
             /\ pending' = [pending EXCEPT ![t] = n]
             /\ pc' = [pc EXCEPT ![t] = "resume"]
             /\ UNCHANGED <<LeastMaxValue, wqVars>>

(* The client gives back what it holds, or brings new permits. *)
Release(t, update) == /\ update > 0 /\ Added(update) <= held[t]
                      /\ Add(t, Added(update))
                      /\ held' = [held EXCEPT ![t] = @ - Added(update)]
                      /\ UNCHANGED permits
ReleaseNew(t, update) == /\ update > 0 /\ permits + Added(update) <= max
                         /\ Add(t, Added(update))
                         /\ permits' = permits + Added(update)
                         /\ UNCHANGED held

(* A mistaken variant: one waiter resumed, however many permits came. *)
ReleaseResume_One(t) == /\ pc[t] = "resume" /\ Running(t)
                        /\ PopOne(t, "semaphore")
                        /\ pending' = [pending EXCEPT ![t] = 0]
                        /\ pc' = [pc EXCEPT ![t] = "out"]
                        /\ UNCHANGED <<m_counter, held, permits, LeastMaxValue>>

ReleaseResume(t) == /\ pc[t] = "resume" /\ Running(t)
                    /\ PopN(t, "semaphore", pending[t])
                    /\ pending' = [pending EXCEPT ![t] = 0]
                    /\ pc' = [pc EXCEPT ![t] = "out"]
                    /\ UNCHANGED <<m_counter, held, permits, LeastMaxValue>>
ResumeWaiter(t) == ResumeNext(t) /\ UNCHANGED semVars

-----------------------------------------------------------------------------
(* The steps inside a call, and the release that a holder owes. *)
Step(t) == \/ pc[t] = "acquire" /\ TryAcquire(t)
           \/ TryAcquireFails(t) \/ WaitIf(t) \/ RecheckCounter(t)
           \/ PushWaiter(t) \/ BounceBack(t)
           \/ \E update \in 1..max + 1 : Release(t, update)
           \/ ReleaseResume(t) \/ ResumeWaiter(t)

Next == \E t \in Task : \/ Acquire(t) \/ TryAcquire(t)
                        \/ \E update \in 1..max + 1 : ReleaseNew(t, update)
                        \/ Step(t)

Spec == Init /\ [][Next]_vars
FairSpec == Spec /\ \A t \in Task : WF_vars(Step(t))

-----------------------------------------------------------------------------
(* A permit is free or held, never both and never lost, with all the       *)
(* compare-and-swaps and fetch_adds in flight; so the counter never goes   *)
(* below zero nor beyond what storage_t can hold, which may be more than   *)
(* LeastMaxValue (semaphore.hpp:217-256).                                  *)
PermitsConserved == /\ m_counter + Sum(held) = permits
                    /\ m_counter \in 0..max

(* No lost wake-up, counted (semaphore.hpp:234-256): while somebody sleeps *)
(* in the queue, or is about to, every free permit has a task that will    *)
(* try to take it or wake one that will.                                   *)
Contenders == {t \in Task : /\ pc[t] \in {"acquire", "wait_if"}
                            /\ susp[t] \in {"idle", "suspended", "bounce"}}
Called == {t \in Task : \E u \in Task : t \in Range(batch[u])}
EveryPermitHasTaker ==
    m_waiters["semaphore"] # <<>> \/ (\E t \in Task : susp[t] = "push")
      => m_counter <= Cardinality(Contenders) + Cardinality(Called) + Sum(pending)

(* Progress: once no task starts to acquire, every acquire() returns. *)
NoNewAcquires == <>[][\A t \in Task : pc[t] = "out" =>
                        pc'[t] # "acquire" /\ held'[t] <= held[t]]_vars
AcquirersSucceed == NoNewAcquires
    => \A t \in Task : pc[t] \in {"acquire", "wait_if"} ~> held[t] = 1
=============================================================================
