---------------------------- MODULE SemaphoreProofs ----------------------------
(***************************************************************************)
(* The semaphores, for any finite set of tasks and any capacities: permits *)
(* are conserved within the storage type, and while anybody sleeps every   *)
(* free permit has a task that will take it or wake one that will.         *)
(*                                                                         *)
(* Both are about numbers of things, so the proofs count sets: the pairs   *)
(* of Units, the tasks about to try (Contenders) and the tasks about to be *)
(* resumed (Called).  A step moves a task or some units from one of these  *)
(* sets to another.                                                        *)
(***************************************************************************)
EXTENDS Semaphore, WaitQueueProofs, FiniteSetTheorems

(* Where a task is, and who may wait in which queue. *)
Places ==
    /\ \A t \in Task : /\ susp[t] # "idle" => pc[t] = "acquire"
                       /\ pc[t] # "resume" => pending[t] = 0
    /\ \A q \in Queue \ {"semaphore"} : /\ m_waiters[q] = <<>>
                                        /\ m_waiters_mutex[q] = NoTask

SemaphoreInv == /\ WQInv /\ TypeOK /\ Places
                /\ PermitsConserved /\ EveryPermitHasTaker

-----------------------------------------------------------------------------
(* Counting. *)

(* The units of a function are finitely many. *)
LEMMA UnitsFinite ==
  ASSUME NEW m \in Nat, NEW f \in [Task -> 0..m]
  PROVE  IsFiniteSet(Units(f)) /\ Sum(f) \in Nat
<1>1. IsFiniteSet(Task \X (1..m))
  <2>1. IsFiniteSet(1..m)
    BY FS_Interval
  <2> QED BY <2>1, FS_Product, SemaphoreAssumption
<1>2. Units(f) \in SUBSET (Task \X (1..m))
  BY DEF Units
<1> QED BY <1>1, <1>2, FS_Subset, FS_CardinalityType DEF Sum

(* Raising one value raises the sum by as much. *)
LEMMA SumRaise ==
  ASSUME NEW m \in Nat, NEW f \in [Task -> 0..m], NEW g \in [Task -> 0..m],
         NEW t \in Task, \A u \in Task : u # t => g[u] = f[u], f[t] <= g[t]
  PROVE  Sum(g) = Sum(f) + (g[t] - f[t])
<1> DEFINE D == {t} \X ((f[t] + 1)..g[t])
<1>0. f[t] \in Nat /\ g[t] \in Nat
  OBVIOUS
<1>1. Units(g) = Units(f) \cup D
  <2>1. ASSUME NEW x \in Units(g) PROVE x \in Units(f) \cup D
    <3>1. PICK u \in Task : x \in {u} \X (1..g[u])
      BY DEF Units
    <3>2. CASE u # t
      BY <3>1, <3>2 DEF Units
    <3>3. CASE u = t /\ x \in {t} \X (1..f[t])
      BY <3>3 DEF Units
    <3>4. CASE u = t /\ x \notin {t} \X (1..f[t])
      BY <1>0, <3>1, <3>4
    <3> QED BY <3>1, <3>2, <3>3, <3>4
  <2>2. ASSUME NEW x \in Units(f) PROVE x \in Units(g)
    <3>1. PICK u \in Task : x \in {u} \X (1..f[u])
      BY DEF Units
    <3>2. 1..f[u] \subseteq 1..g[u]
      BY <1>0
    <3> QED BY <3>1, <3>2 DEF Units
  <2>3. ASSUME NEW x \in D PROVE x \in Units(g)
    <3>1. (f[t] + 1)..g[t] \subseteq 1..g[t]
      BY <1>0
    <3> QED BY <3>1 DEF Units
  <2> QED BY <2>1, <2>2, <2>3
<1>2. Units(f) \cap D = {}
  <2> SUFFICES ASSUME NEW x \in Units(f), x \in D PROVE FALSE
    OBVIOUS
  <2>1. PICK u \in Task : x \in {u} \X (1..f[u])
    BY DEF Units
  <2>2. u = t
    BY <2>1
  <2> QED BY <1>0, <2>1, <2>2
<1>3. IsFiniteSet(D) /\ Cardinality(D) = g[t] - f[t]
  <2> DEFINE I == (f[t] + 1)..g[t]
  <2>1. IsFiniteSet(I) /\ Cardinality(I) = g[t] - f[t]
    <3>1. f[t] + 1 \in Int /\ g[t] \in Int
      BY <1>0
    <3>2. /\ IsFiniteSet(I)
          /\ Cardinality(I) = IF f[t] + 1 > g[t] THEN 0 ELSE g[t] - (f[t] + 1) + 1
      BY <3>1, FS_Interval
    <3> QED BY <1>0, <3>2
  <2>2. IsFiniteSet({t}) /\ Cardinality({t}) = 1
    BY FS_Singleton
  <2> HIDE DEF I
  <2>3. IsFiniteSet({t} \X I) /\ Cardinality({t} \X I) = Cardinality({t}) * Cardinality(I)
    BY <2>1, <2>2, FS_Product
  <2> USE DEF I
  <2> QED BY <1>0, <2>1, <2>2, <2>3
<1>4. IsFiniteSet(Units(f)) /\ Sum(f) \in Nat
  BY UnitsFinite
<1> HIDE DEF D
<1>5. Cardinality(Units(g)) = Cardinality(Units(f)) + Cardinality(D) - Cardinality({})
  BY <1>1, <1>2, <1>3, <1>4, FS_Union
<1>6. Cardinality({}) = 0
  BY FS_EmptySet
<1> QED BY <1>0, <1>3, <1>4, <1>5, <1>6 DEF Sum

(* A sequence without repetitions has as many elements as it is long. *)
LEMMA CountRange ==
  ASSUME NEW s \in Seq(Task), IsInjective(s)
  PROVE  Cardinality(Range(s)) = Len(s)
<1>1. s \in [1..Len(s) -> Range(s)] /\ Len(s) \in Nat
  BY DEF Range
<1>2. s \in Bijection(1..Len(s), Range(s))
  BY <1>1 DEF Bijection, Injection, Surjection, Range
<1> QED BY <1>1, <1>2, FS_CountingElements DEF ExistsBijection

(* The storage type holds at least one permit. *)
LEMMA MaxType ==
  ASSUME LeastMaxValue \in Capacities
  PROVE  max \in Nat /\ max >= 1
<1>1. LeastMaxValue \in Nat \ {0}
  BY SemaphoreAssumption
<1>2. CASE LeastMaxValue = 1
  BY <1>2 DEF max
<1>3. CASE LeastMaxValue # 1
  <2> DEFINE S == {m \in StorageMax : LeastMaxValue <= m}
  <2>1. S \subseteq Nat
    BY SemaphoreAssumption
  <2>2. \E m \in S : \A k \in S : m <= k
    BY SemaphoreAssumption
  <2>3. Min(S) \in S
    BY <2>2 DEF Min
  <2>4. max = Min(S)
    BY <1>3 DEF max
  <2> QED BY <1>1, <2>1, <2>3, <2>4
<1> QED BY <1>2, <1>3

(* Any set of tasks has a size. *)
LEMMA TaskSet ==
  ASSUME NEW S \in SUBSET Task
  PROVE  IsFiniteSet(S) /\ Cardinality(S) \in Nat
BY FS_Subset, FS_CardinalityType, SemaphoreAssumption

-----------------------------------------------------------------------------
(* The steps. *)

(* What a task holds is part of the sum. *)
LEMMA HeldInSum ==
  ASSUME NEW m \in Nat, NEW t \in Task, held \in [Task -> 0..m]
  PROVE  held[t] <= Sum(held)
<1> DEFINE f == [held EXCEPT ![t] = 0]
<1>1. f \in [Task -> 0..m] /\ f[t] = 0 /\ \A u \in Task : u # t => held[u] = f[u]
  OBVIOUS
<1>2. f[t] <= held[t] /\ held[t] \in Nat
  BY <1>1
<1> HIDE DEF f
<1>3. Sum(held) = Sum(f) + (held[t] - f[t]) /\ Sum(f) \in Nat
  BY <1>1, <1>2, SumRaise, UnitsFinite
<1> QED BY <1>1, <1>2, <1>3

(* release() of either kind adds some number of permits within max(); the  *)
(* store of the binary semaphore does so because the holder's permit is    *)
(* the only one there is.                                                  *)
LEMMA ReleaseAdds ==
  ASSUME TypeOK, PermitsConserved, NEW t \in Task, NEW update \in 1..max + 1, Release(t, update)
  PROVE  \E n \in 1..max : /\ Add(t, n) /\ n <= held[t] /\ permits' = permits
                           /\ m_counter' = m_counter + n
                           /\ held' = [held EXCEPT ![t] = held[t] - n]
<1>1. max \in Nat /\ held \in [Task -> 0..max] /\ held[t] \in 0..max /\ LeastMaxValue \in Nat
  BY MaxType, SemaphoreAssumption DEF TypeOK
<1>2. Added(update) \in 1..max /\ Added(update) <= held[t]
  BY <1>1 DEF Added, Release
<1>3. m_counter' = m_counter + Added(update)
  <2>1. m_counter' = Replenished(Added(update))
    BY DEF Release, Add
  <2>2. CASE LeastMaxValue = 1
    <3>1. max = 1 /\ permits = 1 /\ m_counter \in Nat /\ Sum(held) \in Nat
      BY <1>1, <2>2, UnitsFinite DEF max, TypeOK
    <3>2. Sum(held) >= 1 /\ m_counter + Sum(held) = 1
      BY <1>1, <1>2, <3>1, HeldInSum DEF PermitsConserved
    <3>3. m_counter = 0
      BY <3>1, <3>2
    <3> QED BY <2>1, <2>2, <3>3 DEF Replenished, Added
  <2> QED BY <2>1, <2>2 DEF Replenished
<1> QED BY <1>2, <1>3 DEF Release

(* release() of new permits adds at most what max() leaves room for, and   *)
(* the binary semaphore has no room.                                       *)
LEMMA ReleaseNewAdds ==
  ASSUME TypeOK, NEW t \in Task, NEW update \in 1..max + 1, ReleaseNew(t, update)
  PROVE  \E n \in 1..max : /\ Add(t, n) /\ permits' = permits + n /\ permits' <= max
                           /\ m_counter' = m_counter + n /\ held' = held
<1>1. max \in Nat /\ permits \in 1..max /\ LeastMaxValue \in Nat
  BY MaxType, SemaphoreAssumption DEF TypeOK
<1>2. Added(update) \in 1..max /\ permits + Added(update) <= max
  BY <1>1 DEF Added, ReleaseNew
<1>3. LeastMaxValue # 1
  BY <1>1, <1>2 DEF max
<1> QED BY <1>2, <1>3 DEF ReleaseNew, Add, Replenished

(* A release, of permits the task held or of new ones. *)
Brings(t, n) == /\ Add(t, n) /\ m_counter' = m_counter + n
                /\ \/ /\ n <= held[t] /\ permits' = permits
                      /\ held' = [held EXCEPT ![t] = held[t] - n]
                   \/ /\ permits' = permits + n /\ permits' <= max
                      /\ held' = held

(* There are no other steps. *)
LEMMA SemaphoreCases ==
  ASSUME SemaphoreInv, Next
  PROVE  \E t \in Task :
           \/ Acquire(t) \/ TryAcquire(t) \/ TryAcquireFails(t) \/ WaitIf(t)
           \/ RecheckCounter(t) \/ PushWaiter(t) \/ BounceBack(t)
           \/ \E n \in 1..max : Brings(t, n)
           \/ ReleaseResume(t) \/ ResumeWaiter(t)
<1>1. ASSUME NEW t \in Task, NEW update \in 1..max + 1,
             Release(t, update) \/ ReleaseNew(t, update)
      PROVE  \E n \in 1..max : Brings(t, n)
  <2>1. CASE Release(t, update)
    BY <2>1, ReleaseAdds DEF Brings, SemaphoreInv
  <2>2. CASE ReleaseNew(t, update)
    BY <2>2, ReleaseNewAdds DEF Brings, SemaphoreInv
  <2> QED BY <1>1, <2>1, <2>2
<1> QED BY <1>1 DEF Next, Step

(* The capacity stays what it is. *)
LEMMA SameMax == ASSUME [Next]_vars PROVE LeastMaxValue' = LeastMaxValue /\ max' = max
<1>1. LeastMaxValue' = LeastMaxValue
  BY DEF Next, Step, vars, Acquire, TryAcquire, TryAcquireFails, WaitIf, RecheckCounter,
     PushWaiter, BounceBack, Release, ReleaseNew, Add, ReleaseResume, ResumeWaiter, semVars
<1> QED BY <1>1 DEF max

(* Whatever step is taken, the wait queue keeps its own invariant. *)
LEMMA SemaphoreWQInv == ASSUME SemaphoreInv, [Next]_vars PROVE WQInv'
<1> USE DEF SemaphoreInv
<1>0. ASSUME UNCHANGED wqVars PROVE WQInv'
  BY <1>0 DEF wqVars, WQInv, WQTypeOK, NodeLifetime, ListsDisjoint, InSomeList,
     PushingHoldsLock
<1>1. ASSUME NEW t \in Task, Acquire(t) \/ TryAcquire(t) \/ TryAcquireFails(t) PROVE WQInv'
  BY <1>0, <1>1 DEF Acquire, TryAcquire, TryAcquireFails
<1>2. ASSUME NEW t \in Task, WaitIf(t) PROVE WQInv'
  BY <1>0, <1>2, SuspendInv DEF WaitIf
<1>3. ASSUME NEW t \in Task, RecheckCounter(t) PROVE WQInv'
  <2>1. (m_counter = 0) \in BOOLEAN /\ "semaphore" \in Queue
    BY SemaphoreAssumption
  <2> QED BY <1>3, <2>1, RecheckInv DEF RecheckCounter
<1>4. ASSUME NEW t \in Task, PushWaiter(t) PROVE WQInv'
  BY <1>4, PushInv, SemaphoreAssumption DEF PushWaiter
<1>5. ASSUME NEW t \in Task, BounceBack(t) PROVE WQInv'
  BY <1>5, BounceInv DEF BounceBack
<1>6. ASSUME NEW t \in Task, ReleaseResume(t) PROVE WQInv'
  <2>1. pending[t] \in Nat
    BY MaxType DEF TypeOK
  <2> QED BY <1>6, <2>1, PopNInv, SemaphoreAssumption DEF ReleaseResume
<1>7. ASSUME NEW t \in Task, ResumeWaiter(t) PROVE WQInv'
  BY <1>7, ResumeNextInv DEF ResumeWaiter
<1>8. ASSUME NEW t \in Task, NEW n \in 1..max, Brings(t, n) PROVE WQInv'
  BY <1>0, <1>8 DEF Brings, Add
<1>9. CASE UNCHANGED vars
  BY <1>0, <1>9 DEF vars, wqVars
<1> QED BY <1>1, <1>2, <1>3, <1>4, <1>5, <1>6, <1>7, <1>8, <1>9, SemaphoreCases

(* A permit goes from the counter to a task or back, or is brought. *)
LEMMA SemaphoreConserves ==
  ASSUME SemaphoreInv, [Next]_vars
  PROVE  /\ PermitsConserved'
         /\ permits' \in 1..max' /\ held' \in [Task -> 0..max'] /\ m_counter' \in 0..max'
<1> USE DEF SemaphoreInv
<1>0. /\ max \in Nat /\ max >= 1 /\ max' = max /\ held \in [Task -> 0..max]
      /\ m_counter \in 0..max /\ permits \in 1..max /\ Sum(held) \in Nat
      /\ m_counter + Sum(held) = permits
  BY MaxType, SameMax, UnitsFinite DEF TypeOK, PermitsConserved
<1> SUFFICES /\ m_counter' + Sum(held') = permits' /\ permits' \in 1..max
             /\ held' \in [Task -> 0..max] /\ m_counter' \in 0..max
  BY <1>0 DEF PermitsConserved, Sum, Units
<1>1. ASSUME NEW t \in Task, TryAcquire(t)
      PROVE  /\ m_counter' + Sum(held') = permits' /\ permits' \in 1..max
             /\ held' \in [Task -> 0..max] /\ m_counter' \in 0..max
  <2>1. /\ held' \in [Task -> 0..max] /\ held'[t] = 1 /\ held[t] = 0
        /\ \A u \in Task : u # t => held'[u] = held[u]
        /\ m_counter' = m_counter - 1 /\ m_counter > 0 /\ permits' = permits
    BY <1>0, <1>1 DEF TryAcquire
  <2>2. Sum(held') = Sum(held) + (held'[t] - held[t])
    BY <1>0, <2>1, SumRaise
  <2> QED BY <1>0, <2>1, <2>2
<1>2. ASSUME NEW t \in Task, NEW n \in 1..max, Brings(t, n)
      PROVE  /\ m_counter' + Sum(held') = permits' /\ permits' \in 1..max
             /\ held' \in [Task -> 0..max] /\ m_counter' \in 0..max
  <2>1. m_counter' = m_counter + n
    BY <1>2 DEF Brings, Add
  <2>2. CASE n <= held[t] /\ permits' = permits /\ held' = [held EXCEPT ![t] = held[t] - n]
    <3>1. /\ held' \in [Task -> 0..max] /\ held'[t] = held[t] - n /\ held[t] \in Nat
          /\ \A u \in Task : u # t => held[u] = held'[u]
      BY <1>0, <2>2
    <3>2. held'[t] <= held[t]
      BY <3>1
    <3>3. Sum(held) = Sum(held') + (held[t] - held'[t]) /\ Sum(held') \in Nat
      BY <1>0, <3>1, <3>2, SumRaise, UnitsFinite
    <3>4. m_counter' + Sum(held') = permits
      BY <1>0, <2>1, <3>1, <3>3
    <3> QED BY <1>0, <2>1, <2>2, <3>1, <3>3, <3>4
  <2>3. CASE permits' = permits + n /\ permits' <= max /\ held' = held
    BY <1>0, <2>1, <2>3
  <2> QED BY <1>2, <2>2, <2>3 DEF Brings
<1>3. CASE UNCHANGED <<m_counter, held, permits>>
  BY <1>0, <1>3
<1>4. ASSUME NEW t \in Task, \/ Acquire(t) \/ TryAcquireFails(t) \/ WaitIf(t)
                             \/ RecheckCounter(t) \/ PushWaiter(t) \/ BounceBack(t)
                             \/ ReleaseResume(t) \/ ResumeWaiter(t)
      PROVE  UNCHANGED <<m_counter, held, permits>>
  BY <1>4 DEF Acquire, TryAcquireFails, WaitIf, RecheckCounter, PushWaiter, BounceBack,
     ReleaseResume, ResumeWaiter, semVars
<1>5. CASE UNCHANGED vars
  BY <1>3, <1>5 DEF vars
<1> QED BY <1>1, <1>2, <1>3, <1>4, <1>5, SemaphoreCases

(* Types. *)
LEMMA SemaphoreNextType == ASSUME SemaphoreInv, [Next]_vars PROVE TypeOK'
<1>0. /\ TypeOK /\ max \in Nat /\ max' = max /\ LeastMaxValue' = LeastMaxValue
  BY MaxType, SameMax DEF SemaphoreInv, TypeOK
<1>1. pc' \in [Task -> PC] /\ pending' \in [Task -> 0..max]
  <2>1. ASSUME NEW t \in Task, \/ Acquire(t) \/ TryAcquire(t) \/ TryAcquireFails(t) \/ WaitIf(t)
                               \/ ReleaseResume(t) \/ \E n \in 1..max : Brings(t, n)
        PROVE  pc' \in [Task -> PC] /\ pending' \in [Task -> 0..max]
    BY <1>0, <2>1 DEF TypeOK, PC, Acquire, TryAcquire, TryAcquireFails, WaitIf, ReleaseResume,
       Brings, Add
  <2>2. ASSUME NEW t \in Task, RecheckCounter(t) \/ PushWaiter(t) \/ BounceBack(t) \/ ResumeWaiter(t)
        PROVE  UNCHANGED <<pc, pending>>
    BY <2>2 DEF RecheckCounter, PushWaiter, BounceBack, ResumeWaiter, semVars
  <2>3. CASE UNCHANGED <<pc, pending>>
    BY <1>0, <2>3 DEF TypeOK
  <2>4. CASE UNCHANGED vars
    BY <2>3, <2>4 DEF vars
  <2> QED BY <1>0, <2>1, <2>2, <2>3, <2>4, SemaphoreCases
<1>2. WQTypeOK'
  BY SemaphoreWQInv DEF WQInv
<1>3. permits' \in 1..max' /\ held' \in [Task -> 0..max'] /\ m_counter' \in 0..max'
  BY SemaphoreConserves
<1> QED BY <1>0, <1>1, <1>2, <1>3 DEF TypeOK

(* A task suspends only in acquire(), in the semaphore's queue. *)
LEMMA SemaphorePlaces == ASSUME SemaphoreInv, [Next]_vars PROVE Places'
<1>0. WQInv /\ WQTypeOK /\ TypeOK /\ Places /\ "semaphore" \in Queue
  BY SemaphoreAssumption DEF SemaphoreInv, TypeOK
<1>1. ASSUME NEW u \in Task
      PROVE  (susp'[u] # "idle" => pc'[u] = "acquire") /\ (pc'[u] # "resume" => pending'[u] = 0)
  <2>0. (susp[u] # "idle" => pc[u] = "acquire") /\ (pc[u] # "resume" => pending[u] = 0)
    BY <1>0 DEF Places
  <2>1. ASSUME NEW t \in Task, Acquire(t) \/ TryAcquire(t) \/ TryAcquireFails(t) \/ WaitIf(t)
        PROVE  (susp'[u] # "idle" => pc'[u] = "acquire") /\ (pc'[u] # "resume" => pending'[u] = 0)
    BY <1>0, <2>0, <2>1 DEF Acquire, TryAcquire, TryAcquireFails, WaitIf, Suspend, Running,
       wqVars, TypeOK, WQTypeOK
  <2>2. ASSUME NEW t \in Task, RecheckCounter(t) \/ PushWaiter(t) \/ BounceBack(t)
        PROVE  (susp'[u] # "idle" => pc'[u] = "acquire") /\ (pc'[u] # "resume" => pending'[u] = 0)
    BY <1>0, <2>0, <2>2 DEF RecheckCounter, Recheck, PushWaiter, Push, BounceBack, Bounce,
       semVars, WQTypeOK
  <2>3. ASSUME NEW t \in Task, NEW n \in 1..max, Brings(t, n)
        PROVE  (susp'[u] # "idle" => pc'[u] = "acquire") /\ (pc'[u] # "resume" => pending'[u] = 0)
    BY <1>0, <2>0, <2>3 DEF Brings, Add, Running, wqVars, TypeOK
  <2>4. ASSUME NEW t \in Task, ReleaseResume(t)
        PROVE  (susp'[u] # "idle" => pc'[u] = "acquire") /\ (pc'[u] # "resume" => pending'[u] = 0)
    BY <1>0, <2>0, <2>4 DEF ReleaseResume, PopN, Running, TypeOK
  <2>5. ASSUME NEW t \in Task, ResumeWaiter(t)
        PROVE  (susp'[u] # "idle" => pc'[u] = "acquire") /\ (pc'[u] # "resume" => pending'[u] = 0)
    <3>1. susp'[u] = susp[u] \/ susp'[u] = "idle"
      BY <1>0, <2>5, ResumeNextEffect DEF ResumeWaiter
    <3> QED BY <2>0, <2>5, <3>1 DEF ResumeWaiter, semVars
  <2>6. CASE UNCHANGED vars
    BY <2>0, <2>6 DEF vars
  <2> QED BY <1>0, <2>1, <2>2, <2>3, <2>4, <2>5, <2>6, SemaphoreCases
<1>2. \A q \in Queue \ {"semaphore"} : /\ m_waiters'[q] = m_waiters[q]
                                      /\ m_waiters_mutex'[q] = m_waiters_mutex[q]
  <2>1. ASSUME NEW t \in Task, RecheckCounter(t) \/ PushWaiter(t) \/ ReleaseResume(t)
        PROVE  \A q \in Queue \ {"semaphore"} : /\ m_waiters'[q] = m_waiters[q]
                                                /\ m_waiters_mutex'[q] = m_waiters_mutex[q]
    BY <1>0, <2>1 DEF RecheckCounter, Recheck, PushWaiter, Push, ReleaseResume, PopN, WQTypeOK
  <2>2. ASSUME NEW t \in Task, \/ Acquire(t) \/ TryAcquire(t) \/ TryAcquireFails(t) \/ WaitIf(t)
                               \/ BounceBack(t) \/ ResumeWaiter(t) \/ \E n \in 1..max : Brings(t, n)
        PROVE  UNCHANGED <<m_waiters, m_waiters_mutex>>
    BY <2>2 DEF Acquire, TryAcquire, TryAcquireFails, WaitIf, Suspend, BounceBack, Bounce,
       ResumeWaiter, ResumeNext, Brings, Add, wqVars
  <2>3. CASE UNCHANGED vars
    BY <2>3 DEF vars
  <2> QED BY <1>0, <2>1, <2>2, <2>3, SemaphoreCases
<1> QED BY <1>0, <1>1, <1>2 DEF Places

-----------------------------------------------------------------------------
(* Takers. *)

Waiting == m_waiters["semaphore"] # <<>> \/ \E t \in Task : susp[t] = "push"

(* A step that neither adds permits nor takes a taker away. *)
LEMMA TakersStay ==
  ASSUME SemaphoreInv, Waiting' => Waiting, m_counter' = m_counter, pending' = pending,
         Called' = Called, Contenders \subseteq Contenders'
  PROVE  EveryPermitHasTaker'
<1>1. /\ Contenders \in SUBSET Task /\ Contenders' \in SUBSET Task /\ Called \in SUBSET Task
  BY DEF Contenders, Called
<1>2. /\ Cardinality(Contenders) \in Nat /\ Cardinality(Contenders') \in Nat
      /\ Cardinality(Called) \in Nat /\ IsFiniteSet(Contenders')
  BY <1>1, TaskSet
<1>3. Cardinality(Contenders) <= Cardinality(Contenders')
  BY <1>2, FS_Subset
<1>4. Sum(pending) \in Nat /\ m_counter \in Nat
  BY MaxType, UnitsFinite DEF SemaphoreInv, TypeOK
<1>5. Waiting => m_counter <= Cardinality(Contenders) + Cardinality(Called) + Sum(pending)
  BY DEF SemaphoreInv, EveryPermitHasTaker, Waiting
<1>6. Waiting' => m_counter <= Cardinality(Contenders') + Cardinality(Called) + Sum(pending)
  BY <1>2, <1>3, <1>4, <1>5
<1>7. Sum(pending') = Sum(pending)
  BY DEF Sum
<1> QED BY <1>6, <1>7 DEF EveryPermitHasTaker, Waiting, Sum, Units

(* Every step keeps a taker for every free permit. *)
LEMMA SemaphoreTakers == ASSUME SemaphoreInv, [Next]_vars PROVE EveryPermitHasTaker'
<1>0. /\ WQInv /\ WQTypeOK /\ TypeOK /\ Places /\ "semaphore" \in Queue /\ WQInv'
      /\ max \in Nat /\ m_counter \in Nat /\ pending \in [Task -> 0..max] /\ pc \in [Task -> PC]
      /\ Sum(pending) \in Nat
  BY SemaphoreAssumption, MaxType, UnitsFinite, SemaphoreWQInv DEF SemaphoreInv, TypeOK
<1>a. /\ Contenders \in SUBSET Task /\ Called \in SUBSET Task
      /\ Contenders' \in SUBSET Task /\ Called' \in SUBSET Task
  BY DEF Contenders, Called
<1>b. /\ IsFiniteSet(Contenders) /\ Cardinality(Contenders) \in Nat
      /\ IsFiniteSet(Called) /\ Cardinality(Called) \in Nat
      /\ IsFiniteSet(Contenders') /\ Cardinality(Contenders') \in Nat
      /\ IsFiniteSet(Called') /\ Cardinality(Called') \in Nat
  BY <1>a, TaskSet
<1>c. Waiting => m_counter <= Cardinality(Contenders) + Cardinality(Called) + Sum(pending)
  BY DEF SemaphoreInv, EveryPermitHasTaker, Waiting
<1>d. ASSUME Waiting' => m_counter' <= Cardinality(Contenders') + Cardinality(Called')
                                       + Sum(pending')
      PROVE  EveryPermitHasTaker'
  BY <1>d DEF EveryPermitHasTaker, Waiting, Sum, Units
<1>1. ASSUME NEW t \in Task, Acquire(t) \/ TryAcquireFails(t) \/ WaitIf(t)
      PROVE  EveryPermitHasTaker'
  <2>1. /\ m_waiters' = m_waiters /\ batch' = batch /\ m_counter' = m_counter
        /\ pending' = pending /\ pc'[t] \in {"acquire", "wait_if"}
        /\ susp'[t] \in {"idle", "suspended"}
        /\ \A u \in Task : u # t => susp'[u] = susp[u] /\ pc'[u] = pc[u]
    BY <1>0, <1>1 DEF Acquire, TryAcquireFails, WaitIf, Suspend, Running, wqVars, WQTypeOK
  <2>2. Contenders \subseteq Contenders' /\ Called' = Called
    BY <2>1 DEF Contenders, Called
  <2>3. Waiting' => Waiting
    BY <2>1 DEF Waiting
  <2> QED BY <2>1, <2>2, <2>3, TakersStay
<1>2. ASSUME NEW t \in Task, RecheckCounter(t) /\ m_counter = 0 PROVE EveryPermitHasTaker'
  <2>1. m_counter' = 0 /\ Sum(pending') = Sum(pending)
    BY <1>2 DEF RecheckCounter, semVars
  <2> QED BY <1>0, <1>b, <1>d, <2>1
<1>3. ASSUME NEW t \in Task, (RecheckCounter(t) /\ m_counter # 0) \/ BounceBack(t)
      PROVE  EveryPermitHasTaker'
  <2>1. /\ m_waiters' = m_waiters /\ batch' = batch /\ UNCHANGED semVars
        /\ susp'[t] \in {"idle", "bounce"}
        /\ \A u \in Task : u # t => susp'[u] = susp[u]
    BY <1>0, <1>3 DEF RecheckCounter, Recheck, BounceBack, Bounce, WQTypeOK
  <2>2. pc[t] = "acquire"
    BY <1>0, <1>3 DEF RecheckCounter, BounceBack, Bounce, Places
  <2>3. Contenders \subseteq Contenders' /\ Called' = Called
    BY <2>1, <2>2 DEF Contenders, Called, semVars
  <2>4. Waiting' => Waiting
    BY <2>1 DEF Waiting
  <2> QED BY <2>1, <2>3, <2>4, TakersStay DEF semVars
<1>4. ASSUME NEW t \in Task, PushWaiter(t) PROVE EveryPermitHasTaker'
  <2>1. /\ batch' = batch /\ UNCHANGED semVars /\ susp[t] = "push"
        /\ \A u \in Task : u # t => susp'[u] = susp[u]
    BY <1>0, <1>4 DEF PushWaiter, Push, WQTypeOK
  <2>2. Contenders \subseteq Contenders' /\ Called' = Called
    BY <2>1 DEF Contenders, Called, semVars
  <2>3. Waiting
    BY <2>1 DEF Waiting
  <2> QED BY <2>1, <2>2, <2>3, TakersStay DEF semVars
<1>5. ASSUME NEW t \in Task, TryAcquire(t) PROVE EveryPermitHasTaker'
  <2>1. /\ m_waiters' = m_waiters /\ batch' = batch /\ susp' = susp
        /\ m_counter' = m_counter - 1 /\ m_counter > 0 /\ pending' = pending
        /\ pc'[t] = "out" /\ \A u \in Task : u # t => pc'[u] = pc[u]
    BY <1>0, <1>5 DEF TryAcquire, wqVars
  <2>2. Contenders' = Contenders \ {t} /\ Called' = Called /\ Waiting' = Waiting
    BY <2>1 DEF Contenders, Called, Waiting
  <2>3. Cardinality(Contenders') >= Cardinality(Contenders) - 1
    BY <1>b, <2>2, FS_RemoveElement
  <2>4. Waiting' => m_counter - 1 <= Cardinality(Contenders') + Cardinality(Called)
                                       + Sum(pending)
    BY <1>0, <1>b, <1>c, <2>2, <2>3
  <2> QED BY <1>d, <2>1, <2>2, <2>4
<1>6. ASSUME NEW t \in Task, NEW n \in 1..max, Brings(t, n) PROVE EveryPermitHasTaker'
  <2>1. /\ m_waiters' = m_waiters /\ batch' = batch /\ susp' = susp
        /\ m_counter' = m_counter + n /\ pending' = [pending EXCEPT ![t] = n]
        /\ pc[t] = "out" /\ pc'[t] = "resume" /\ \A u \in Task : u # t => pc'[u] = pc[u]
    BY <1>0, <1>6 DEF Brings, Add, wqVars
  <2>2. Contenders' = Contenders /\ Called' = Called /\ Waiting' = Waiting
    BY <2>1 DEF Contenders, Called, Waiting
  <2>3. pending[t] = 0
    BY <1>0, <2>1 DEF Places
  <2>4. /\ pending' \in [Task -> 0..max] /\ pending'[t] = n /\ pending[t] <= pending'[t]
        /\ \A u \in Task : u # t => pending'[u] = pending[u]
    BY <1>0, <2>1, <2>3
  <2>5. Sum(pending') = Sum(pending) + (pending'[t] - pending[t])
    BY <1>0, <2>4, SumRaise
  <2>6. Sum(pending') = Sum(pending) + n
    BY <2>3, <2>4, <2>5
  <2>7. Waiting' => m_counter + n <= Cardinality(Contenders) + Cardinality(Called)
                                       + (Sum(pending) + n)
    BY <1>0, <1>b, <1>c, <2>2
  <2> QED BY <1>d, <2>1, <2>2, <2>6, <2>7
<1>7. ASSUME NEW t \in Task, ReleaseResume(t) PROVE EveryPermitHasTaker'
  <2> DEFINE s == m_waiters["semaphore"]
             n == pending[t]
  <2>1. /\ pc[t] = "resume" /\ susp[t] = "idle" /\ batch[t] = <<>>
        /\ PopN(t, "semaphore", n) /\ m_waiters_mutex["semaphore"] = NoTask
        /\ m_counter' = m_counter /\ pending' = [pending EXCEPT ![t] = 0]
        /\ pc'[t] = "out" /\ \A u \in Task : u # t => pc'[u] = pc[u]
        /\ n \in 0..max /\ n \in Nat /\ s \in Seq(Task)
    BY <1>0, <1>7 DEF ReleaseResume, Running, PopN, WQTypeOK
  <2>2. /\ Range(s) = Range(batch'[t]) \cup Range(m_waiters'["semaphore"])
        /\ \A v \in Task : v # t => batch'[v] = batch[v]
        /\ susp' = susp
    BY <1>0, <2>1, PopNEffect
  <2>3. \A u \in Task : susp'[u] # "push"
    <3>1. \A q \in Queue : m_waiters_mutex[q] = NoTask
      BY <1>0, <2>1 DEF Places
    <3> QED BY <2>2, <3>1, <1>0, NoTaskAssumption DEF WQInv, PushingHoldsLock
  <2>4. /\ batch'[t] = SubSeq(s, 1, Least(n, Len(s)))
        /\ m_waiters'["semaphore"] = SubSeq(s, Least(n, Len(s)) + 1, Len(s))
    BY <1>0, <2>1 DEF PopN, WQTypeOK
  <2>5. CASE ~(n < Len(s))
    <3>1. Least(n, Len(s)) = Len(s)
      BY <2>1, <2>5 DEF Least
    <3>2. m_waiters'["semaphore"] = <<>>
      BY <2>1, <2>4, <3>1
    <3>3. ~Waiting'
      BY <2>3, <3>2 DEF Waiting
    <3> QED BY <1>d, <3>3
  <2>6. CASE n < Len(s)
    <3>1. Least(n, Len(s)) = n
      BY <2>1, <2>6 DEF Least
    <3>2. Len(batch'[t]) = n /\ batch'[t] \in Seq(Task)
      BY <2>1, <2>4, <2>6, <3>1
    <3>3. IsInjective(batch'[t])
      BY <1>0 DEF WQInv, NodeLifetime, ListsDisjoint
    <3>4. Cardinality(Range(batch'[t])) = n
      BY <3>2, <3>3, CountRange
    <3>5. Range(batch[t]) = {}
      BY <2>1, RangeEmpty
    <3>6. Range(batch'[t]) \subseteq Task
      BY <3>2 DEF Range
    <3>7. Called' = Called \cup Range(batch'[t])
      BY <2>2, <3>5, <3>6 DEF Called
    <3>8. Called \cap Range(batch'[t]) = {}
      BY <1>0, <2>2 DEF Called, WQInv, NodeLifetime, ListsDisjoint
    <3>9. Cardinality(Called') = Cardinality(Called) + n
      <4>1. IsFiniteSet(Range(batch'[t]))
        BY <3>6, TaskSet
      <4>2. Cardinality(Called') = Cardinality(Called) + Cardinality(Range(batch'[t]))
                                     - Cardinality({})
        BY <1>b, <3>7, <3>8, <4>1, FS_Union
      <4>3. Cardinality({}) = 0
        BY FS_EmptySet
      <4> QED BY <1>b, <2>1, <3>4, <4>2, <4>3
    <3>10. /\ pending' \in [Task -> 0..max] /\ pending'[t] = 0 /\ pending'[t] <= pending[t]
           /\ \A u \in Task : u # t => pending[u] = pending'[u]
      BY <1>0, <2>1
    <3>11. Sum(pending) = Sum(pending') + (pending[t] - pending'[t]) /\ Sum(pending') \in Nat
      BY <1>0, <3>10, SumRaise, UnitsFinite
    <3>12. Sum(pending) = Sum(pending') + n
      BY <2>1, <3>10, <3>11
    <3>13. Contenders' = Contenders
      BY <2>1, <2>2 DEF Contenders
    <3>14. Waiting
      BY <2>1, <2>6 DEF Waiting
    <3> HIDE DEF n
    <3>15. m_counter <= Cardinality(Contenders') + Cardinality(Called') + Sum(pending')
      BY <1>0, <1>b, <1>c, <2>1, <3>9, <3>11, <3>12, <3>13, <3>14
    <3> QED BY <1>d, <2>1, <3>15
  <2> QED BY <2>5, <2>6
<1>8. ASSUME NEW t \in Task, ResumeWaiter(t) PROVE EveryPermitHasTaker'
  <2>1. UNCHANGED semVars /\ m_waiters' = m_waiters
    BY <1>8 DEF ResumeWaiter, ResumeNext
  <2>2. PICK h \in Task :
           /\ h \in Range(batch[t]) /\ susp[h] = "parked" /\ susp'[h] = "idle"
           /\ Range(batch'[t]) = Range(batch[t]) \ {h}
           /\ \A v \in Task : v # t => batch'[v] = batch[v]
           /\ \A v \in Task : v # t => h \notin Range(batch[v])
           /\ \A v \in Task : v # h => susp'[v] = susp[v]
    BY <1>0, <1>8, ResumeNextEffect DEF ResumeWaiter
  <2>3. pc[h] = "acquire"
    BY <1>0, <2>2 DEF Places
  <2>4. Called' = Called \ {h} /\ h \in Called
    BY <2>2 DEF Called
  <2>5. Contenders' = Contenders \cup {h} /\ h \notin Contenders
    BY <2>1, <2>2, <2>3 DEF Contenders, semVars
  <2>6. Cardinality(Called') = Cardinality(Called) - 1
    BY <1>b, <2>4, FS_RemoveElement
  <2>7. Cardinality(Contenders') = Cardinality(Contenders) + 1
    BY <1>b, <2>5, FS_AddElement
  <2>8. Waiting' => Waiting
    BY <2>1, <2>2 DEF Waiting
  <2>9. m_counter' = m_counter /\ Sum(pending') = Sum(pending)
    BY <2>1 DEF semVars
  <2>10. Waiting' => m_counter <= Cardinality(Contenders') + Cardinality(Called') + Sum(pending)
    BY <1>0, <1>b, <1>c, <2>6, <2>7, <2>8
  <2> QED BY <1>d, <2>9, <2>10
<1>9. CASE UNCHANGED vars
  <2>1. /\ m_counter' = m_counter /\ pending' = pending /\ Contenders \subseteq Contenders'
        /\ Called' = Called /\ (Waiting' => Waiting)
    BY <1>9 DEF vars, Contenders, Called, Waiting
  <2> QED BY <2>1, TakersStay
<1> QED BY <1>0, <1>1, <1>2, <1>3, <1>4, <1>5, <1>6, <1>7, <1>8, <1>9, SemaphoreCases

-----------------------------------------------------------------------------
(* The theorems. *)

(* The conjunction is inductive. *)
THEOREM SemaphoreInvariant == Spec => []SemaphoreInv
<1>1. Init => SemaphoreInv
  <2> SUFFICES ASSUME Init PROVE SemaphoreInv
    OBVIOUS
  <2>1. WQInv
    BY WQInitInv DEF Init
  <2>2. max \in Nat
    BY MaxType DEF Init
  <2>3. TypeOK
    BY <2>1, <2>2 DEF Init, TypeOK, WQInv, PC
  <2>4. Places /\ PermitsConserved
    BY <2>2, <2>3 DEF Init, WQInit, Places, PermitsConserved, TypeOK
  <2>5. EveryPermitHasTaker
    BY SemaphoreAssumption DEF Init, WQInit, EveryPermitHasTaker
  <2> QED BY <2>1, <2>3, <2>4, <2>5 DEF SemaphoreInv
<1>2. SemaphoreInv /\ [Next]_vars => SemaphoreInv'
  BY SemaphoreWQInv, SemaphoreNextType, SemaphorePlaces, SemaphoreConserves, SemaphoreTakers
     DEF SemaphoreInv
<1> QED BY <1>1, <1>2, PTL DEF Spec

(* Types of the semaphores' state (semaphore.hpp:196-199).                 *)
THEOREM SemaphoreTypeOK == Spec => []TypeOK
<1>1. SemaphoreInv => TypeOK
  BY DEF SemaphoreInv
<1> QED BY <1>1, SemaphoreInvariant, PTL

(* The counter and the permits the clients hold add up to the permits in   *)
(* circulation, and storage_t does not overflow (semaphore.hpp:217-256).   *)
THEOREM SemaphoreConservation == Spec => []PermitsConserved
<1>1. SemaphoreInv => PermitsConserved
  BY DEF SemaphoreInv
<1> QED BY <1>1, SemaphoreInvariant, PTL

(* While a task sleeps there are at least as many tasks that will try, are *)
(* about to be resumed, or are still to be resumed by a release(), as      *)
(* there are free permits (semaphore.hpp:234-256).                         *)
THEOREM SemaphoreEveryPermitHasTaker == Spec => []EveryPermitHasTaker
<1>1. SemaphoreInv => EveryPermitHasTaker
  BY DEF SemaphoreInv
<1> QED BY <1>1, SemaphoreInvariant, PTL
=============================================================================
