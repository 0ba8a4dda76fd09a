---------------------------- MODULE WaitQueueProofs ----------------------------
(***************************************************************************)
(* Every step of the wait queue preserves its invariant, for any number of *)
(* tasks and queues and whatever predicate the primitive waits on.  The    *)
(* proofs about the primitives cite these lemmas, one per step, and those  *)
(* on what a step does to the queues and batches (..Effect).               *)
(*                                                                         *)
(* The last part is about intrusive_list: its pointers stand for the       *)
(* sequences that the wait queue works with.                               *)
(***************************************************************************)
EXTENDS WaitQueue, IntrusiveList, TLAPS

WQInv == WQTypeOK /\ NodeLifetime /\ PushingHoldsLock

-----------------------------------------------------------------------------
(* Sequences and the sets of their elements. *)

(* Appending an element adds it to the set. *)
LEMMA RangeAppend ==
  ASSUME NEW S, NEW s \in Seq(S), NEW x \in S
  PROVE  Range(Append(s, x)) = Range(s) \cup {x}
<1>1. Len(Append(s, x)) = Len(s) + 1 /\ Append(s, x)[Len(s) + 1] = x
  OBVIOUS
<1>2. \A i \in 1..Len(s) : Append(s, x)[i] = s[i]
  OBVIOUS
<1>3. DOMAIN Append(s, x) = 1..(Len(s) + 1) /\ DOMAIN s = 1..Len(s)
  OBVIOUS
<1>4. \A i \in 1..(Len(s) + 1) : i \in 1..Len(s) \/ i = Len(s) + 1
  OBVIOUS
<1>5. 1..Len(s) \subseteq 1..(Len(s) + 1) /\ Len(s) + 1 \in 1..(Len(s) + 1)
  OBVIOUS
<1> QED BY <1>1, <1>2, <1>3, <1>4, <1>5, Zenon DEF Range

(* Appending a new element keeps the elements distinct. *)
LEMMA InjectiveAppend ==
  ASSUME NEW S, NEW s \in Seq(S), NEW x \in S, IsInjective(s), x \notin Range(s)
  PROVE  IsInjective(Append(s, x))
BY DEF IsInjective, Range

(* A nonempty sequence is its head and, apart from it, its tail. *)
LEMMA RangeHeadTail ==
  ASSUME NEW S, NEW s \in Seq(S), s # <<>>
  PROVE  /\ Head(s) \in S
         /\ Tail(s) \in Seq(S)
         /\ Range(s) = Range(Tail(s)) \cup {Head(s)}
         /\ IsInjective(s) => IsInjective(Tail(s)) /\ Head(s) \notin Range(Tail(s))
<1>1. Len(s) \in Nat /\ Len(s) > 0 /\ DOMAIN s = 1..Len(s) /\ Head(s) = s[1]
  OBVIOUS
<1>2. /\ Tail(s) \in Seq(S) /\ Len(Tail(s)) = Len(s) - 1
      /\ DOMAIN Tail(s) = 1..(Len(s) - 1)
      /\ \A i \in 1..(Len(s) - 1) : Tail(s)[i] = s[i + 1]
  OBVIOUS
<1>3. ASSUME NEW x \in Range(s) PROVE x \in Range(Tail(s)) \cup {Head(s)}
  <2>1. PICK i \in 1..Len(s) : x = s[i]
    BY <1>1, <1>3 DEF Range
  <2>2. CASE i = 1
    BY <2>1, <2>2, <1>1
  <2>3. CASE i # 1
    <3>1. i - 1 \in 1..(Len(s) - 1) /\ Tail(s)[i - 1] = x
      BY <2>1, <2>3, <1>1, <1>2
    <3> QED BY <3>1, <1>2 DEF Range
  <2> QED BY <2>2, <2>3
<1>4. ASSUME NEW x \in Range(Tail(s)) PROVE x \in Range(s)
  <2>1. PICK i \in 1..(Len(s) - 1) : x = Tail(s)[i]
    BY <1>2, <1>4 DEF Range
  <2>2. i + 1 \in 1..Len(s) /\ s[i + 1] = x
    BY <2>1, <1>1, <1>2
  <2> QED BY <2>2, <1>1 DEF Range
<1>5. Head(s) \in Range(s)
  BY <1>1 DEF Range
<1>6. ASSUME IsInjective(s)
      PROVE  IsInjective(Tail(s)) /\ Head(s) \notin Range(Tail(s))
  BY <1>1, <1>2, <1>6 DEF IsInjective, Range
<1>7. Head(s) \in S
  BY <1>1
<1> QED BY <1>2, <1>3, <1>4, <1>5, <1>6, <1>7

(* Cutting a sequence in two splits its elements. *)
LEMMA RangeSplit ==
  ASSUME NEW S, NEW s \in Seq(S), NEW k \in 0..Len(s)
  PROVE  /\ SubSeq(s, 1, k) \in Seq(S)
         /\ SubSeq(s, k + 1, Len(s)) \in Seq(S)
         /\ Range(s) = Range(SubSeq(s, 1, k))
                         \cup Range(SubSeq(s, k + 1, Len(s)))
         /\ IsInjective(s) =>
              /\ IsInjective(SubSeq(s, 1, k))
              /\ IsInjective(SubSeq(s, k + 1, Len(s)))
              /\ Range(SubSeq(s, 1, k))
                   \cap Range(SubSeq(s, k + 1, Len(s))) = {}
<1> DEFINE a == SubSeq(s, 1, k)
           b == SubSeq(s, k + 1, Len(s))
<1>1. Len(s) \in Nat /\ k \in Nat /\ k <= Len(s) /\ DOMAIN s = 1..Len(s)
  OBVIOUS
<1>2. /\ a \in Seq(S) /\ DOMAIN a = 1..k
      /\ \A i \in 1..k : a[i] = s[i]
  BY <1>1
<1>3. /\ b \in Seq(S) /\ DOMAIN b = 1..(Len(s) - k)
      /\ \A i \in 1..(Len(s) - k) : b[i] = s[k + i]
  BY <1>1
<1> HIDE DEF a, b
<1>4. ASSUME NEW x \in Range(s) PROVE x \in Range(a) \cup Range(b)
  <2>1. PICK i \in 1..Len(s) : x = s[i]
    BY <1>1, <1>4 DEF Range
  <2>2. CASE i <= k
    BY <2>1, <2>2, <1>1, <1>2 DEF Range
  <2>3. CASE i > k
    <3>1. i - k \in 1..(Len(s) - k) /\ b[i - k] = x
      BY <2>1, <2>3, <1>1, <1>3
    <3> QED BY <3>1, <1>3 DEF Range
  <2> QED BY <2>2, <2>3, <1>1
<1>5. Range(a) \subseteq Range(s)
  BY <1>1, <1>2 DEF Range
<1>6. ASSUME NEW x \in Range(b) PROVE x \in Range(s)
  <2>1. PICK i \in 1..(Len(s) - k) : x = b[i]
    BY <1>3, <1>6 DEF Range
  <2>2. k + i \in 1..Len(s) /\ s[k + i] = x
    BY <2>1, <1>1, <1>3
  <2> QED BY <2>2, <1>1 DEF Range
<1>7. ASSUME IsInjective(s)
      PROVE  IsInjective(a) /\ IsInjective(b) /\ Range(a) \cap Range(b) = {}
  <2>1. IsInjective(a)
    BY <1>1, <1>2, <1>7 DEF IsInjective
  <2>2. IsInjective(b)
    <3>1. ASSUME NEW i \in 1..(Len(s) - k), NEW j \in 1..(Len(s) - k),
                 b[i] = b[j]
          PROVE  i = j
      <4>1. k + i \in 1..Len(s) /\ k + j \in 1..Len(s) /\ s[k + i] = s[k + j]
        BY <3>1, <1>1, <1>3
      <4>2. k + i = k + j
        BY <4>1, <1>1, <1>7 DEF IsInjective
      <4> QED BY <4>2, <1>1
    <3> QED BY <3>1, <1>3 DEF IsInjective
  <2>3. ASSUME NEW i \in 1..k, NEW j \in 1..(Len(s) - k), a[i] = b[j]
        PROVE  FALSE
    <3>1. i \in 1..Len(s) /\ k + j \in 1..Len(s) /\ s[i] = s[k + j] /\ i # k + j
      BY <2>3, <1>1, <1>2, <1>3
    <3> QED BY <3>1, <1>1, <1>7 DEF IsInjective
  <2>4. Range(a) \cap Range(b) = {}
    BY <2>3, <1>2, <1>3 DEF Range
  <2> QED BY <2>1, <2>2, <2>4
<1> QED BY <1>2, <1>3, <1>4, <1>5, <1>6, <1>7 DEF a, b

(* The empty sequence has no elements. *)
LEMMA RangeEmpty == Range(<<>>) = {} /\ IsInjective(<<>>)
BY DEF Range, IsInjective

(* The first element of a nonempty sequence, as a sequence, is not empty. *)
LEMMA FirstOfNonempty ==
  ASSUME NEW S, NEW s \in Seq(S), s # <<>>
  PROVE  SubSeq(s, 1, 1) # <<>>
<1>1. Len(s) \in Nat /\ Len(s) > 0
  OBVIOUS
<1>2. SubSeq(s, 1, 1) \in Seq(S) /\ Len(SubSeq(s, 1, 1)) = 1
  BY <1>1
<1>3. \A r \in Seq(S) : Len(r) = 1 => r # <<>>
  OBVIOUS
<1> QED BY <1>2, <1>3

-----------------------------------------------------------------------------
(* The initial state. *)

(* The empty queues satisfy the invariant. *)
LEMMA WQInitInv == WQInit => WQInv
<1> SUFFICES ASSUME WQInit PROVE WQInv
  OBVIOUS
<1>1. WQTypeOK
  BY DEF WQInit, WQTypeOK, SuspState
<1>2. NodeLifetime
  BY RangeEmpty DEF WQInit, NodeLifetime, ListsDisjoint, InSomeList
<1>3. PushingHoldsLock
  BY DEF WQInit, PushingHoldsLock
<1> QED BY <1>1, <1>2, <1>3 DEF WQInv

-----------------------------------------------------------------------------
(* wait_if *)

(* Steps that move no node and park or wake nobody keep NodeLifetime. *)
LEMMA NodeLifetimeFrame ==
  ASSUME NodeLifetime, UNCHANGED <<m_waiters, batch>>,
         \A t \in Task : susp'[t] = "parked" <=> susp[t] = "parked"
  PROVE  NodeLifetime'
BY DEF NodeLifetime, ListsDisjoint, InSomeList

(* Calling tbb::task::suspend. *)
LEMMA SuspendInv ==
  ASSUME NEW t \in Task, WQInv, Running(t), Suspend(t)
  PROVE  WQInv'
<1> USE DEF WQInv
<1>1. WQTypeOK'
  BY DEF WQTypeOK, Suspend, SuspState
<1>2. NodeLifetime'
  BY NodeLifetimeFrame DEF Suspend, WQTypeOK, Running
<1>3. PushingHoldsLock'
  BY NoTaskAssumption DEF Suspend, WQTypeOK, Running, PushingHoldsLock
<1> QED BY <1>1, <1>2, <1>3

(* The second evaluation of the predicate, whatever the predicate. *)
LEMMA RecheckInv ==
  ASSUME NEW t \in Task, NEW q \in Queue, NEW pred \in BOOLEAN,
         WQInv, Recheck(t, q, pred)
  PROVE  WQInv'
<1> USE DEF WQInv
<1>1. WQTypeOK'
  BY DEF WQTypeOK, Recheck, SuspState
<1>2. NodeLifetime'
  BY NodeLifetimeFrame DEF Recheck, WQTypeOK
<1>3. PushingHoldsLock'
  <2>1. \A p \in Queue : m_waiters_mutex[p] # t
    BY NoTaskAssumption DEF Recheck, PushingHoldsLock
  <2>2. CASE pred
    <3>1. /\ susp'[t] = "push" /\ m_waiters_mutex'[q] = t /\ t # NoTask
          /\ m_waiters_mutex[q] = NoTask
          /\ \A p \in Queue : p # q => m_waiters_mutex'[p] = m_waiters_mutex[p]
          /\ \A u \in Task : u # t => susp'[u] = susp[u]
      BY <2>2, NoTaskAssumption DEF Recheck, WQTypeOK
    <3>2. \A p \in Queue : m_waiters_mutex[p] \in Task \cup {NoTask}
      BY DEF WQTypeOK
    <3>3. ASSUME NEW u \in Task, susp'[u] = "push"
          PROVE  \E p \in Queue : m_waiters_mutex'[p] = u
      <4>1. CASE u = t
        BY <4>1, <3>1
      <4>2. CASE u # t
        <5>1. PICK p \in Queue : m_waiters_mutex[p] = u
          BY <4>2, <3>1, <3>3 DEF PushingHoldsLock
        <5>2. p # q
          BY <5>1, <3>1, NoTaskAssumption
        <5> QED BY <5>1, <5>2, <3>1
      <4> QED BY <4>1, <4>2
    <3>4. \A p \in Queue : m_waiters_mutex'[p] # NoTask
                            => susp'[m_waiters_mutex'[p]] = "push"
      BY <2>1, <3>1, <3>2 DEF PushingHoldsLock
    <3>5. \A p, r \in Queue : m_waiters_mutex'[p] = m_waiters_mutex'[r]
                            => p = r \/ m_waiters_mutex'[p] = NoTask
      BY <2>1, <3>1, <3>2 DEF PushingHoldsLock
    <3> QED BY <3>3, <3>4, <3>5 DEF PushingHoldsLock
  <2>3. CASE ~pred
    <3>1. /\ susp[t] = "suspended" /\ susp'[t] = "bounce"
          /\ m_waiters_mutex' = m_waiters_mutex
          /\ \A u \in Task : u # t => susp'[u] = susp[u]
      BY <2>3 DEF Recheck, WQTypeOK
    <3>2. \A p \in Queue : m_waiters_mutex[p] \in Task \cup {NoTask}
      BY DEF WQTypeOK
    <3> QED BY <2>1, <3>1, <3>2 DEF PushingHoldsLock
  <2> QED BY <2>2, <2>3
<1> QED BY <1>1, <1>2, <1>3

(* The task resumes itself. *)
LEMMA BounceInv ==
  ASSUME NEW t \in Task, WQInv, Bounce(t)
  PROVE  WQInv'
<1> USE DEF WQInv
<1>1. WQTypeOK'
  BY DEF WQTypeOK, Bounce, SuspState
<1>2. NodeLifetime'
  BY NodeLifetimeFrame DEF Bounce, WQTypeOK
<1>3. PushingHoldsLock'
  BY NoTaskAssumption DEF Bounce, WQTypeOK, PushingHoldsLock
<1> QED BY <1>1, <1>2, <1>3

(* Linking a node: its task was in no list, for it was not parked. *)
LEMMA PushInv ==
  ASSUME NEW t \in Task, NEW q \in Queue, WQInv, Push(t, q)
  PROVE  WQInv'
<1> USE DEF WQInv
<1>1. WQTypeOK'
  BY DEF WQTypeOK, Push, SuspState
<1>2. /\ m_waiters'[q] = Append(m_waiters[q], t)
      /\ \A p \in Queue : p # q => m_waiters'[p] = m_waiters[p]
      /\ batch' = batch
      /\ susp'[t] = "parked"
      /\ \A u \in Task : u # t => susp'[u] = susp[u]
  BY DEF Push, WQTypeOK
<1>3. ~InSomeList(t)
  BY DEF Push, NodeLifetime
<1>4. Range(m_waiters'[q]) = Range(m_waiters[q]) \cup {t}
  BY <1>2, RangeAppend DEF WQTypeOK
<1>5. IsInjective(m_waiters'[q])
  BY <1>2, <1>3, InjectiveAppend DEF WQTypeOK, InSomeList, NodeLifetime,
     ListsDisjoint
<1>6. ListsDisjoint'
  <2>1. \A p \in Queue : IsInjective(m_waiters'[p])
    BY <1>2, <1>5 DEF NodeLifetime, ListsDisjoint
  <2>2. \A p \in Queue : Range(m_waiters'[p]) \subseteq Range(m_waiters[p])
                           \cup (IF p = q THEN {t} ELSE {})
    BY <1>2, <1>4
  <2>3. \A p, r \in Queue :
          p # r => Range(m_waiters'[p]) \cap Range(m_waiters'[r]) = {}
    BY <2>2, <1>3 DEF NodeLifetime, ListsDisjoint, InSomeList
  <2>4. \A p \in Queue, v \in Task :
          Range(m_waiters'[p]) \cap Range(batch[v]) = {}
    BY <2>2, <1>3 DEF NodeLifetime, ListsDisjoint, InSomeList
  <2> QED BY <1>2, <2>1, <2>3, <2>4 DEF NodeLifetime, ListsDisjoint
<1>7. \A u \in Task : InSomeList(u)' <=> InSomeList(u) \/ u = t
  BY <1>2, <1>4 DEF InSomeList
<1>8. NodeLifetime'
  BY <1>2, <1>6, <1>7 DEF NodeLifetime
<1>9. PushingHoldsLock'
  <2>1. /\ m_waiters_mutex[q] = t /\ t # NoTask /\ m_waiters_mutex'[q] = NoTask
        /\ \A p \in Queue : p # q =>
             m_waiters_mutex'[p] = m_waiters_mutex[p] /\ m_waiters_mutex[p] # t
    BY NoTaskAssumption DEF Push, WQTypeOK, PushingHoldsLock
  <2>2. \A p \in Queue : m_waiters_mutex[p] \in Task \cup {NoTask}
    BY DEF WQTypeOK
  <2> QED BY <1>2, <2>1, <2>2 DEF PushingHoldsLock
<1> QED BY <1>1, <1>8, <1>9

-----------------------------------------------------------------------------
(* resume_one, resume_n, resume_all *)

(* Moving a prefix of a queue, possibly all or nothing of it, to the empty *)
(* list of a running task.                                                 *)
LEMMA TakePrefix ==
  ASSUME NEW u \in Task, NEW q \in Queue, NEW k \in 0..Len(m_waiters[q]),
         WQInv, Running(u), UNCHANGED <<m_waiters_mutex, susp>>,
         batch' = [batch EXCEPT ![u] = SubSeq(m_waiters[q], 1, k)],
         m_waiters' = [m_waiters EXCEPT
                         ![q] = SubSeq(m_waiters[q], k + 1, Len(m_waiters[q]))]
  PROVE  WQInv'
<1> USE DEF WQInv
<1> DEFINE s == m_waiters[q]
           a == SubSeq(s, 1, k)
           b == SubSeq(s, k + 1, Len(s))
<1>1. s \in Seq(Task) /\ k \in 0..Len(s)
  BY DEF WQTypeOK
<1>2. /\ a \in Seq(Task) /\ b \in Seq(Task)
      /\ Range(s) = Range(a) \cup Range(b)
      /\ IsInjective(s) => /\ IsInjective(a) /\ IsInjective(b)
                         /\ Range(a) \cap Range(b) = {}
  BY <1>1, RangeSplit
<1>3. /\ batch'[u] = a
      /\ \A v \in Task : v # u => batch'[v] = batch[v]
      /\ m_waiters'[q] = b
      /\ \A p \in Queue : p # q => m_waiters'[p] = m_waiters[p]
  BY DEF WQTypeOK
<1>4. WQTypeOK'
  BY <1>2 DEF WQTypeOK
<1>5. PushingHoldsLock'
  BY DEF PushingHoldsLock
<1>6. Range(batch[u]) = {}
  BY RangeEmpty DEF Running
<1> HIDE DEF a, b
<1>7. ListsDisjoint'
  <2>1. \A p \in Queue : /\ IsInjective(m_waiters'[p])
                         /\ Range(m_waiters'[p]) \subseteq Range(m_waiters[p])
    BY <1>2, <1>3 DEF NodeLifetime, ListsDisjoint
  <2>2. \A v \in Task : /\ IsInjective(batch'[v])
                        /\ v # u => Range(batch'[v]) = Range(batch[v])
    BY <1>2, <1>3 DEF NodeLifetime, ListsDisjoint
  <2>3. \A v \in Task : v # u => Range(batch'[u]) \cap Range(batch'[v]) = {}
    BY <1>2, <1>3 DEF NodeLifetime, ListsDisjoint
  <2>4. \A p \in Queue : Range(m_waiters'[p]) \cap Range(batch'[u]) = {}
    <3>1. ASSUME NEW p \in Queue, p # q
          PROVE  Range(m_waiters'[p]) \cap Range(batch'[u]) = {}
      BY <3>1, <1>2, <1>3 DEF NodeLifetime, ListsDisjoint
    <3>2. Range(m_waiters'[q]) \cap Range(batch'[u]) = {}
      BY <1>2, <1>3 DEF NodeLifetime, ListsDisjoint
    <3> QED BY <3>1, <3>2
  <2>5. \A p, r \in Queue :
          p # r => Range(m_waiters'[p]) \cap Range(m_waiters'[r]) = {}
    BY <2>1 DEF NodeLifetime, ListsDisjoint
  <2>6. \A v, w \in Task :
          v # w => Range(batch'[v]) \cap Range(batch'[w]) = {}
    BY <2>2, <2>3 DEF NodeLifetime, ListsDisjoint
  <2>7. \A p \in Queue, v \in Task :
          Range(m_waiters'[p]) \cap Range(batch'[v]) = {}
    BY <2>1, <2>2, <2>4 DEF NodeLifetime, ListsDisjoint
  <2> QED BY <2>1, <2>2, <2>5, <2>6, <2>7 DEF ListsDisjoint
<1>8. \A t \in Task : InSomeList(t)' <=> InSomeList(t)
  BY <1>2, <1>3, <1>6 DEF InSomeList
<1>9. NodeLifetime'
  BY <1>7, <1>8 DEF NodeLifetime
<1> QED BY <1>4, <1>5, <1>9

(* resume_n takes as many nodes as it is asked for or finds. *)
LEMMA PopNInv ==
  ASSUME NEW u \in Task, NEW q \in Queue, NEW n \in Nat,
         WQInv, Running(u), PopN(u, q, n)
  PROVE  WQInv'
<1>1. Least(n, Len(m_waiters[q])) \in 0..Len(m_waiters[q])
  BY DEF Least, WQInv, WQTypeOK
<1> QED BY <1>1, TakePrefix DEF PopN

(* resume_all takes them all. *)
LEMMA SwapAllInv ==
  ASSUME NEW u \in Task, NEW q \in Queue, WQInv, Running(u), SwapAll(u, q)
  PROVE  WQInv'
<1>1. m_waiters[q] \in Seq(Task)
  BY DEF WQInv, WQTypeOK
<1>2. /\ Len(m_waiters[q]) \in 0..Len(m_waiters[q])
      /\ SubSeq(m_waiters[q], 1, Len(m_waiters[q])) = m_waiters[q]
      /\ SubSeq(m_waiters[q], Len(m_waiters[q]) + 1, Len(m_waiters[q])) = <<>>
  BY <1>1
<1> QED BY <1>2, TakePrefix DEF SwapAll

(* Resuming the first task of a batch: it was in no other list. *)
LEMMA ResumeNextInv ==
  ASSUME NEW u \in Task, WQInv, ResumeNext(u)
  PROVE  /\ WQInv'
         /\ Head(batch[u]) \in Task
         /\ susp[Head(batch[u])] = "parked"
<1> USE DEF WQInv
<1>0. /\ Head(batch[u]) \in Task
      /\ Tail(batch[u]) \in Seq(Task)
  BY RangeHeadTail DEF ResumeNext, WQTypeOK
<1> PICK h \in Task : h = Head(batch[u])
  BY <1>0
<1> PICK r \in Seq(Task) : r = Tail(batch[u])
  BY <1>0
<1>1. /\ h \in Task /\ r \in Seq(Task)
      /\ Range(batch[u]) = Range(r) \cup {h}
      /\ IsInjective(r) /\ h \notin Range(r)
  BY RangeHeadTail DEF ResumeNext, WQTypeOK, NodeLifetime, ListsDisjoint
<1>2. InSomeList(h) /\ susp[h] = "parked"
  BY <1>1 DEF InSomeList, NodeLifetime
<1>3. /\ batch'[u] = r
      /\ \A v \in Task : v # u => batch'[v] = batch[v]
      /\ m_waiters' = m_waiters
      /\ susp'[h] = "idle"
      /\ \A v \in Task : v # h => susp'[v] = susp[v]
  BY <1>1 DEF ResumeNext, WQTypeOK
<1>4. WQTypeOK'
  BY <1>1 DEF ResumeNext, WQTypeOK, SuspState
<1>5. PushingHoldsLock'
  BY <1>1, <1>2, NoTaskAssumption DEF ResumeNext, WQTypeOK, PushingHoldsLock
<1>6. \A v \in Task : /\ IsInjective(batch'[v])
                      /\ Range(batch'[v]) \subseteq Range(batch[v])
  BY <1>1, <1>3 DEF NodeLifetime, ListsDisjoint
<1>7. ListsDisjoint'
  <2>1. \A v, w \in Task :
          v # w => Range(batch'[v]) \cap Range(batch'[w]) = {}
    BY <1>6 DEF NodeLifetime, ListsDisjoint
  <2>2. \A p \in Queue, v \in Task :
          Range(m_waiters'[p]) \cap Range(batch'[v]) = {}
    BY <1>3, <1>6 DEF NodeLifetime, ListsDisjoint
  <2> QED BY <1>3, <1>6, <2>1, <2>2 DEF NodeLifetime, ListsDisjoint
<1>8. ~InSomeList(h)'
  <2>1. \A q \in Queue : h \notin Range(m_waiters'[q])
    BY <1>1, <1>3 DEF NodeLifetime, ListsDisjoint
  <2>2. \A v \in Task : h \notin Range(batch'[v])
    BY <1>1, <1>3 DEF NodeLifetime, ListsDisjoint
  <2> QED BY <2>1, <2>2 DEF InSomeList
<1>9. \A t \in Task : t # h => (InSomeList(t)' <=> InSomeList(t))
  BY <1>1, <1>3 DEF InSomeList
<1>10. NodeLifetime'
  BY <1>2, <1>3, <1>7, <1>8, <1>9 DEF NodeLifetime
<1> QED BY <1>1, <1>2, <1>4, <1>5, <1>10

-----------------------------------------------------------------------------
(* What the steps do to the lists, as sets of tasks. *)

(* Linking adds the task to one queue. *)
LEMMA PushEffect ==
  ASSUME NEW t \in Task, NEW q \in Queue, WQInv, Push(t, q)
  PROVE  /\ Range(m_waiters'[q]) = Range(m_waiters[q]) \cup {t}
         /\ \A p \in Queue : p # q => m_waiters'[p] = m_waiters[p]
         /\ batch' = batch
         /\ susp'[t] = "parked"
         /\ \A u \in Task : u # t => susp'[u] = susp[u]
<1>1. m_waiters'[q] = Append(m_waiters[q], t) /\ m_waiters[q] \in Seq(Task)
  BY DEF Push, WQInv, WQTypeOK
<1>2. Range(m_waiters'[q]) = Range(m_waiters[q]) \cup {t}
  BY <1>1, RangeAppend
<1> QED BY <1>2 DEF Push, WQInv, WQTypeOK

(* resume_n splits one queue between the queue and the empty batch of u. *)
LEMMA PopNEffect ==
  ASSUME NEW u \in Task, NEW q \in Queue, NEW n \in Nat, WQInv, PopN(u, q, n)
  PROVE  /\ Range(m_waiters[q]) = Range(batch'[u]) \cup Range(m_waiters'[q])
         /\ \A p \in Queue : p # q => m_waiters'[p] = m_waiters[p]
         /\ \A v \in Task : v # u => batch'[v] = batch[v]
         /\ susp' = susp
<1>1. /\ m_waiters[q] \in Seq(Task)
      /\ Least(n, Len(m_waiters[q])) \in 0..Len(m_waiters[q])
  BY DEF Least, WQInv, WQTypeOK
<1> DEFINE k == Least(n, Len(m_waiters[q]))
<1>2. /\ batch'[u] = SubSeq(m_waiters[q], 1, k)
      /\ m_waiters'[q] = SubSeq(m_waiters[q], k + 1, Len(m_waiters[q]))
  BY DEF PopN, WQInv, WQTypeOK
<1>3. Range(m_waiters[q]) = Range(SubSeq(m_waiters[q], 1, k))
               \cup Range(SubSeq(m_waiters[q], k + 1, Len(m_waiters[q])))
  BY <1>1, RangeSplit
<1>4. Range(m_waiters[q]) = Range(batch'[u]) \cup Range(m_waiters'[q])
  BY <1>2, <1>3, Zenon
<1> QED BY <1>4 DEF PopN, WQInv, WQTypeOK

(* resume_one takes the first task of a queue that has one. *)
LEMMA PopOneEffect ==
  ASSUME NEW u \in Task, NEW q \in Queue, WQInv, PopOne(u, q)
  PROVE  /\ m_waiters[q] = <<>> => batch'[u] = <<>>
         /\ m_waiters[q] # <<>> =>
              \E w \in Range(m_waiters[q]) : Range(batch'[u]) = {w}
<1> DEFINE s == m_waiters[q]
           b == SubSeq(s, 1, Least(1, Len(s)))
<1>1. s \in Seq(Task) /\ batch'[u] = b
  BY DEF PopOne, PopN, WQInv, WQTypeOK
<1>2. CASE s = <<>>
  <2>1. Least(1, Len(s)) = 0
    BY <1>2 DEF Least
  <2>2. SubSeq(s, 1, 0) = <<>>
    BY <1>1
  <2> QED BY <1>1, <1>2, <2>1, <2>2
<1>3. CASE s # <<>>
  <2>1. Len(s) \in Nat /\ Len(s) > 0 /\ DOMAIN s = 1..Len(s)
    BY <1>1, <1>3
  <2>2. Least(1, Len(s)) = 1
    BY <2>1 DEF Least
  <2>3. /\ DOMAIN SubSeq(s, 1, 1) = {1}
        /\ SubSeq(s, 1, 1)[1] = s[1]
    BY <1>1, <2>1
  <2>4. Range(SubSeq(s, 1, 1)) = {s[1]}
    BY <2>3, Zenon DEF Range
  <2>5. s[1] \in Range(s)
    BY <2>1 DEF Range
  <2>6. batch'[u] = SubSeq(s, 1, 1)
    BY <1>1, <2>2, Zenon
  <2> QED BY <1>3, <2>4, <2>5, <2>6
<1> QED BY <1>2, <1>3

(* resume_all leaves nobody in the queue. *)
LEMMA SwapAllEffect ==
  ASSUME NEW u \in Task, NEW q \in Queue, WQInv, SwapAll(u, q)
  PROVE  /\ batch'[u] = m_waiters[q] /\ Range(m_waiters'[q]) = {}
         /\ \A p \in Queue : p # q => m_waiters'[p] = m_waiters[p]
         /\ \A v \in Task : v # u => batch'[v] = batch[v]
         /\ susp' = susp
BY RangeEmpty DEF SwapAll, WQInv, WQTypeOK

(* The loop that resumes takes one task out of the batch and wakes it. *)
LEMMA ResumeNextEffect ==
  ASSUME NEW u \in Task, WQInv, ResumeNext(u)
  PROVE  \E h \in Task :
           /\ h \in Range(batch[u]) /\ susp[h] = "parked" /\ susp'[h] = "idle"
           /\ Range(batch'[u]) = Range(batch[u]) \ {h}
           /\ \A v \in Task : v # u => batch'[v] = batch[v]
           /\ \A v \in Task : v # u => h \notin Range(batch[v])
           /\ \A v \in Task : v # h => susp'[v] = susp[v]
<1> DEFINE h == Head(batch[u])
<1>1. h \in Task /\ susp[h] = "parked"
  BY ResumeNextInv
<1>2. /\ batch[u] \in Seq(Task) /\ batch[u] # <<>> /\ IsInjective(batch[u])
      /\ batch'[u] = Tail(batch[u])
      /\ \A v \in Task : v # u => batch'[v] = batch[v]
      /\ susp' = [susp EXCEPT ![h] = "idle"] /\ susp \in [Task -> SuspState]
  BY DEF ResumeNext, WQInv, WQTypeOK, NodeLifetime, ListsDisjoint
<1>3. /\ Range(batch[u]) = Range(Tail(batch[u])) \cup {h}
      /\ h \notin Range(Tail(batch[u]))
  BY <1>2, RangeHeadTail
<1>4. /\ Range(batch'[u]) = Range(batch[u]) \ {h} /\ h \in Range(batch[u])
  BY <1>2, <1>3, Zenon
<1>5. \A v \in Task : v # u => h \notin Range(batch[v])
  BY <1>4 DEF WQInv, NodeLifetime, ListsDisjoint
<1> HIDE DEF h
<1>6. susp'[h] = "idle" /\ \A v \in Task : v # h => susp'[v] = susp[v]
  BY <1>1, <1>2
<1> QED BY <1>1, <1>2, <1>4, <1>5, <1>6

(* Who is not parked is in no list. *)
LEMMA UnparkedUnlisted ==
  ASSUME WQInv, NEW t \in Task, susp[t] # "parked"
  PROVE  /\ \A q \in Queue : t \notin Range(m_waiters[q])
         /\ \A u \in Task : t \notin Range(batch[u])
BY DEF WQInv, NodeLifetime, InSomeList

(* A queue with nobody in it is the empty sequence. *)
LEMMA NobodyThere ==
  ASSUME NEW s \in Seq(Task)
  PROVE  s = <<>> <=> Range(s) = {}
<1>1. CASE s = <<>>
  BY <1>1, RangeEmpty
<1>2. CASE s # <<>>
  <2>1. Range(s) = Range(Tail(s)) \cup {Head(s)}
    BY <1>2, RangeHeadTail
  <2> QED BY <1>2, <2>1, Zenon
<1> QED BY <1>1, <1>2

-----------------------------------------------------------------------------
(* The list below the queue. *)

ListInv == ListTypeOK /\ ListsRepresent /\ NoNodeTwice /\ UnlinkedReset

(* nullptr is the address of no node. *)
LEMMA NullIsNoNode == nullptr \notin Node
BY NoSetContainsEverything DEF nullptr

(* What push_back does to the sequence of its list. *)
LEMMA AppendNode ==
  ASSUME NEW s \in Seq(Node), NEW x \in Node
  PROVE  /\ Append(s, x) \in Seq(Node) /\ Append(s, x) # <<>>
         /\ Len(s) \in Nat /\ Len(Append(s, x)) = Len(s) + 1
         /\ \A i \in 1..Len(s) : Append(s, x)[i] = s[i]
         /\ Append(s, x)[Len(s) + 1] = x
OBVIOUS

(* What pop_front does to it. *)
LEMMA TailNode ==
  ASSUME NEW s \in Seq(Node), s # <<>>
  PROVE  /\ Tail(s) \in Seq(Node)
         /\ Len(s) \in Nat /\ Len(s) > 0 /\ Len(Tail(s)) = Len(s) - 1
         /\ \A i \in 1..(Len(s) - 1) : Tail(s)[i] = s[i + 1]
         /\ Tail(s) = <<>> <=> Len(s) = 1
<1>1. /\ Tail(s) \in Seq(Node)
      /\ Len(s) \in Nat /\ Len(s) > 0 /\ Len(Tail(s)) = Len(s) - 1
      /\ \A i \in 1..(Len(s) - 1) : Tail(s)[i] = s[i + 1]
  OBVIOUS
<1>2. Tail(s) = <<>> <=> Len(Tail(s)) = 0
  <2>1. \A t \in Seq(Node) : t = <<>> <=> Len(t) = 0
    OBVIOUS
  <2> QED BY <1>1, <2>1, Zenon
<1>3. Len(Tail(s)) = 0 <=> Len(s) = 1
  BY <1>1
<1>4. Tail(s) = <<>> <=> Len(s) = 1
  BY <1>2, <1>3
<1> QED BY <1>1, <1>4

(* The empty list has no tail, any other a tail that is one of its nodes. *)
LEMMA TailOfList ==
  ASSUME ListInv, NEW l \in List
  PROVE  /\ contents[l] \in Seq(Node) /\ Len(contents[l]) \in Nat
         /\ contents[l] = <<>> <=> Len(contents[l]) = 0
         /\ m_tail[l] = nullptr <=> contents[l] = <<>>
         /\ m_head[l] = nullptr <=> contents[l] = <<>>
         /\ \A i \in 1..Len(contents[l]) : contents[l][i] \in Node
<1>1. /\ contents[l] \in Seq(Node) /\ Len(contents[l]) \in Nat
      /\ contents[l] = <<>> <=> Len(contents[l]) = 0
      /\ \A i \in 1..Len(contents[l]) : contents[l][i] \in Node
  BY DEF ListInv, ListTypeOK
<1>2. Represents(l)
  BY DEF ListInv, ListsRepresent
<1>3. CASE contents[l] = <<>>
  BY <1>1, <1>2, <1>3 DEF Represents
<1>4. CASE contents[l] # <<>>
  <2>1. contents[l][1] \in Node /\ contents[l][Len(contents[l])] \in Node
    BY <1>1, <1>4
  <2> QED BY <1>1, <1>2, <1>4, <2>1, NullIsNoNode DEF Represents
<1> QED BY <1>1, <1>3, <1>4

-----------------------------------------------------------------------------
(* Pushing a node that is in no list appends it. *)
LEMMA PushBackInv ==
  ASSUME ListInv, NEW l \in List, NEW x \in Node, push_back(l, x)
  PROVE  ListInv'
<1> DEFINE s == contents[l]
<1>1. /\ s \in Seq(Node) /\ Len(s) \in Nat /\ (s = <<>> <=> Len(s) = 0)
      /\ (m_tail[l] = nullptr <=> s = <<>>)
      /\ \A i \in 1..Len(s) : s[i] \in Node
  BY TailOfList
<1>2. /\ contents'[l] = Append(s, x)
      /\ \A k \in List : k # l => contents'[k] = contents[k]
      /\ contents' \in [List -> Seq(Node)]
  BY DEF push_back, ListInv, ListTypeOK
<1>3. /\ contents'[l] # <<>> /\ Len(contents'[l]) = Len(s) + 1
      /\ \A i \in 1..Len(s) : contents'[l][i] = s[i]
      /\ contents'[l][Len(s) + 1] = x
  BY <1>1, <1>2, AppendNode
<1>4. m_tail'[l] = x /\ m_tail' \in [List -> Node \cup {nullptr}]
      /\ \A k \in List : k # l => m_tail'[k] = m_tail[k]
  BY DEF push_back, ListInv, ListTypeOK
<1>5. m_head' \in [List -> Node \cup {nullptr}]
      /\ \A k \in List : k # l => m_head'[k] = m_head[k]
  BY DEF push_back, ListInv, ListTypeOK
<1>6. m_head'[l] = contents'[l][1]
  <2>1. CASE s = <<>>
    BY <1>1, <1>3, <2>1 DEF push_back, ListInv, ListTypeOK
  <2>2. CASE s # <<>>
    <3>1. m_head'[l] = m_head[l] /\ m_head[l] = s[1]
      BY <1>1, <2>2 DEF push_back, ListInv, ListsRepresent, Represents
    <3> QED BY <3>1, <1>1, <1>3, <2>2
  <2> QED BY <2>1, <2>2
<1>7. /\ next' \in [Node -> Node \cup {nullptr}]
      /\ s # <<>> => next'[s[Len(s)]] = x
      /\ \A y \in Node : (s = <<>> \/ y # s[Len(s)]) => next'[y] = next[y]
  <2>1. CASE s = <<>>
    BY <1>1, <2>1 DEF push_back, ListInv, ListTypeOK
  <2>2. CASE s # <<>>
    <3>1. m_tail[l] = s[Len(s)] /\ s[Len(s)] \in Node
      BY <1>1, <2>2 DEF ListInv, ListsRepresent, Represents
    <3> QED BY <1>1, <2>2, <3>1 DEF push_back, ListInv, ListTypeOK
  <2> QED BY <2>1, <2>2
<1>8. next[x] = nullptr /\ ~Linked(x)
  BY DEF push_back, ListInv, UnlinkedReset
<1>9. \A k \in List : \A i \in 1..Len(contents[k]) : contents[k][i] # x
  BY <1>8 DEF Linked
<1>10. ListTypeOK'
  BY <1>2, <1>4, <1>5, <1>7 DEF ListTypeOK
<1>11. ListsRepresent'
  <2> SUFFICES ASSUME NEW k \in List PROVE Represents(k)'
    BY DEF ListsRepresent
  <2>1. CASE k = l
    <3>1. ASSUME NEW i \in 1..(Len(s) + 1)
          PROVE  next'[contents'[l][i]] = IF i = Len(s) + 1 THEN nullptr
                                                            ELSE contents'[l][i + 1]
      <4>1. CASE i = Len(s) + 1
        <5>1. s # <<>> => s[Len(s)] # x
          BY <1>1, <1>9
        <5> QED BY <1>3, <1>7, <1>8, <4>1, <5>1
      <4>2. CASE i = Len(s)
        BY <1>1, <1>3, <1>7, <4>2
      <4>3. CASE i < Len(s)
        <5>1. s[i] # s[Len(s)]
          BY <1>1, <4>3 DEF ListInv, NoNodeTwice
        <5>2. next[s[i]] = s[i + 1]
          BY <1>1, <4>3 DEF ListInv, ListsRepresent, Represents
        <5>3. i \in 1..Len(s) /\ i + 1 \in 1..Len(s) /\ s[i] \in Node
          BY <1>1, <4>3
        <5> QED BY <1>3, <1>7, <4>3, <5>1, <5>2, <5>3
      <4> QED BY <1>1, <4>1, <4>2, <4>3
    <3> QED BY <1>1, <1>3, <1>4, <1>6, <2>1, <3>1 DEF Represents
  <2>2. CASE k # l
    <3>1. ASSUME NEW i \in 1..Len(contents[k])
          PROVE  next'[contents[k][i]] = next[contents[k][i]]
      <4>1. contents[k][i] \in Node
        BY TailOfList
      <4>2. s # <<>> => contents[k][i] # s[Len(s)]
        <5>1. s # <<>> => Len(s) \in 1..Len(s)
          BY <1>1
        <5> QED BY <2>2, <5>1 DEF ListInv, NoNodeTwice
      <4> QED BY <1>7, <4>1, <4>2
    <3>2. /\ contents'[k] = contents[k] /\ m_head'[k] = m_head[k]
          /\ m_tail'[k] = m_tail[k] /\ Represents(k)
      BY <1>2, <1>4, <1>5, <2>2 DEF ListInv, ListsRepresent
    <3> QED BY <3>1, <3>2 DEF Represents
  <2> QED BY <2>1, <2>2
<1>12. NoNodeTwice'
  <2> SUFFICES ASSUME NEW k \in List, NEW m \in List,
                      NEW i \in 1..Len(contents'[k]), NEW j \in 1..Len(contents'[m]),
                      contents'[k][i] = contents'[m][j]
               PROVE  k = m /\ i = j
    BY DEF NoNodeTwice
  <2>1. ASSUME NEW a \in List, NEW b \in 1..Len(contents'[a])
        PROVE  \/ a = l /\ b = Len(s) + 1
               \/ contents'[a][b] = contents[a][b] /\ b \in 1..Len(contents[a])
    <3>1. CASE a = l
      <4>1. b = Len(s) + 1 \/ b \in 1..Len(s)
        BY <1>1, <1>3, <3>1
      <4> QED BY <1>3, <3>1, <4>1
    <3>2. CASE a # l
      BY <1>2, <3>2
    <3> QED BY <3>1, <3>2
  <2>2. CASE k = l /\ i = Len(s) + 1
    BY <1>3, <1>9, <2>1, <2>2
  <2>3. CASE m = l /\ j = Len(s) + 1
    BY <1>3, <1>9, <2>1, <2>3
  <2>4. CASE /\ contents'[k][i] = contents[k][i] /\ i \in 1..Len(contents[k])
             /\ contents'[m][j] = contents[m][j] /\ j \in 1..Len(contents[m])
    <3>1. contents[k][i] = contents[m][j]
      BY <2>4
    <3> QED BY <2>4, <3>1 DEF ListInv, NoNodeTwice
  <2> QED BY <2>1, <2>2, <2>3, <2>4
<1>13. UnlinkedReset'
  <2> SUFFICES ASSUME NEW y \in Node, ~Linked(y)' PROVE next'[y] = nullptr
    BY DEF UnlinkedReset
  <2>1. ~Linked(y)
    <3> SUFFICES ASSUME NEW k \in List, NEW i \in 1..Len(contents[k]),
                        contents[k][i] = y
                 PROVE  FALSE
      BY DEF Linked
    <3>1. contents'[k][i] = y /\ i \in 1..Len(contents'[k])
      <4>1. CASE k = l
        BY <1>1, <1>3, <4>1
      <4>2. CASE k # l
        BY <1>2, <4>2
      <4> QED BY <4>1, <4>2
    <3> QED BY <3>1 DEF Linked
  <2>2. s # <<>> => y # s[Len(s)]
    BY <1>1, <2>1 DEF Linked
  <2> QED BY <1>7, <2>1, <2>2 DEF ListInv, UnlinkedReset
<1> QED BY <1>10, <1>11, <1>12, <1>13 DEF ListInv

(* Popping takes the first node and resets its next pointer. *)
LEMMA PopFrontInv ==
  ASSUME ListInv, NEW l \in List, pop_front(l)
  PROVE  ListInv'
<1> DEFINE s == contents[l]
<1>1. /\ s \in Seq(Node) /\ s # <<>> /\ Len(s) \in Nat /\ Len(s) > 0
      /\ \A i \in 1..Len(s) : s[i] \in Node
  BY TailOfList DEF pop_front, empty
<1>1a. Len(s) \in Nat /\ Len(s) > 0
  BY <1>1
<1>2. /\ m_head[l] = s[1] /\ m_tail[l] = s[Len(s)]
      /\ \A i \in 1..Len(s) : next[s[i]] = IF i = Len(s) THEN nullptr ELSE s[i + 1]
  BY <1>1 DEF ListInv, ListsRepresent, Represents
<1>3. /\ contents'[l] = Tail(s)
      /\ \A k \in List : k # l => contents'[k] = contents[k]
      /\ contents' \in [List -> Seq(Node)]
  BY <1>1 DEF pop_front, ListInv, ListTypeOK
<1>4. /\ Len(contents'[l]) = Len(s) - 1
      /\ \A i \in 1..(Len(s) - 1) : contents'[l][i] = s[i + 1]
      /\ contents'[l] = <<>> <=> Len(s) = 1
  BY <1>1, <1>3, TailNode
<1>5. s[1] \in Node /\ next[s[1]] \in Node \cup {nullptr}
  BY <1>1 DEF ListInv, ListTypeOK
<1>6. /\ next' \in [Node -> Node \cup {nullptr}]
      /\ next'[s[1]] = nullptr
      /\ \A y \in Node : y # s[1] => next'[y] = next[y]
  BY <1>2, <1>5 DEF pop_front, ListInv, ListTypeOK
<1>7. /\ m_head' \in [List -> Node \cup {nullptr}]
      /\ m_head'[l] = next[s[1]]
      /\ \A k \in List : k # l => m_head'[k] = m_head[k]
  BY <1>2, <1>5 DEF pop_front, ListInv, ListTypeOK
<1>8. /\ m_tail' \in [List -> Node \cup {nullptr}]
      /\ m_tail'[l] = IF next[s[1]] = nullptr THEN nullptr ELSE m_tail[l]
      /\ \A k \in List : k # l => m_tail'[k] = m_tail[k]
  BY <1>2, <1>5 DEF pop_front, ListInv, ListTypeOK
<1>9. ListTypeOK'
  BY <1>3, <1>6, <1>7, <1>8 DEF ListTypeOK
<1>10. ListsRepresent'
  <2> SUFFICES ASSUME NEW k \in List PROVE Represents(k)'
    BY DEF ListsRepresent
  <2>1. CASE k = l
    <3>1. CASE Len(s) = 1
      BY <1>1, <1>2, <1>4, <1>7, <1>8, <2>1, <3>1 DEF Represents
    <3>2. CASE Len(s) # 1
      <4>1. next[s[1]] = s[2] /\ s[2] \in Node /\ s[2] # nullptr
        <5>1. 1 \in 1..Len(s) /\ 2 \in 1..Len(s)
          <6>1. \A n \in Nat : n > 0 /\ n # 1 => 1 \in 1..n /\ 2 \in 1..n
            OBVIOUS
          <6> QED BY <1>1a, <3>2, <6>1, Zenon
        <5>2. s[2] \in Node
          BY <1>1, <5>1
        <5>3. next[s[1]] = s[2]
          <6>1. next[s[1]] = s[1 + 1]
            BY <1>2, <3>2, <5>1
          <6> QED BY <6>1
        <5> QED BY <5>2, <5>3, NullIsNoNode
      <4>2. m_head'[l] = contents'[l][1] /\ m_tail'[l] = contents'[l][Len(s) - 1]
        <5>1. 1 \in 1..(Len(s) - 1) /\ Len(s) - 1 \in 1..(Len(s) - 1)
          <6>1. \A n \in Nat : n > 0 /\ n # 1 => 1 \in 1..(n - 1) /\ n - 1 \in 1..(n - 1)
            OBVIOUS
          <6> QED BY <1>1a, <3>2, <6>1, Zenon
        <5>2. (Len(s) - 1) + 1 = Len(s)
          BY <1>1a
        <5>3. contents'[l][1] = s[2] /\ contents'[l][Len(s) - 1] = s[Len(s)]
          <6>1. contents'[l][1] = s[1 + 1]
            BY <1>4, <5>1
          <6>2. contents'[l][Len(s) - 1] = s[(Len(s) - 1) + 1]
            BY <1>4, <5>1
          <6>3. s[1 + 1] = s[2]
            OBVIOUS
          <6> QED BY <5>2, <6>1, <6>2, <6>3
        <5>4. m_head'[l] = s[2] /\ m_tail'[l] = s[Len(s)]
          BY <1>2, <1>7, <1>8, <4>1
        <5> QED BY <5>3, <5>4
      <4>3. ASSUME NEW i \in 1..(Len(s) - 1)
            PROVE  next'[contents'[l][i]] = IF i = Len(s) - 1 THEN nullptr
                                                              ELSE contents'[l][i + 1]
        <5>1. i + 1 \in 1..Len(s) /\ s[i + 1] \in Node /\ contents'[l][i] = s[i + 1]
          BY <1>1, <1>4
        <5>2. s[i + 1] # s[1]
          BY <1>1, <5>1 DEF ListInv, NoNodeTwice
        <5>3. next'[s[i + 1]] = next[s[i + 1]]
          BY <1>6, <5>1, <5>2
        <5>4. i # Len(s) - 1 => contents'[l][i + 1] = s[i + 2]
          <6>1. i # Len(s) - 1 => i + 1 \in 1..(Len(s) - 1)
            BY <1>1a
          <6>2. (i + 1) + 1 = i + 2
            BY <1>1a
          <6> QED BY <1>4, <6>1, <6>2
        <5> QED BY <1>1, <1>2, <5>1, <5>3, <5>4
      <4> QED BY <1>1, <1>4, <2>1, <3>2, <4>2, <4>3 DEF Represents
    <3> QED BY <3>1, <3>2
  <2>2. CASE k # l
    <3>1. ASSUME NEW i \in 1..Len(contents[k])
          PROVE  next'[contents[k][i]] = next[contents[k][i]]
      <4>1. contents[k][i] \in Node
        BY TailOfList
      <4>2. contents[k][i] # s[1]
        BY <1>1, <2>2 DEF ListInv, NoNodeTwice
      <4> QED BY <1>6, <4>1, <4>2
    <3>2. /\ contents'[k] = contents[k] /\ m_head'[k] = m_head[k]
          /\ m_tail'[k] = m_tail[k] /\ Represents(k)
      BY <1>3, <1>7, <1>8, <2>2 DEF ListInv, ListsRepresent
    <3> QED BY <3>1, <3>2 DEF Represents
  <2> QED BY <2>1, <2>2
<1>11. ASSUME NEW k \in List, NEW i \in 1..Len(contents'[k])
       PROVE  \E j \in 1..Len(contents[k]) :
                /\ contents'[k][i] = contents[k][j]
                /\ j = IF k = l THEN i + 1 ELSE i
  <2>1. CASE k = l
    <3>1. i + 1 \in 1..Len(s) /\ contents'[l][i] = s[i + 1]
      BY <1>1, <1>4, <2>1
    <3> QED BY <2>1, <3>1
  <2>2. CASE k # l
    BY <1>3, <2>2
  <2> QED BY <2>1, <2>2
<1>12. NoNodeTwice'
  <2> SUFFICES ASSUME NEW k \in List, NEW m \in List,
                      NEW i \in 1..Len(contents'[k]), NEW j \in 1..Len(contents'[m]),
                      contents'[k][i] = contents'[m][j]
               PROVE  k = m /\ i = j
    BY DEF NoNodeTwice
  <2>1. PICK i1 \in 1..Len(contents[k]) :
          contents'[k][i] = contents[k][i1] /\ i1 = IF k = l THEN i + 1 ELSE i
    BY <1>11
  <2>2. PICK j1 \in 1..Len(contents[m]) :
          contents'[m][j] = contents[m][j1] /\ j1 = IF m = l THEN j + 1 ELSE j
    BY <1>11
  <2>3. contents[k][i1] = contents[m][j1]
    BY <2>1, <2>2
  <2>4. k = m /\ i1 = j1
    BY <2>3 DEF ListInv, NoNodeTwice
  <2> QED BY <2>1, <2>2, <2>4
<1>13. UnlinkedReset'
  <2> SUFFICES ASSUME NEW y \in Node, ~Linked(y)', y # s[1] PROVE next'[y] = nullptr
    BY <1>6 DEF UnlinkedReset
  <2>1. ~Linked(y)
    <3> SUFFICES ASSUME NEW k \in List, NEW i \in 1..Len(contents[k]),
                        contents[k][i] = y
                 PROVE  FALSE
      BY DEF Linked
    <3>1. CASE k = l
      <4>1. i # 1
        BY <3>1
      <4>2. i - 1 \in 1..(Len(s) - 1) /\ (i - 1) + 1 = i
        BY <1>1a, <3>1, <4>1
      <4>3. contents'[l][i - 1] = y
        BY <1>4, <3>1, <4>2
      <4> QED BY <1>4, <4>2, <4>3 DEF Linked
    <3>2. CASE k # l
      BY <1>3, <3>2 DEF Linked
    <3> QED BY <3>1, <3>2
  <2> QED BY <1>6, <2>1 DEF ListInv, UnlinkedReset
<1> QED BY <1>9, <1>10, <1>12, <1>13 DEF ListInv

-----------------------------------------------------------------------------
(* Exchanging whole lists, as swap and the move constructor do: every list *)
(* is afterwards what some list was before, and no two the same, except    *)
(* that both may be empty.                                                 *)
LEMMA ExchangeInv ==
  ASSUME ListInv, NEW f \in [List -> List], UNCHANGED next,
         \A k, l \in List : f[k] = f[l] => k = l,
         m_head' = [k \in List |-> m_head[f[k]]],
         m_tail' = [k \in List |-> m_tail[f[k]]],
         contents' = [k \in List |-> contents[f[k]]],
         \A l \in List : \E k \in List : f[k] = l
  PROVE  ListInv'
<1>1. \A k \in List : /\ m_head'[k] = m_head[f[k]] /\ m_tail'[k] = m_tail[f[k]]
                      /\ contents'[k] = contents[f[k]] /\ f[k] \in List
  OBVIOUS
<1>2. ListTypeOK'
  BY DEF ListInv, ListTypeOK
<1>3. ListsRepresent'
  BY <1>1 DEF ListInv, ListsRepresent, Represents
<1>4. NoNodeTwice'
  BY <1>1 DEF ListInv, NoNodeTwice
<1>5. \A y \in Node : ~Linked(y)' => ~Linked(y)
  BY <1>1 DEF Linked
<1>6. UnlinkedReset'
  BY <1>5 DEF ListInv, UnlinkedReset
<1> QED BY <1>2, <1>3, <1>4, <1>6 DEF ListInv

(* swap exchanges two lists. *)
LEMMA SwapInv ==
  ASSUME ListInv, NEW k \in List, NEW l \in List, swap(k, l)
  PROVE  ListInv'
<1> DEFINE f == [m \in List |-> IF m = k THEN l ELSE IF m = l THEN k ELSE m]
<1>1. f \in [List -> List]
  OBVIOUS
<1>2. \A a, b \in List : f[a] = f[b] => a = b
  OBVIOUS
<1>3. \A b \in List : \E a \in List : f[a] = b
  <2> TAKE b \in List
  <2>1. f[f[b]] = b
    BY <1>1
  <2> QED BY <1>1, <2>1
<1>4. /\ m_head' = [m \in List |-> m_head[f[m]]]
      /\ m_tail' = [m \in List |-> m_tail[f[m]]]
      /\ contents' = [m \in List |-> contents[f[m]]]
      /\ UNCHANGED next
  BY DEF swap, ListInv, ListTypeOK
<1> HIDE DEF f
<1> QED BY <1>1, <1>2, <1>3, <1>4, ExchangeInv

(* The move constructor exchanges a list with an empty one. *)
LEMMA MoveInv ==
  ASSUME ListInv, NEW k \in List, NEW l \in List, move(k, l)
  PROVE  ListInv'
<1>1. m_head[k] = nullptr /\ m_tail[k] = nullptr /\ contents[k] = <<>>
  BY TailOfList DEF move
<1>2. swap(k, l)
  BY <1>1 DEF move, swap
<1> QED BY <1>2, SwapInv

(* The operations keep lists and sequences together. *)
THEOREM ListsAreSequences == ListSpec => []ListInv
<1>1. ListInit => ListInv
  BY DEF ListInit, ListInv, ListTypeOK, ListsRepresent, Represents, NoNodeTwice, UnlinkedReset,
         Linked
<1>2. ASSUME ListInv, [ListNext]_listVars PROVE ListInv'
  <2>1. CASE UNCHANGED listVars
    BY <1>2, <2>1 DEF listVars, ListInv, ListTypeOK, ListsRepresent, Represents, NoNodeTwice,
                      UnlinkedReset, Linked
  <2>2. CASE ListNext
    BY <1>2, <2>2, PushBackInv, PopFrontInv, SwapInv, MoveInv DEF ListNext
  <2> QED BY <1>2, <2>1, <2>2
<1> QED BY <1>1, <1>2, PTL DEF ListSpec

(* No assertion of intrusive_list.hpp fails: that of push_back on a node   *)
(* that is in no list, and the two of assert_invariants.                   *)
THEOREM NoListAssertionFails == ListSpec => [](UnlinkedReset /\ AssertInvariants)
<1>1. ASSUME ListInv PROVE AssertInvariants
  <2> SUFFICES ASSUME NEW l \in List
               PROVE  /\ empty(l) <=> m_tail[l] = nullptr
                      /\ m_tail[l] # nullptr => next[m_tail[l]] = nullptr
    BY DEF AssertInvariants
  <2>1. empty(l) <=> m_tail[l] = nullptr
    BY <1>1, TailOfList DEF empty
  <2>2. ASSUME m_tail[l] # nullptr PROVE next[m_tail[l]] = nullptr
    <3>1. contents[l] # <<>> /\ Len(contents[l]) \in 1..Len(contents[l])
      BY <1>1, <2>2, TailOfList
    <3> QED BY <1>1, <3>1 DEF ListInv, ListsRepresent, Represents
  <2> QED BY <2>1, <2>2
<1>2. ListInv => UnlinkedReset
  BY DEF ListInv
<1> QED BY <1>1, <1>2, ListsAreSequences, PTL
=============================================================================
