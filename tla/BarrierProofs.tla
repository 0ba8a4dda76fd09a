----------------------------- MODULE BarrierProofs -----------------------------
(***************************************************************************)
(* The barrier, for any finite set of participants and any width of the    *)
(* phase number, whatever the interleaving of its phases: nobody stays     *)
(* asleep behind a phase; and until some wait() returns before its phase   *)
(* is over, one task completes a phase, when all have arrived, and the     *)
(* waiters that may be let go too early are the overlapped ones.           *)
(*                                                                         *)
(* The heart of the invariant is what m_expected counts, Counted: the      *)
(* participants that owe the phase an arrival, and once more those that    *)
(* are about to arrive for another as well.  So the last arrival, the one  *)
(* that takes what is left, leaves nobody behind it but participants that  *)
(* have dropped out, some perhaps in the resume_all of an earlier phase.   *)
(***************************************************************************)
EXTENDS MCBarrier, WaitQueueProofs, FiniteSetTheorems

Waiting == {"arrived", "wait", "wait_if", "return", "covered"}

(* Who owes the current phase an arrival. *)
Owes(t) == \/ pc[t] \in {"out", "peeked", "arrive", "fetch_sub"}
           \/ pc[t] \in Waiting /\ token[t] # m_phase
           \/ pc[t] = "resume_all" /\ ~dropping[t]
ForTwo(t) == pc[t] \in {"arrive", "fetch_sub"} /\ update[t] = 2
Missing == {t \in Task : Owes(t)}
Twofold == {t \in Task : ForTwo(t)}
Staying == {t \in Task : ~dropping[t]}

Counted ==
    /\ m_initial_expected = Cardinality(Staying)
    /\ (\A t \in Task : ~Completing(t))
         => m_expected = Cardinality(Missing) + Cardinality(Twofold)
    /\ \A t \in Task : /\ pc[t] = "reset" => next_expected[t] = m_initial_expected
                       /\ pc[t] = "phase" => m_expected = m_initial_expected

(* Where a task can be that drops out, and of which phase its token is. *)
NextPhase(k) == (k + 1) % PhaseModulus
Place(t) ==
    /\ dropping[t] => pc[t] \in {"arrive", "fetch_sub", "completion", "reset",
                                 "phase", "resume_all", "dropped"}
    /\ dropping[t] /\ pc[t] \in {"arrive", "fetch_sub"} => update[t] = 1
    /\ pc[t] = "dropped" => dropping[t]
    /\ pc[t] = "fetch_sub" \/ Completing(t) => token[t] = m_phase
    /\ pc[t] \in Waiting => token[t] = m_phase \/ m_phase = NextPhase(token[t])
    /\ pc[t] = "resume_all" /\ ~dropping[t] => m_phase = NextPhase(token[t])
Places == \A t \in Task : Place(t)

(* A phase that is complete and not yet over. *)
HasArrived(t) == \/ pc[t] = "dropped" \/ Completing(t)
                 \/ pc[t] = "resume_all" /\ dropping[t]
                 \/ pc[t] \in Waiting /\ token[t] = m_phase

PhaseInv == Places /\ AllArrived /\ OneCompletion /\ Counted

(* A waiter of the current phase that was not queued before an earlier     *)
(* phase's resume_all() is out of the reach of one.                        *)
KeptAsleep(t) ==
    ~overlapped[t] /\ pc[t] = "return" /\ token[t] = m_phase =>
      /\ susp[t] \notin {"idle", "bounce"}
      /\ susp[t] = "parked" => \A u \in Task : /\ pc[u] # "resume_all"
                                              /\ t \notin Range(batch[u])
Overlaps == \A t \in Task : KeptAsleep(t)

(* Tasks sleep in wait() only, and in the barrier's own queue. *)
Sleepers ==
    /\ \A t \in Task : susp[t] # "idle" => pc[t] = "return"
    /\ \A q \in Queue \ {"barrier"} : /\ m_waiters[q] = <<>>
                                     /\ m_waiters_mutex[q] = NoTask
SleepInv == Sleepers /\ NoLostWakeup

MCTypeOK == early \in BOOLEAN /\ overlapped \in [Task -> BOOLEAN]

(* What no early return can break, and what holds until there is one. *)
AlwaysInv == WQInv /\ TypeOK /\ MCTypeOK /\ SleepInv
BarrierInv == AlwaysInv /\ (~early => PhaseInv /\ Overlaps)

-----------------------------------------------------------------------------
(* Facts about phases and counts *)

(* The phase that follows is another one, and one more but for the wrap    *)
(* of the byte.                                                            *)
LEMMA PhaseAdvances ==
  ASSUME NEW k \in Phase
  PROVE  /\ NextPhase(k) \in Phase /\ NextPhase(k) # k
         /\ NextPhase(k) = k + 1 \/ (NextPhase(k) = 0 /\ k = PhaseModulus - 1)
BY BarrierAssumption DEF Phase, NextPhase

(* The sets that are counted are finite. *)
LEMMA FiniteParts ==
  /\ IsFiniteSet(Missing) /\ Cardinality(Missing) \in Nat
  /\ IsFiniteSet(Twofold) /\ Cardinality(Twofold) \in Nat
  /\ IsFiniteSet(Staying) /\ Cardinality(Staying) \in Nat
  /\ Participants \in Nat
BY BarrierAssumption, FS_Subset, FS_CardinalityType
   DEF Missing, Twofold, Staying, Participants

(* AllArrived in the words of this module. *)
LEMMA AllArrivedMeans ==
  AllArrived <=> ((\E t \in Task : Completing(t)) => \A t \in Task : HasArrived(t))
BY DEF AllArrived, HasArrived, Waiting

(* A barrier nobody has used yet. *)
LEMMA InitInv == MCInit => BarrierInv
<1> SUFFICES ASSUME MCInit PROVE BarrierInv
  OBVIOUS
<1> USE DEF MCInit, Init
<1>1. WQInv
  BY WQInitInv
<1>2. TypeOK
  <2>1. 0 \in Phase /\ Participants \in Int
    BY FiniteParts, BarrierAssumption DEF Phase
  <2> QED BY <1>1, <2>1 DEF TypeOK, WQInv, PC
<1>3. Places /\ AllArrived /\ OneCompletion
  BY DEF Places, Place, AllArrived, OneCompletion, Completing, Waiting
<1>4. Missing = Task /\ Twofold = {} /\ Staying = Task
  BY DEF Missing, Twofold, Staying, Owes, ForTwo
<1>5. Counted
  BY <1>4, FiniteParts, FS_EmptySet DEF Counted, Participants, Completing
<1>6. Sleepers /\ NoLostWakeup /\ Overlaps
  BY RangeEmpty DEF WQInit, Sleepers, NoLostWakeup, Overlaps, KeptAsleep
<1> QED BY <1>1, <1>2, <1>3, <1>5, <1>6
        DEF BarrierInv, AlwaysInv, MCTypeOK, SleepInv, PhaseInv

(* The steps that leave the wait queue alone. *)
LEMMA OutsideQueue ==
  ASSUME NEW t \in Task,
         \/ LoadPhase(t) \/ FetchSub(t) \/ Completion(t) \/ Reset(t)
         \/ AdvancePhase(t) \/ Wait(t) \/ TryWait(t) \/ Return(t)
         \/ Arrive(t) \/ Rejoin(t) \/ Drop(t) \/ Peek(t)
         \/ \E u \in Task : ArriveForTwo(t, u)
  PROVE  UNCHANGED wqVars
BY DEF LoadPhase, FetchSub, FetchSubThen, Completion, Reset, AdvancePhase,
   Wait, TryWait, EndWait, Return, Arrive, Rejoin, Drop, Peek, ArriveForTwo

(* Whatever step is taken, the wait queue keeps its own invariant. *)
LEMMA NextWQInv ==
  ASSUME WQInv, TypeOK, [Next]_vars
  PROVE  WQInv'
<1>1. ASSUME UNCHANGED wqVars PROVE WQInv'
  BY <1>1 DEF wqVars, WQInv, WQTypeOK, NodeLifetime, ListsDisjoint,
     InSomeList, PushingHoldsLock
<1>2. ASSUME NEW t \in Task, WaitIf(t) PROVE WQInv'
  BY <1>1, <1>2, SuspendInv DEF WaitIf, Goto
<1>3. ASSUME NEW t \in Task, RecheckPhase(t) PROVE WQInv'
  <2>1. (m_phase = token[t]) \in BOOLEAN /\ Recheck(t, "barrier", m_phase = token[t])
    BY <1>3 DEF RecheckPhase
  <2> QED BY <2>1, RecheckInv, BarrierAssumption
<1>4. ASSUME NEW t \in Task, PushWaiter(t) PROVE WQInv'
  BY <1>4, PushInv, BarrierAssumption DEF PushWaiter
<1>5. ASSUME NEW t \in Task, BounceBack(t) PROVE WQInv'
  BY <1>5, BounceInv DEF BounceBack
<1>6. ASSUME NEW t \in Task, ResumeAll(t) PROVE WQInv'
  BY <1>6, SwapAllInv, BarrierAssumption DEF ResumeAll, EndArrive, Goto
<1>7. ASSUME NEW t \in Task, ResumeWaiter(t) PROVE WQInv'
  BY <1>7, ResumeNextInv DEF ResumeWaiter
<1>8. CASE UNCHANGED vars
  BY <1>1, <1>8 DEF vars, wqVars
<1> QED BY <1>1, <1>2, <1>3, <1>4, <1>5, <1>6, <1>7, <1>8, OutsideQueue DEF Next, Step

(* The variables keep their types. *)
LEMMA NextTypeOK ==
  ASSUME TypeOK, WQTypeOK', [Next]_vars
  PROVE  TypeOK'
<1>1. ASSUME UNCHANGED barVars PROVE TypeOK'
  BY <1>1 DEF TypeOK, barVars, mVars
<1>2. ASSUME NEW t \in Task, NEW to \in PC, pc' = [pc EXCEPT ![t] = to]
      PROVE  pc' \in [Task -> PC]
  BY <1>2 DEF TypeOK
<1>3. 0 \in Phase /\ \A k \in Phase : NextPhase(k) \in Phase
  BY PhaseAdvances, BarrierAssumption DEF Phase
<1>4. \A t \in Task : AfterArrive(t) \in PC
  BY DEF AfterArrive, PC
<1>5. ASSUME NEW t \in Task, Wait(t) \/ TryWait(t) \/ WaitIf(t) \/ Return(t) \/ Rejoin(t)
      PROVE  TypeOK'
  BY <1>3, <1>5 DEF Wait, TryWait, WaitIf, Return, Rejoin, EndWait, Goto, TypeOK, PC, mVars
<1>6. ASSUME NEW t \in Task, Arrive(t) \/ Peek(t) \/ Drop(t) \/ LoadPhase(t) PROVE TypeOK'
  <2>1. CASE Arrive(t) \/ Peek(t)
    BY <2>1 DEF Arrive, Peek, CallArrive, TypeOK, PC, mVars
  <2>2. CASE Drop(t)
    BY <2>2 DEF Drop, CallArrive, TypeOK, PC
  <2>3. CASE LoadPhase(t)
    BY <2>3 DEF LoadPhase, Goto, TypeOK, PC, mVars
  <2> QED BY <1>6, <2>1, <2>2, <2>3
<1>7. ASSUME NEW t \in Task, NEW u \in Task, ArriveForTwo(t, u) PROVE TypeOK'
  BY <1>7 DEF ArriveForTwo, CallArrive, TypeOK, PC, mVars
<1>8. ASSUME NEW t \in Task, FetchSub(t) \/ ResumeAll(t) PROVE TypeOK'
  <2>1. /\ pc' \in [Task -> PC] /\ token' \in [Task -> Phase] /\ update' \in [Task -> 0..2]
    <3>1. ASSUME NEW from, EndArrive(t, from)
          PROVE  /\ pc' \in [Task -> PC] /\ token' \in [Task -> Phase]
                 /\ update' \in [Task -> 0..2]
      BY <1>2, <1>3, <1>4, <3>1 DEF EndArrive, Goto, TypeOK
    <3>2. CASE Goto(t, "fetch_sub", "completion") /\ UNCHANGED <<token, update>>
      BY <1>2, <3>2 DEF Goto, TypeOK, PC
    <3> QED BY <1>8, <3>1, <3>2 DEF FetchSub, FetchSubThen, ResumeAll
  <2>2. m_expected' \in Int /\ UNCHANGED <<m_initial_expected, m_phase, next_expected, dropping>>
    BY <1>8 DEF FetchSub, FetchSubThen, ResumeAll, TypeOK, mVars
  <2> QED BY <2>1, <2>2 DEF TypeOK
<1>9. ASSUME NEW t \in Task, Completion(t) \/ Reset(t) PROVE TypeOK'
  BY <1>9 DEF Completion, Reset, Goto, TypeOK, PC, mVars
<1>10. ASSUME NEW t \in Task, AdvancePhase(t) PROVE TypeOK'
  BY <1>3, <1>10 DEF AdvancePhase, Goto, TypeOK, PC, NextPhase
<1>11. ASSUME NEW t \in Task, RecheckPhase(t) \/ PushWaiter(t) \/ BounceBack(t) \/ ResumeWaiter(t)
      PROVE  TypeOK'
  BY <1>1, <1>11 DEF RecheckPhase, PushWaiter, BounceBack, ResumeWaiter
<1>12. CASE UNCHANGED vars
  BY <1>1, <1>12 DEF vars
<1> QED BY <1>5, <1>6, <1>7, <1>8, <1>9, <1>10, <1>11, <1>12 DEF Next, Step

-----------------------------------------------------------------------------
(* The phases: what arrive() and wait() do to the counts. *)

(* Neither the wait queue nor time that passes matters to a phase. *)
LEMMA PhaseFrame ==
  ASSUME TypeOK, PhaseInv, UNCHANGED barVars
  PROVE  PhaseInv'
<1>1. UNCHANGED <<m_expected, m_initial_expected, m_phase, pc, token, update, next_expected,
                  dropping>>
  BY DEF barVars, mVars
<1>2. Missing' = Missing /\ Twofold' = Twofold /\ Staying' = Staying
  BY <1>1 DEF Missing, Twofold, Staying, Owes, ForTwo
<1>3. Counted'
  BY <1>1, <1>2 DEF PhaseInv, Counted, Completing
<1>4. Places' /\ AllArrived' /\ OneCompletion'
  BY <1>1 DEF PhaseInv, Places, Place, AllArrived, OneCompletion, Completing
<1> QED BY <1>3, <1>4 DEF PhaseInv

(* A step of t that does not change what it owes: t neither completes the  *)
(* phase nor goes to resume anybody.                                       *)
LEMMA PhaseMove ==
  ASSUME TypeOK, PhaseInv, NEW t \in Task,
         UNCHANGED <<mVars, next_expected, dropping>>,
         pc' \in [Task -> PC], token' \in [Task -> Phase], update' \in [Task -> 0..2],
         \A u \in Task : u # t => /\ pc'[u] = pc[u] /\ token'[u] = token[u]
                                  /\ update'[u] = update[u],
         ~Completing(t), ~Completing(t)',
         Owes(t)' <=> Owes(t), ForTwo(t)' <=> ForTwo(t), Place(t)',
         (\E u \in Task : Completing(u)) => HasArrived(t)'
  PROVE  PhaseInv'
<1>0. Places /\ AllArrived /\ OneCompletion /\ Counted
  BY DEF PhaseInv
<1>1. UNCHANGED <<m_expected, m_initial_expected, m_phase, next_expected, dropping>>
  BY DEF mVars
<1>2. \A u \in Task : u # t => /\ Owes(u)' <=> Owes(u)
                               /\ ForTwo(u)' <=> ForTwo(u)
                               /\ Completing(u)' <=> Completing(u)
                               /\ Place(u)' <=> Place(u)
                               /\ HasArrived(u)' <=> HasArrived(u)
  BY <1>1 DEF Owes, ForTwo, Completing, Place, HasArrived
<1>3. Missing' = Missing /\ Twofold' = Twofold /\ Staying' = Staying
  BY <1>1, <1>2 DEF Missing, Twofold, Staying
<1>4. \A u \in Task : Completing(u)' <=> Completing(u)
  BY <1>2
<1>5. \A u \in Task : pc'[u] \in {"reset", "phase"} => pc'[u] = pc[u]
  BY DEF Completing
<1>6. Counted'
  BY <1>0, <1>1, <1>3, <1>4, <1>5 DEF Counted
<1>7. Places'
  BY <1>0, <1>2 DEF Places
<1>8. AllArrived'
  <2>1. (\E u \in Task : Completing(u)') => \A u \in Task : HasArrived(u)'
    BY <1>0, <1>2, <1>4, AllArrivedMeans
  <2> QED BY <2>1 DEF AllArrived, HasArrived, Waiting, Completing
<1>9. OneCompletion'
  BY <1>0, <1>4 DEF OneCompletion
<1> QED BY <1>6, <1>7, <1>8, <1>9 DEF PhaseInv

(* While a phase is complete, nobody is at an earlier place of arrive(). *)
LEMMA NobodyArrives ==
  ASSUME PhaseInv, NEW t \in Task, pc[t] \in {"out", "peeked", "arrive", "fetch_sub"}
  PROVE  \A u \in Task : ~Completing(u)
<1>1. AllArrived /\ ~HasArrived(t)
  BY DEF PhaseInv, HasArrived, Waiting, Completing
<1> QED BY <1>1, AllArrivedMeans

(* arrive() before it counts, whatever it is called with. *)
LEMMA PhaseCall ==
  ASSUME TypeOK, PhaseInv, NEW t \in Task,
         Arrive(t) \/ Peek(t) \/ LoadPhase(t)
  PROVE  PhaseInv'
<1>0. Places
  BY DEF PhaseInv
<1>1. UNCHANGED <<mVars, next_expected, dropping, wqVars>>
  BY DEF Arrive, Peek, LoadPhase
<1>2. /\ pc[t] \in {"out", "peeked", "arrive"} /\ pc'[t] \in {"arrive", "fetch_sub"}
      /\ pc' \in [Task -> PC] /\ token' \in [Task -> Phase] /\ update' \in [Task -> 0..2]
      /\ \A u \in Task : u # t => /\ pc'[u] = pc[u] /\ token'[u] = token[u]
                                  /\ update'[u] = update[u]
      /\ pc'[t] = "fetch_sub" => token'[t] = m_phase
      /\ IF pc[t] = "arrive" THEN update'[t] = update[t] ELSE update'[t] # 2
  BY <1>0 DEF Arrive, Peek, LoadPhase, CallArrive, Goto, TypeOK, PC
<1>3. /\ Owes(t) /\ Owes(t)' /\ ~Completing(t) /\ ~Completing(t)'
      /\ ForTwo(t)' <=> ForTwo(t)
  BY <1>2 DEF Owes, Completing, ForTwo
<1>4. m_phase' = m_phase /\ dropping' = dropping
  BY <1>1 DEF mVars
<1>5. Place(t)'
  BY <1>0, <1>2, <1>4 DEF Place, Places, Completing, Waiting
<1>6. \A u \in Task : ~Completing(u)
  BY <1>2, NobodyArrives
<1> QED BY <1>1, <1>2, <1>3, <1>5, <1>6, PhaseMove

(* wait(token), inside. *)
LEMMA PhaseWait ==
  ASSUME TypeOK, PhaseInv, NEW t \in Task, UNCHANGED <<mVars, token, update, next_expected, dropping>>,
         pc[t] \in {"arrived", "wait", "wait_if"},
         pc'[t] \in {"wait", "wait_if", "return"}, pc' = [pc EXCEPT ![t] = pc'[t]]
  PROVE  PhaseInv'
<1>0. Places /\ AllArrived
  BY DEF PhaseInv
<1>1. UNCHANGED <<m_phase, token, update, dropping>>
  BY DEF mVars
<1>2. /\ pc' \in [Task -> PC] /\ token' \in [Task -> Phase] /\ update' \in [Task -> 0..2]
      /\ \A u \in Task : u # t => pc'[u] = pc[u]
      /\ pc[t] \in Waiting /\ pc'[t] \in Waiting
  BY <1>0, <1>1 DEF TypeOK, PC, Waiting
<1>3. /\ Owes(t)' <=> Owes(t)
      /\ HasArrived(t)' <=> HasArrived(t)
      /\ ~Completing(t) /\ ~Completing(t)'
      /\ ForTwo(t)' <=> ForTwo(t)
  BY <1>1, <1>2 DEF Owes, HasArrived, Completing, ForTwo, Waiting
<1>4. Place(t)'
  BY <1>0, <1>1, <1>2 DEF Place, Places, Completing, Waiting
<1>5. (\E u \in Task : Completing(u)) => HasArrived(t)'
  BY <1>0, <1>3, AllArrivedMeans
<1>6. \A u \in Task : u # t => /\ pc'[u] = pc[u] /\ token'[u] = token[u]
                               /\ update'[u] = update[u]
  BY <1>1, <1>2
<1> QED BY <1>2, <1>3, <1>4, <1>5, <1>6, PhaseMove

(* The end of wait(token), and a covered participant that comes back. *)
LEMMA PhaseBack ==
  ASSUME TypeOK, PhaseInv, NEW t \in Task,
         UNCHANGED <<mVars, update, next_expected, dropping>>,
         pc[t] \in Waiting, token[t] # m_phase,
         pc' = [pc EXCEPT ![t] = "out"], token' = [token EXCEPT ![t] = 0]
  PROVE  PhaseInv'
<1>0. Places /\ AllArrived
  BY DEF PhaseInv
<1>1. UNCHANGED <<m_phase, dropping>>
  BY DEF mVars
<1>2. /\ pc' \in [Task -> PC] /\ token' \in [Task -> Phase] /\ update' \in [Task -> 0..2]
      /\ pc'[t] = "out"
      /\ \A u \in Task : u # t => /\ pc'[u] = pc[u] /\ token'[u] = token[u]
                                  /\ update'[u] = update[u]
  BY <1>0, BarrierAssumption DEF TypeOK, PC, Phase
<1>3. /\ Owes(t) /\ Owes(t)' /\ ~Completing(t) /\ ~Completing(t)'
      /\ ~ForTwo(t)' /\ ~ForTwo(t)
      /\ ~HasArrived(t)
  BY <1>2 DEF Owes, HasArrived, Completing, ForTwo, Waiting
<1>4. Place(t)'
  BY <1>0, <1>1, <1>2 DEF Place, Places, Completing, Waiting
<1>5. \A u \in Task : ~Completing(u)
  BY <1>0, <1>3, AllArrivedMeans
<1> QED BY <1>2, <1>3, <1>4, <1>5, PhaseMove

(* The end of arrive() for a task that completed a phase. *)
LEMMA PhaseResumed ==
  ASSUME TypeOK, PhaseInv, NEW t \in Task, ResumeAll(t)
  PROVE  PhaseInv'
<1>0. Places /\ AllArrived
  BY DEF PhaseInv
<1>1. UNCHANGED <<mVars, next_expected, dropping>> /\ UNCHANGED <<m_phase, dropping>>
  BY DEF ResumeAll, mVars
<1>2. /\ pc[t] = "resume_all" /\ pc' = [pc EXCEPT ![t] = AfterArrive(t)]
      /\ token' = IF AfterArrive(t) = "arrived" THEN token
                                                ELSE [token EXCEPT ![t] = 0]
      /\ update' = [update EXCEPT ![t] = 0]
  BY DEF ResumeAll, EndArrive, Goto
<1>3. /\ AfterArrive(t) \in {"dropped", "peeked", "arrived"}
      /\ AfterArrive(t) = "dropped" <=> dropping[t]
  BY DEF AfterArrive
<1>4. /\ pc' \in [Task -> PC] /\ token' \in [Task -> Phase] /\ update' \in [Task -> 0..2]
      /\ pc'[t] = AfterArrive(t)
      /\ pc'[t] = "arrived" => token'[t] = token[t]
      /\ \A u \in Task : u # t => /\ pc'[u] = pc[u] /\ token'[u] = token[u]
                                  /\ update'[u] = update[u]
  BY <1>0, <1>2, <1>3, BarrierAssumption DEF TypeOK, PC, Phase
<1>5. ~dropping[t] => m_phase = NextPhase(token[t]) /\ token[t] # m_phase
  BY <1>0, <1>2, PhaseAdvances DEF Places, Place, TypeOK
<1>6. /\ Owes(t)' <=> Owes(t)
      /\ ~Completing(t) /\ ~Completing(t)'
      /\ ~ForTwo(t)' /\ ~ForTwo(t)
  BY <1>1, <1>2, <1>3, <1>4, <1>5 DEF Owes, Completing, ForTwo, Waiting
<1>7. Place(t)'
  BY <1>1, <1>3, <1>4, <1>5 DEF Place, Completing, Waiting, NextPhase
<1>8. (\E u \in Task : Completing(u)) => HasArrived(t)'
  <2>1. dropping[t] => HasArrived(t)'
    BY <1>3, <1>4 DEF HasArrived
  <2>2. ~dropping[t] => ~HasArrived(t)
    BY <1>2 DEF HasArrived, Completing, Waiting
  <2> QED BY <1>0, <2>1, <2>2, AllArrivedMeans
<1> QED BY <1>1, <1>4, <1>6, <1>7, <1>8, PhaseMove

(* arrive(2): the other participant needs not arrive, and this one counts  *)
(* twice.                                                                  *)
LEMMA PhaseForTwo ==
  ASSUME TypeOK, PhaseInv, NEW t \in Task, NEW u \in Task, ArriveForTwo(t, u)
  PROVE  PhaseInv'
<1>0. Places /\ Counted
  BY DEF PhaseInv
<1>1. UNCHANGED <<m_expected, m_initial_expected, m_phase, next_expected, dropping>>
  BY DEF ArriveForTwo, mVars
<1>2. /\ pc[t] = "out" /\ pc[u] = "out" /\ t # u
      /\ pc' \in [Task -> PC] /\ token' \in [Task -> Phase] /\ update' \in [Task -> 0..2]
      /\ pc'[t] = "arrive" /\ pc'[u] = "covered" /\ update'[t] = 2 /\ token'[u] = m_phase
      /\ \A v \in Task : v \notin {t, u} => /\ pc'[v] = pc[v] /\ token'[v] = token[v]
                                            /\ update'[v] = update[v]
  BY <1>0 DEF ArriveForTwo, CallArrive, TypeOK, PC
<1>3. \A v \in Task : ~Completing(v)
  BY <1>2, NobodyArrives
<1>4. \A v \in Task : ~Completing(v)'
  BY <1>2, <1>3 DEF Completing
<1>5. Missing' = Missing \ {u} /\ u \in Missing
  BY <1>1, <1>2 DEF Missing, Owes, Waiting
<1>6. Twofold' = Twofold \cup {t} /\ t \notin Twofold
  BY <1>2 DEF Twofold, ForTwo
<1>7. /\ Cardinality(Missing') = Cardinality(Missing) - 1
      /\ Cardinality(Twofold') = Cardinality(Twofold) + 1
      /\ Staying' = Staying
  BY <1>1, <1>5, <1>6, FiniteParts, FS_AddElement, FS_RemoveElement DEF Staying
<1>8. m_expected' = Cardinality(Missing') + Cardinality(Twofold')
  BY <1>0, <1>1, <1>3, <1>7, FiniteParts DEF Counted
<1>9. \A v \in Task : pc'[v] \notin {"reset", "phase"}
  BY <1>4 DEF Completing
<1>10. Counted'
  BY <1>0, <1>1, <1>7, <1>8, <1>9 DEF Counted
<1>11. ~dropping[t] /\ ~dropping[u]
  BY <1>0, <1>2 DEF Places, Place
<1>12. Places'
  BY <1>0, <1>1, <1>2, <1>3, <1>4, <1>11 DEF Places, Place, Completing, Waiting, NextPhase
<1>13. AllArrived' /\ OneCompletion'
  BY <1>4 DEF AllArrived, OneCompletion
<1> QED BY <1>10, <1>12, <1>13 DEF PhaseInv

(* arrive_and_drop(): one participant less for the phases to come. *)
LEMMA PhaseDrop ==
  ASSUME TypeOK, PhaseInv, NEW t \in Task, Drop(t)
  PROVE  PhaseInv'
<1>0. Places /\ Counted
  BY DEF PhaseInv
<1>1. UNCHANGED <<m_expected, m_phase, token, next_expected>>
  BY DEF Drop
<1>2. /\ pc[t] = "out" /\ pc'[t] = "arrive" /\ update'[t] = 1 /\ dropping'[t]
      /\ pc' \in [Task -> PC] /\ update' \in [Task -> 0..2] /\ dropping' \in [Task -> BOOLEAN]
      /\ \A v \in Task : v # t => /\ pc'[v] = pc[v] /\ dropping'[v] = dropping[v]
                                  /\ update'[v] = update[v]
      /\ m_initial_expected' = m_initial_expected - 1
  BY <1>0 DEF Drop, CallArrive, TypeOK, PC
<1>3. \A v \in Task : ~Completing(v)
  BY <1>2, NobodyArrives
<1>4. \A v \in Task : ~Completing(v)'
  BY <1>2, <1>3 DEF Completing
<1>5. Missing' = Missing /\ Twofold' = Twofold
  BY <1>1, <1>2 DEF Missing, Owes, Twofold, ForTwo
<1>6. ~dropping[t]
  BY <1>0, <1>2 DEF Places, Place
<1>7. Staying' = Staying \ {t} /\ t \in Staying
  BY <1>2, <1>6 DEF Staying
<1>8. Cardinality(Staying') = Cardinality(Staying) - 1 /\ Cardinality(Staying') \in Nat
  BY <1>7, FiniteParts, FS_RemoveElement, FS_CardinalityType
<1>9. \A v \in Task : pc'[v] \notin {"reset", "phase"}
  BY <1>4 DEF Completing
<1>10. Counted'
  BY <1>0, <1>1, <1>2, <1>3, <1>5, <1>8, <1>9 DEF Counted
<1>11. Places'
  BY <1>0, <1>1, <1>2, <1>3, <1>4 DEF Places, Place, Completing, Waiting, NextPhase
<1>12. AllArrived' /\ OneCompletion'
  BY <1>4 DEF AllArrived, OneCompletion
<1> QED BY <1>10, <1>11, <1>12 DEF PhaseInv

(* What is left when t takes its own arrival, or two, from the count. *)
LEMMA LastArrival ==
  ASSUME TypeOK, PhaseInv, NEW t \in Task, pc[t] = "fetch_sub"
  PROVE  /\ update[t] <= m_expected
         /\ m_expected = update[t] => update[t] # 0 /\ Missing = {t}
<1>0. Counted /\ update[t] \in 0..2
  BY DEF PhaseInv, TypeOK
<1>1. m_expected = Cardinality(Missing) + Cardinality(Twofold)
  BY <1>0, NobodyArrives DEF Counted
<1>2. t \in Missing /\ (update[t] = 2 <=> t \in Twofold)
  BY DEF Missing, Owes, Twofold, ForTwo
<1>3. /\ Cardinality(Missing \ {t}) = Cardinality(Missing) - 1
      /\ Cardinality(Missing \ {t}) \in Nat /\ IsFiniteSet(Missing \ {t})
  BY <1>2, FiniteParts, FS_RemoveElement, FS_CardinalityType
<1>4. update[t] = 2 => Cardinality(Twofold) # 0
  BY <1>2, FiniteParts, FS_EmptySet
<1>5. update[t] <= m_expected
  BY <1>0, <1>1, <1>3, <1>4, FiniteParts
<1>6. ASSUME m_expected = update[t] PROVE update[t] # 0 /\ Missing = {t}
  <2>1. Cardinality(Missing \ {t}) = 0 /\ update[t] # 0
    BY <1>0, <1>1, <1>3, <1>4, <1>6, FiniteParts
  <2>2. Missing \ {t} = {}
    BY <1>3, <2>1, FS_EmptySet
  <2> QED BY <1>2, <2>1, <2>2
<1> QED BY <1>5, <1>6

(* The last arrival completes the phase: everybody else has arrived. *)
LEMMA PhaseLast ==
  ASSUME TypeOK, PhaseInv, NEW t \in Task, FetchSub(t), m_expected = update[t]
  PROVE  PhaseInv'
<1>0. Places /\ Counted
  BY DEF PhaseInv
<1>1. /\ UNCHANGED <<m_initial_expected, m_phase, token, update, next_expected, dropping>>
      /\ pc[t] = "fetch_sub" /\ pc' = [pc EXCEPT ![t] = "completion"]
      /\ m_expected' = m_expected - update[t]
  BY DEF FetchSub, FetchSubThen, Goto, EndArrive
<1>2. Missing = {t} /\ \A u \in Task : ~Completing(u)
  BY <1>1, LastArrival, NobodyArrives
<1>3. /\ pc' \in [Task -> PC] /\ pc'[t] = "completion"
      /\ \A u \in Task : u # t => pc'[u] = pc[u]
  BY <1>0, <1>1 DEF TypeOK, PC
<1>4. \A u \in Task : Completing(u)' <=> u = t
  BY <1>2, <1>3 DEF Completing
<1>5. \A u \in Task : HasArrived(u)'
  <2> SUFFICES ASSUME NEW u \in Task, u # t PROVE HasArrived(u)'
    BY <1>4 DEF HasArrived
  <2>1. ~Owes(u)
    BY <1>2 DEF Missing
  <2>2. pc[u] \in PC /\ ~Completing(u)
    BY <1>0, <1>2 DEF TypeOK
  <2>3. \/ pc[u] = "dropped" \/ (pc[u] = "resume_all" /\ dropping[u])
        \/ (pc[u] \in Waiting /\ token[u] = m_phase)
    BY <2>1, <2>2 DEF Owes, PC, Completing, Waiting
  <2> QED BY <1>1, <1>3, <2>3 DEF HasArrived
<1>6. AllArrived'
  BY <1>5 DEF AllArrived, HasArrived, Waiting, Completing
<1>7. Counted'
  <2>1. Staying' = Staying
    BY <1>1 DEF Staying
  <2>2. Completing(t)' /\ \A u \in Task : pc'[u] \notin {"reset", "phase"}
    BY <1>3, <1>4 DEF Completing
  <2> QED BY <1>0, <1>1, <2>1, <2>2 DEF Counted
<1>8. Places'
  BY <1>0, <1>1, <1>3, <1>4 DEF Places, Place, Completing, Waiting, NextPhase
<1>9. OneCompletion'
  BY <1>4 DEF OneCompletion
<1> QED BY <1>6, <1>7, <1>8, <1>9 DEF PhaseInv

(* An arrival that is not the last, and the end of arrive(0). *)
LEMMA PhaseArrived ==
  ASSUME TypeOK, PhaseInv, NEW t \in Task, FetchSub(t), m_expected # update[t]
  PROVE  PhaseInv'
<1>0. Places /\ Counted
  BY DEF PhaseInv
<1>1. /\ UNCHANGED <<m_initial_expected, m_phase, next_expected, dropping>>
      /\ pc[t] = "fetch_sub" /\ pc' = [pc EXCEPT ![t] = AfterArrive(t)]
      /\ token' = IF AfterArrive(t) = "arrived" THEN token
                                                ELSE [token EXCEPT ![t] = 0]
      /\ update' = [update EXCEPT ![t] = 0]
      /\ m_expected' = m_expected - update[t]
  BY DEF FetchSub, FetchSubThen, Goto, EndArrive
<1>2. \A u \in Task : ~Completing(u)
  BY <1>1, NobodyArrives
<1>3. /\ token[t] = m_phase
      /\ IF update[t] = 0 THEN AfterArrive(t) = "peeked" /\ ~dropping[t]
         ELSE IF dropping[t] THEN AfterArrive(t) = "dropped"
         ELSE AfterArrive(t) = "arrived"
  BY <1>0, <1>1 DEF Places, Place, AfterArrive
<1>4. /\ pc' \in [Task -> PC] /\ token' \in [Task -> Phase] /\ update' \in [Task -> 0..2]
      /\ pc'[t] = AfterArrive(t) /\ update'[t] = 0
      /\ pc'[t] = "arrived" => token'[t] = m_phase
      /\ \A u \in Task : u # t => /\ pc'[u] = pc[u] /\ token'[u] = token[u]
                                  /\ update'[u] = update[u]
  BY <1>0, <1>1, <1>3, BarrierAssumption DEF TypeOK, PC, Phase
<1>5. \A u \in Task : ~Completing(u)'
  BY <1>2, <1>3, <1>4 DEF Completing
<1>6. Staying' = Staying
  BY <1>1 DEF Staying
<1>7. Missing' = IF update[t] = 0 THEN Missing ELSE Missing \ {t}
  <2>1. \A u \in Task : u # t => (Owes(u)' <=> Owes(u))
    BY <1>1, <1>4 DEF Owes
  <2>2. Owes(t) /\ (Owes(t)' <=> update[t] = 0)
    BY <1>1, <1>3, <1>4 DEF Owes, Waiting
  <2> QED BY <2>1, <2>2 DEF Missing
<1>8. Twofold' = IF update[t] = 2 THEN Twofold \ {t} ELSE Twofold
  <2>1. \A u \in Task : u # t => (ForTwo(u)' <=> ForTwo(u))
    BY <1>4 DEF ForTwo
  <2>2. ~ForTwo(t)' /\ (ForTwo(t) <=> update[t] = 2)
    BY <1>1, <1>3, <1>4 DEF ForTwo
  <2> QED BY <2>1, <2>2 DEF Twofold
<1>9. t \in Missing /\ (update[t] = 2 => t \in Twofold)
  BY <1>1 DEF Missing, Owes, Twofold, ForTwo
<1>10. /\ Cardinality(Missing') = IF update[t] = 0 THEN Cardinality(Missing)
                                  ELSE Cardinality(Missing) - 1
       /\ Cardinality(Twofold') = IF update[t] = 2 THEN Cardinality(Twofold) - 1
                                  ELSE Cardinality(Twofold)
  BY <1>7, <1>8, <1>9, FiniteParts, FS_RemoveElement
<1>11. m_expected = Cardinality(Missing) + Cardinality(Twofold)
  BY <1>0, <1>2 DEF Counted
<1>12. m_expected' = Cardinality(Missing') + Cardinality(Twofold')
  <2>1. update[t] \in {0, 1, 2}
    BY <1>0 DEF TypeOK
  <2> QED BY <1>1, <1>10, <1>11, <2>1, FiniteParts
<1>13. \A u \in Task : pc'[u] \notin {"reset", "phase"}
  BY <1>5 DEF Completing
<1>14. Counted'
  BY <1>0, <1>1, <1>6, <1>12, <1>13 DEF Counted
<1>15. Places'
  <2>1. \A u \in Task : u # t => Place(u)'
    BY <1>0, <1>1, <1>4 DEF Places, Place, Completing, NextPhase
  <2>2. Place(t)'
    BY <1>1, <1>3, <1>4, <1>5 DEF Place, Waiting
  <2> QED BY <2>1, <2>2 DEF Places
<1>16. AllArrived' /\ OneCompletion'
  BY <1>5 DEF AllArrived, OneCompletion
<1> QED BY <1>14, <1>15, <1>16 DEF PhaseInv

(* The completion function, and the refill of the counter. *)
LEMMA PhaseComplete ==
  ASSUME TypeOK, PhaseInv, NEW t \in Task, Completion(t) \/ Reset(t)
  PROVE  PhaseInv'
<1>0. Places /\ AllArrived /\ OneCompletion /\ Counted
  BY DEF PhaseInv
<1>1. /\ UNCHANGED <<m_initial_expected, m_phase, token, update, dropping>>
      /\ \/ /\ pc[t] = "completion" /\ pc' = [pc EXCEPT ![t] = "reset"]
            /\ next_expected' = [next_expected EXCEPT ![t] = m_initial_expected]
            /\ m_expected' = m_expected
         \/ /\ pc[t] = "reset" /\ pc' = [pc EXCEPT ![t] = "phase"]
            /\ m_expected' = next_expected[t] /\ next_expected' = [next_expected EXCEPT ![t] = 0]
  BY DEF Completion, Reset, Goto, mVars
<1>2. /\ pc' \in [Task -> PC] /\ \A u \in Task : u # t => pc'[u] = pc[u]
      /\ \/ pc[t] = "completion" /\ pc'[t] = "reset"
         \/ pc[t] = "reset" /\ pc'[t] = "phase"
  BY <1>0, <1>1 DEF TypeOK, PC
<1>3. \A u \in Task : (Completing(u)' <=> Completing(u)) /\ (Completing(u) => u = t)
  BY <1>0, <1>2 DEF OneCompletion, Completing
<1>4. Completing(t)
  BY <1>2 DEF Completing
<1>5. Staying' = Staying
  BY <1>1 DEF Staying
<1>6. \A u \in Task : u # t => pc'[u] \notin {"reset", "phase"}
  BY <1>3 DEF Completing
<1>7. /\ pc'[t] = "reset" => next_expected'[t] = m_initial_expected'
      /\ pc'[t] = "phase" => m_expected' = m_initial_expected'
  BY <1>0, <1>1, <1>2 DEF Counted, TypeOK
<1>8. Counted'
  BY <1>0, <1>1, <1>3, <1>4, <1>5, <1>6, <1>7 DEF Counted
<1>9. Places'
  BY <1>0, <1>1, <1>2, <1>3 DEF Places, Place, Completing, Waiting, NextPhase
<1>10. AllArrived'
  BY <1>0, <1>1, <1>2, <1>3 DEF AllArrived, Completing
<1>11. OneCompletion'
  BY <1>0, <1>3 DEF OneCompletion
<1> QED BY <1>8, <1>9, <1>10, <1>11 DEF PhaseInv

(* The next phase: everybody who stays owes it an arrival. *)
LEMMA PhaseNext ==
  ASSUME TypeOK, PhaseInv, NEW t \in Task, AdvancePhase(t)
  PROVE  PhaseInv'
<1>0. Places /\ AllArrived /\ OneCompletion /\ Counted
  BY DEF PhaseInv
<1>1. /\ UNCHANGED <<m_expected, m_initial_expected, token, update, next_expected, dropping>>
      /\ pc[t] = "phase" /\ pc' = [pc EXCEPT ![t] = "resume_all"]
      /\ m_phase' = NextPhase(token[t])
  BY DEF AdvancePhase, Goto, NextPhase
<1>2. /\ pc' \in [Task -> PC] /\ pc'[t] = "resume_all"
      /\ \A u \in Task : u # t => pc'[u] = pc[u]
  BY <1>0, <1>1 DEF TypeOK, PC
<1>3. Completing(t) /\ token[t] = m_phase
  BY <1>0, <1>1 DEF Completing, Places, Place
<1>4. m_phase' = NextPhase(m_phase) /\ m_phase' \in Phase /\ m_phase' # m_phase
  BY <1>0, <1>1, <1>3, PhaseAdvances DEF TypeOK
<1>5. \A u \in Task : u # t => \/ pc[u] \in {"dropped", "resume_all"} /\ dropping[u]
                               \/ pc[u] \in Waiting /\ token[u] = m_phase /\ ~dropping[u]
  <2> SUFFICES ASSUME NEW u \in Task, u # t
               PROVE  \/ pc[u] \in {"dropped", "resume_all"} /\ dropping[u]
                      \/ pc[u] \in Waiting /\ token[u] = m_phase /\ ~dropping[u]
    OBVIOUS
  <2>1. ~Completing(u) /\ HasArrived(u) /\ Place(u)
    BY <1>0, <1>3, AllArrivedMeans DEF OneCompletion, Places
  <2> QED BY <2>1 DEF HasArrived, Place, Waiting
<1>6. \A u \in Task : u # t => ~Completing(u)'
  BY <1>1, <1>2, <1>4, <1>5 DEF Waiting, Completing
<1>7. ~Completing(t)'
  BY <1>2 DEF Completing
<1>8. Missing' = Staying
  <2>1. \A u \in Task : Owes(u)' <=> ~dropping[u]
    BY <1>1, <1>2, <1>4, <1>5 DEF Owes, Waiting
  <2> QED BY <2>1 DEF Missing, Staying
<1>9. Twofold' = {} /\ Staying' = Staying
  BY <1>1, <1>2, <1>5 DEF Twofold, ForTwo, Staying, Waiting
<1>10. m_expected' = Cardinality(Missing') + Cardinality(Twofold')
  BY <1>0, <1>1, <1>8, <1>9, FiniteParts, FS_EmptySet DEF Counted
<1>11. \A u \in Task : pc'[u] \notin {"reset", "phase"}
  BY <1>6, <1>7 DEF Completing
<1>12. Counted'
  BY <1>0, <1>1, <1>9, <1>10, <1>11 DEF Counted
<1>13. Places'
  <2>1. ASSUME NEW u \in Task, u # t PROVE Place(u)'
    BY <1>1, <1>2, <1>4, <1>5, <2>1 DEF Place, Waiting, Completing, NextPhase
  <2>2. Place(t)'
    BY <1>1, <1>2, <1>7 DEF Place, Waiting, NextPhase
  <2> QED BY <2>1, <2>2 DEF Places
<1>14. AllArrived' /\ OneCompletion'
  BY <1>6, <1>7 DEF AllArrived, OneCompletion
<1> QED BY <1>12, <1>13, <1>14 DEF PhaseInv

(* Every step that does not end a wait() early. *)
LEMMA NextPhaseInv ==
  ASSUME TypeOK, PhaseInv, [Next]_vars, \A t \in Task : ~LeavesEarly(t)
  PROVE  PhaseInv'
<1>1. ASSUME NEW t \in Task, RecheckPhase(t) \/ PushWaiter(t) \/ BounceBack(t) \/ ResumeWaiter(t)
      PROVE  PhaseInv'
  BY <1>1, PhaseFrame DEF RecheckPhase, PushWaiter, BounceBack, ResumeWaiter
<1>2. CASE UNCHANGED vars
  BY <1>2, PhaseFrame DEF vars
<1>3. ASSUME NEW t \in Task, Arrive(t) \/ Peek(t) \/ LoadPhase(t) PROVE PhaseInv'
  BY <1>3, PhaseCall
<1>4. ASSUME NEW t \in Task, NEW from, NEW to, Goto(t, from, to),
             from \in {"arrived", "wait", "wait_if"}, to \in {"wait", "wait_if", "return"},
             UNCHANGED <<mVars, token, update, next_expected, dropping>>
      PROVE  PhaseInv'
  BY <1>4, PhaseWait DEF Goto, TypeOK
<1>5. ASSUME NEW t \in Task, Wait(t) \/ WaitIf(t) PROVE PhaseInv'
  BY <1>4, <1>5 DEF Wait, WaitIf
<1>6. ASSUME NEW t \in Task, NEW from \in Waiting, EndWait(t, from), token[t] # m_phase
      PROVE  PhaseInv'
  BY <1>6, PhaseBack DEF EndWait, Goto
<1>7. ASSUME NEW t \in Task, TryWait(t) PROVE PhaseInv'
  <2>1. CASE OfPreviousPhase(t) /\ EndWait(t, "wait")
    <3>1. token[t] # m_phase
      BY <2>1, BarrierAssumption DEF OfPreviousPhase, TypeOK, Phase
    <3> QED BY <1>6, <2>1, <3>1 DEF Waiting
  <2>2. CASE ~(OfPreviousPhase(t) /\ EndWait(t, "wait"))
    BY <1>4, <1>7, <2>2 DEF TryWait
  <2> QED BY <1>7, <2>1, <2>2 DEF TryWait
<1>8. ASSUME NEW t \in Task, Return(t) PROVE PhaseInv'
  <2>1. token[t] # m_phase
    BY <1>8 DEF Return, EndWait, Goto, TypeOK, LeavesEarly
  <2> QED BY <1>6, <1>8, <2>1 DEF Return, Waiting
<1>9. ASSUME NEW t \in Task, Rejoin(t) PROVE PhaseInv'
  BY <1>9, PhaseBack DEF Rejoin, Goto, Waiting
<1>10. ASSUME NEW t \in Task, FetchSub(t) PROVE PhaseInv'
  BY <1>10, PhaseLast, PhaseArrived
<1>11. ASSUME NEW t \in Task, Completion(t) \/ Reset(t) PROVE PhaseInv'
  BY <1>11, PhaseComplete
<1>12. ASSUME NEW t \in Task, AdvancePhase(t) PROVE PhaseInv'
  BY <1>12, PhaseNext
<1>13. ASSUME NEW t \in Task, ResumeAll(t) PROVE PhaseInv'
  BY <1>13, PhaseResumed
<1>14. ASSUME NEW t \in Task, Drop(t) \/ \E u \in Task : ArriveForTwo(t, u) PROVE PhaseInv'
  BY <1>14, PhaseDrop, PhaseForTwo
<1> QED BY <1>1, <1>2, <1>3, <1>5, <1>7, <1>8, <1>9, <1>10, <1>11, <1>12, <1>13, <1>14
        DEF Next, Step

-----------------------------------------------------------------------------
(* The waiters, whether or not a wait() has returned early. *)

(* Steps of running tasks outside the queues, the next phase included. *)
LEMMA SleepFrame ==
  ASSUME SleepInv, UNCHANGED wqVars,
         \A v \in Task : pc[v] = "resume_all" => pc'[v] = "resume_all",
         \A v \in Task : \/ pc'[v] = pc[v] /\ token'[v] = token[v]
                         \/ Running(v),
         m_phase' = m_phase \/ \E v \in Task : pc'[v] = "resume_all"
  PROVE  SleepInv'
<1>1. UNCHANGED <<m_waiters, m_waiters_mutex, susp, batch>>
  BY DEF wqVars
<1>2. \A v \in Task : susp[v] # "idle" => pc'[v] = pc[v] /\ token'[v] = token[v]
  BY DEF Running
<1>3. Sleepers'
  BY <1>1, <1>2 DEF SleepInv, Sleepers
<1>4. NoLostWakeup'
  BY <1>1, <1>2 DEF SleepInv, NoLostWakeup
<1> QED BY <1>3, <1>4 DEF SleepInv

(* The queue is taken, and nobody is between its second look and it. *)
LEMMA SleepSwap ==
  ASSUME WQInv, TypeOK, SleepInv, NEW t \in Task, ResumeAll(t)
  PROVE  SleepInv'
<1>0. Sleepers /\ NoLostWakeup
  BY DEF SleepInv
<1>1. /\ pc[t] = "resume_all" /\ Running(t) /\ SwapAll(t, "barrier") /\ "barrier" \in Queue
      /\ pc' = [pc EXCEPT ![t] = AfterArrive(t)]
  BY BarrierAssumption DEF ResumeAll, EndArrive, Goto
<1>2. /\ batch'[t] = m_waiters["barrier"] /\ Range(m_waiters'["barrier"]) = {}
      /\ \A q \in Queue : q # "barrier" => m_waiters'[q] = m_waiters[q]
      /\ \A v \in Task : v # t => batch'[v] = batch[v]
      /\ susp' = susp
  BY <1>1, SwapAllEffect
<1>3. m_waiters_mutex' = m_waiters_mutex /\ m_waiters_mutex["barrier"] = NoTask
  BY <1>1 DEF SwapAll
<1>4. \A v \in Task : v # t => pc'[v] = pc[v]
  BY <1>1 DEF TypeOK
<1>5. susp[t] = "idle" /\ batch[t] = <<>>
  BY <1>1 DEF Running
<1>6. Sleepers'
  BY <1>0, <1>2, <1>3, <1>4, <1>5 DEF Sleepers
<1>7. NoLostWakeup'
  <2> SUFFICES ASSUME NEW w \in Task, susp'[w] \in {"push", "parked"}
               PROVE  \E u \in Task : w \in Range(batch'[u])
    BY DEF NoLostWakeup
  <2>1. susp[w] = "parked"
    <3>1. \A q \in Queue : m_waiters_mutex[q] = NoTask
      BY <1>0, <1>3 DEF Sleepers
    <3> QED BY <1>2, <3>1, NoTaskAssumption DEF WQInv, PushingHoldsLock
  <2>2. \/ \E q \in Queue : w \in Range(m_waiters[q])
        \/ \E u \in Task : w \in Range(batch[u])
    BY <2>1 DEF WQInv, NodeLifetime, InSomeList
  <2>3. \A q \in Queue \ {"barrier"} : Range(m_waiters[q]) = {}
    BY <1>0, RangeEmpty DEF Sleepers
  <2>4. Range(batch[t]) = {}
    BY <1>5, RangeEmpty
  <2> QED BY <1>2, <2>2, <2>3, <2>4
<1> QED BY <1>6, <1>7 DEF SleepInv

(* One waiter is resumed. *)
LEMMA SleepResume ==
  ASSUME WQInv, TypeOK, SleepInv, NEW t \in Task, ResumeWaiter(t)
  PROVE  SleepInv'
<1>0. Sleepers /\ NoLostWakeup
  BY DEF SleepInv
<1>1. UNCHANGED <<pc, token, m_phase>> /\ ResumeNext(t)
  BY DEF ResumeWaiter, barVars, mVars
<1>2. PICK h \in Task :
           /\ h \in Range(batch[t]) /\ susp[h] = "parked" /\ susp'[h] = "idle"
           /\ Range(batch'[t]) = Range(batch[t]) \ {h}
           /\ \A v \in Task : v # t => batch'[v] = batch[v]
           /\ \A v \in Task : v # t => h \notin Range(batch[v])
           /\ \A v \in Task : v # h => susp'[v] = susp[v]
  BY <1>1, ResumeNextEffect
<1>3. UNCHANGED <<m_waiters, m_waiters_mutex>>
  BY <1>1 DEF ResumeNext
<1>4. Sleepers'
  BY <1>0, <1>1, <1>2, <1>3 DEF Sleepers
<1>5. NoLostWakeup'
  BY <1>0, <1>1, <1>2 DEF NoLostWakeup
<1> QED BY <1>4, <1>5 DEF SleepInv

(* What wait_if and its callback do to the waiter and to the others. *)
LEMMA WaitEffect ==
  ASSUME WQInv, TypeOK, SleepInv, NEW t \in Task,
         WaitIf(t) \/ RecheckPhase(t) \/ PushWaiter(t) \/ BounceBack(t)
  PROVE  /\ UNCHANGED <<token, m_phase, batch>> /\ pc'[t] = "return"
         /\ \A v \in Task : v # t => pc'[v] = pc[v] /\ susp'[v] = susp[v]
         /\ \A v \in Task : pc[v] = "resume_all" <=> pc'[v] = "resume_all"
         /\ \A q \in Queue \ {"barrier"} : /\ m_waiters'[q] = m_waiters[q]
                                          /\ m_waiters_mutex'[q] = m_waiters_mutex[q]
         /\ susp'[t] = "push" => token[t] = m_phase
         /\ susp'[t] = "parked" => susp[t] = "push"
         /\ \/ susp'[t] \notin {"idle", "bounce"}
            \/ token[t] # m_phase
            \/ pc[t] = "return" /\ susp[t] = "bounce"
<1>1. CASE WaitIf(t)
  BY <1>1 DEF WaitIf, Suspend, Goto, Running, TypeOK, WQTypeOK, mVars, wqVars
<1>2. CASE RecheckPhase(t)
  BY <1>2, BarrierAssumption DEF RecheckPhase, Recheck, TypeOK, WQTypeOK, barVars, mVars
<1>3. CASE PushWaiter(t)
  BY <1>3, BarrierAssumption DEF PushWaiter, Push, TypeOK, WQTypeOK, barVars, mVars
<1>4. CASE BounceBack(t)
  BY <1>4 DEF BounceBack, Bounce, TypeOK, WQTypeOK, barVars, mVars, SleepInv, Sleepers
<1> QED BY <1>1, <1>2, <1>3, <1>4

(* wait_if and its callback. *)
LEMMA SleepWait ==
  ASSUME WQInv, TypeOK, SleepInv, NEW t \in Task,
         WaitIf(t) \/ RecheckPhase(t) \/ PushWaiter(t) \/ BounceBack(t)
  PROVE  SleepInv'
<1>0. Sleepers /\ NoLostWakeup
  BY DEF SleepInv
<1>1. Sleepers'
  BY <1>0, WaitEffect DEF Sleepers
<1>2. NoLostWakeup'
  BY <1>0, WaitEffect DEF NoLostWakeup
<1> QED BY <1>1, <1>2 DEF SleepInv

(* What the other steps of a call do: they are of running tasks and only   *)
(* the next phase sends one to resume the waiters.                         *)
LEMMA OutsideEffect ==
  ASSUME TypeOK, NEW t \in Task,
         \/ LoadPhase(t) \/ FetchSub(t) \/ Completion(t) \/ Reset(t)
         \/ AdvancePhase(t) \/ Wait(t) \/ TryWait(t) \/ Return(t)
         \/ Arrive(t) \/ Rejoin(t) \/ Drop(t) \/ Peek(t)
         \/ \E u \in Task : ArriveForTwo(t, u)
  PROVE  /\ \A v \in Task : \/ pc'[v] = pc[v] /\ token'[v] = token[v]
                            \/ /\ Running(v) /\ pc[v] # "resume_all"
                               /\ pc'[v] # "return"
         /\ \/ /\ m_phase' = m_phase
               /\ \A v \in Task : pc'[v] = "resume_all" => pc[v] = "resume_all"
            \/ AdvancePhase(t) /\ pc'[t] = "resume_all"
<1>1. ASSUME NEW from, NEW to, Goto(t, from, to), from # "resume_all", to # "return",
             \A v \in Task : v # t => token'[v] = token[v]
      PROVE  /\ \A v \in Task : \/ pc'[v] = pc[v] /\ token'[v] = token[v]
                                \/ /\ Running(v) /\ pc[v] # "resume_all"
                                   /\ pc'[v] # "return"
             /\ pc'[t] = to /\ \A v \in Task : v # t => pc'[v] = pc[v]
  BY <1>1 DEF Goto, TypeOK
<1>2. CASE LoadPhase(t) \/ Completion(t) \/ Reset(t) \/ Wait(t) \/ Rejoin(t)
  <2>1. m_phase' = m_phase /\ \A v \in Task : v # t => token'[v] = token[v]
    BY <1>2 DEF LoadPhase, Completion, Reset, Wait, Rejoin, TypeOK, mVars
  <2> QED BY <1>1, <1>2, <2>1 DEF LoadPhase, Completion, Reset, Wait, Rejoin
<1>3. ASSUME NEW from, EndWait(t, from), from # "resume_all"
      PROVE  /\ Goto(t, from, "out") /\ m_phase' = m_phase
             /\ \A v \in Task : v # t => token'[v] = token[v]
  BY <1>3 DEF EndWait, TypeOK, mVars
<1>4. CASE Return(t)
  BY <1>1, <1>3, <1>4 DEF Return
<1>5. CASE TryWait(t)
  <2>1. CASE EndWait(t, "wait")
    BY <1>1, <1>3, <2>1
  <2>2. CASE Goto(t, "wait", "wait_if") /\ UNCHANGED <<mVars, token>>
    BY <1>1, <2>2 DEF mVars
  <2> QED BY <1>5, <2>1, <2>2 DEF TryWait
<1>6. CASE FetchSub(t)
  <2>1. AfterArrive(t) \notin {"return", "resume_all"}
    BY DEF AfterArrive
  <2>2. m_phase' = m_phase
    BY <1>6 DEF FetchSub, FetchSubThen
  <2>3. \/ Goto(t, "fetch_sub", "completion") /\ token' = token
        \/ /\ Goto(t, "fetch_sub", AfterArrive(t))
           /\ \A v \in Task : v # t => token'[v] = token[v]
    BY <1>6 DEF FetchSub, FetchSubThen, EndArrive, TypeOK
  <2> QED BY <1>1, <2>1, <2>2, <2>3
<1>7. CASE AdvancePhase(t)
  BY <1>1, <1>7 DEF AdvancePhase
<1>8. CASE Arrive(t) \/ Peek(t) \/ Drop(t)
  <2>1. /\ pc[t] \in {"out", "peeked"} /\ Running(t) /\ pc' = [pc EXCEPT ![t] = "arrive"]
        /\ UNCHANGED <<m_phase, token>>
    BY <1>8 DEF Arrive, Peek, Drop, CallArrive, mVars
  <2> QED BY <2>1 DEF TypeOK
<1>9. ASSUME NEW u \in Task, ArriveForTwo(t, u)
      PROVE  /\ \A v \in Task : \/ pc'[v] = pc[v] /\ token'[v] = token[v]
                                \/ /\ Running(v) /\ pc[v] # "resume_all"
                                   /\ pc'[v] # "return"
             /\ m_phase' = m_phase
             /\ \A v \in Task : pc'[v] = "resume_all" => pc[v] = "resume_all"
  <2>1. /\ pc[t] = "out" /\ Running(t) /\ pc[u] = "out" /\ Running(u) /\ t # u
        /\ pc' = [pc EXCEPT ![t] = "arrive", ![u] = "covered"]
        /\ token' = [token EXCEPT ![u] = m_phase] /\ m_phase' = m_phase
    BY <1>9 DEF ArriveForTwo, CallArrive, mVars
  <2>2. /\ pc'[t] = "arrive" /\ pc'[u] = "covered" /\ token'[t] = token[t]
        /\ \A v \in Task : v \notin {t, u} => pc'[v] = pc[v] /\ token'[v] = token[v]
    BY <2>1 DEF TypeOK
  <2> QED BY <2>1, <2>2
<1> QED BY <1>2, <1>4, <1>5, <1>6, <1>7, <1>8, <1>9

(* Every step. *)
LEMMA NextSleepInv ==
  ASSUME WQInv, TypeOK, SleepInv, [Next]_vars
  PROVE  SleepInv'
<1>1. ASSUME NEW t \in Task,
             \/ LoadPhase(t) \/ FetchSub(t) \/ Completion(t) \/ Reset(t)
             \/ AdvancePhase(t) \/ Wait(t) \/ TryWait(t) \/ Return(t)
             \/ Arrive(t) \/ Rejoin(t) \/ Drop(t) \/ Peek(t)
             \/ \E u \in Task : ArriveForTwo(t, u)
      PROVE  SleepInv'
  <2>1. UNCHANGED wqVars
    BY <1>1, OutsideQueue
  <2>2. /\ \A v \in Task : \/ pc'[v] = pc[v] /\ token'[v] = token[v]
                           \/ Running(v) /\ pc[v] # "resume_all"
        /\ m_phase' = m_phase \/ \E v \in Task : pc'[v] = "resume_all"
    BY <1>1, OutsideEffect
  <2> QED BY <2>1, <2>2, SleepFrame
<1>2. CASE UNCHANGED vars
  BY <1>2, SleepFrame DEF vars, barVars, mVars, wqVars
<1> QED BY <1>1, <1>2, SleepSwap, SleepResume, SleepWait DEF Next, Step

-----------------------------------------------------------------------------
(* The overlapped waiters. *)

(* What a step does to the history variables. *)
LEMMA History ==
  ASSUME MCTypeOK, MCNext
  PROVE  /\ MCTypeOK'
         /\ ~early' => ~early /\ \A t \in Task : ~LeavesEarly(t)
         /\ \A t \in Task : susp[t] # "push" /\ pc'[t] = "return"
                              => overlapped'[t] = overlapped[t]
         /\ \A t \in Task : susp[t] = "push" /\ susp'[t] = "parked"
              => (overlapped'[t] <=> \E u \in Task : pc[u] = "resume_all")
         /\ \A t \in Task : susp'[t] # "parked" /\ pc'[t] = "return"
                              => overlapped'[t] = overlapped[t]
BY DEF MCNext, MCTypeOK

(* The steps that leave the wait queue alone. *)
LEMMA OverlapFrame ==
  ASSUME MCTypeOK, MCNext, Overlaps, UNCHANGED <<m_phase, wqVars>>,
         \A v \in Task : \/ pc'[v] = pc[v] /\ token'[v] = token[v]
                         \/ pc'[v] # "return",
         \A v \in Task : pc'[v] = "resume_all" => pc[v] = "resume_all"
  PROVE  Overlaps'
<1>1. UNCHANGED <<m_phase, susp, batch>>
  BY DEF wqVars
<1>2. \A t \in Task : pc'[t] = "return" => overlapped'[t] = overlapped[t]
  BY <1>1, History
<1> QED BY <1>1, <1>2 DEF Overlaps, KeptAsleep

(* The next phase: all that wait do so for the one before. *)
LEMMA OverlapAdvance ==
  ASSUME TypeOK, PhaseInv, NEW t \in Task, AdvancePhase(t)
  PROVE  Overlaps'
<1>0. Places /\ AllArrived
  BY DEF PhaseInv
<1>1. /\ token' = token /\ pc[t] = "phase" /\ pc' = [pc EXCEPT ![t] = "resume_all"]
      /\ m_phase' = NextPhase(token[t])
  BY DEF AdvancePhase, Goto, NextPhase
<1>2. Completing(t) /\ token[t] = m_phase
  BY <1>0, <1>1 DEF Completing, Places, Place
<1>3. m_phase' # m_phase
  BY <1>1, <1>2, PhaseAdvances DEF TypeOK
<1>4. \A u \in Task : pc[u] = "return" => token[u] = m_phase
  BY <1>0, <1>2, AllArrivedMeans DEF HasArrived, Completing
<1>5. \A u \in Task : pc'[u] = "return" => pc[u] = "return"
  BY <1>1 DEF TypeOK
<1> QED BY <1>1, <1>3, <1>4, <1>5 DEF Overlaps, KeptAsleep

(* The queue is taken: none of those in it is kept asleep. *)
LEMMA OverlapSwap ==
  ASSUME TypeOK, MCTypeOK, MCNext, Overlaps, NEW t \in Task, ResumeAll(t)
  PROVE  Overlaps'
<1>1. /\ pc[t] = "resume_all" /\ SwapAll(t, "barrier") /\ m_phase' = m_phase
      /\ pc' = [pc EXCEPT ![t] = AfterArrive(t)] /\ susp' = susp
      /\ token' = IF AfterArrive(t) = "arrived" THEN token
                                                ELSE [token EXCEPT ![t] = 0]
  BY DEF ResumeAll, EndArrive, Goto, mVars, SwapAll
<1>2. /\ pc'[t] # "return"
      /\ \A v \in Task : v # t => pc'[v] = pc[v] /\ token'[v] = token[v]
  BY <1>1 DEF TypeOK, AfterArrive
<1>3. \A v \in Task : pc'[v] = "return" => overlapped'[v] = overlapped[v]
  BY <1>1, History
<1> QED BY <1>1, <1>2, <1>3 DEF Overlaps, KeptAsleep

(* One waiter is resumed. *)
LEMMA OverlapResume ==
  ASSUME WQInv, TypeOK, MCTypeOK, MCNext, Overlaps, NEW t \in Task, ResumeWaiter(t)
  PROVE  Overlaps'
<1>1. UNCHANGED <<pc, token, m_phase>> /\ ResumeNext(t)
  BY DEF ResumeWaiter, barVars, mVars
<1>2. PICK h \in Task :
           /\ h \in Range(batch[t]) /\ susp[h] = "parked" /\ susp'[h] = "idle"
           /\ Range(batch'[t]) = Range(batch[t]) \ {h}
           /\ \A v \in Task : v # t => batch'[v] = batch[v]
           /\ \A v \in Task : v # t => h \notin Range(batch[v])
           /\ \A v \in Task : v # h => susp'[v] = susp[v]
  BY <1>1, ResumeNextEffect
<1>3. \A v \in Task : pc'[v] = "return" => overlapped'[v] = overlapped[v]
  <2>1. \A v \in Task : susp[v] = "push" => susp'[v] # "parked"
    BY <1>2
  <2> QED BY <2>1, History
<1>4. \A u \in Task : Range(batch'[u]) \subseteq Range(batch[u])
  BY <1>2
<1>5. KeptAsleep(h)'
  BY <1>1, <1>2, <1>3 DEF Overlaps, KeptAsleep
<1>6. \A v \in Task : v # h => KeptAsleep(v)'
  BY <1>1, <1>2, <1>3, <1>4 DEF Overlaps, KeptAsleep
<1> QED BY <1>5, <1>6 DEF Overlaps

(* wait_if and its callback: whoever joins the queue while nobody is about *)
(* to take it is kept.                                                     *)
LEMMA OverlapWait ==
  ASSUME WQInv, TypeOK, MCTypeOK, SleepInv, MCNext, Overlaps, NEW t \in Task,
         WaitIf(t) \/ RecheckPhase(t) \/ PushWaiter(t) \/ BounceBack(t)
  PROVE  Overlaps'
<1>1. /\ UNCHANGED <<token, m_phase, batch>> /\ pc'[t] = "return"
      /\ \A v \in Task : v # t => pc'[v] = pc[v] /\ susp'[v] = susp[v]
      /\ \A v \in Task : pc[v] = "resume_all" <=> pc'[v] = "resume_all"
      /\ susp'[t] = "parked" => susp[t] = "push"
      /\ \/ susp'[t] \notin {"idle", "bounce"}
         \/ token[t] # m_phase
         \/ pc[t] = "return" /\ susp[t] = "bounce"
  BY WaitEffect
<1>2. susp[t] = "push" => \A u \in Task : t \notin Range(batch[u])
  BY DEF WQInv, NodeLifetime, InSomeList
<1>3. ASSUME NEW v \in Task, v # t PROVE KeptAsleep(v)'
  <2>1. pc'[v] = "return" => overlapped'[v] = overlapped[v]
    BY <1>1, <1>3, History
  <2> QED BY <1>1, <1>3, <2>1 DEF Overlaps, KeptAsleep
<1>4. KeptAsleep(t)'
  <2>1. CASE susp'[t] = "parked"
    BY <1>1, <1>2, <2>1, History DEF KeptAsleep
  <2>2. CASE susp'[t] # "parked"
    BY <1>1, <2>2, History DEF Overlaps, KeptAsleep
  <2> QED BY <2>1, <2>2
<1> QED BY <1>3, <1>4 DEF Overlaps

(* Every step. *)
LEMMA NextOverlaps ==
  ASSUME AlwaysInv, PhaseInv, Overlaps, MCNext
  PROVE  Overlaps'
<1>0. WQInv /\ TypeOK /\ MCTypeOK /\ SleepInv /\ Next
  BY DEF AlwaysInv, MCNext
<1>1. ASSUME NEW t \in Task,
             \/ LoadPhase(t) \/ FetchSub(t) \/ Completion(t) \/ Reset(t)
             \/ AdvancePhase(t) \/ Wait(t) \/ TryWait(t) \/ Return(t)
             \/ Arrive(t) \/ Rejoin(t) \/ Drop(t) \/ Peek(t)
             \/ \E u \in Task : ArriveForTwo(t, u)
      PROVE  Overlaps'
  <2>1. UNCHANGED wqVars
    BY <1>1, OutsideQueue
  <2>2. /\ \A v \in Task : \/ pc'[v] = pc[v] /\ token'[v] = token[v]
                           \/ pc'[v] # "return"
        /\ \/ /\ m_phase' = m_phase
              /\ \A v \in Task : pc'[v] = "resume_all" => pc[v] = "resume_all"
           \/ AdvancePhase(t)
    BY <1>0, <1>1, OutsideEffect
  <2> QED BY <1>0, <2>1, <2>2, OverlapFrame, OverlapAdvance
<1> QED BY <1>0, <1>1, OverlapSwap, OverlapResume, OverlapWait DEF Next, Step

-----------------------------------------------------------------------------
(* The theorems. *)

(* The conjunction is inductive, in every interleaving of the phases.  The *)
(* part about the counts holds until a wait() returns early, which wait()  *)
(* does not prevent (barrier.hpp:144-188).                                 *)
THEOREM BarrierInvariant == MCSpec => []BarrierInv
<1>1. MCInit => BarrierInv
  BY InitInv
<1>2. ASSUME BarrierInv, MCNext PROVE BarrierInv'
  <2>0. WQInv /\ TypeOK /\ MCTypeOK /\ SleepInv /\ AlwaysInv /\ [Next]_vars
    BY <1>2 DEF BarrierInv, AlwaysInv, MCNext
  <2>1. WQInv' /\ SleepInv'
    BY <2>0, NextWQInv, NextSleepInv
  <2>2. TypeOK' /\ MCTypeOK'
    BY <1>2, <2>0, <2>1, NextTypeOK, History DEF WQInv
  <2>3. ASSUME ~early' PROVE PhaseInv' /\ Overlaps'
    <3>1. ~early /\ \A t \in Task : ~LeavesEarly(t)
      BY <1>2, <2>0, <2>3, History
    <3>2. PhaseInv /\ Overlaps
      BY <1>2, <3>1 DEF BarrierInv
    <3> QED BY <1>2, <2>0, <3>1, <3>2, NextPhaseInv, NextOverlaps
  <2> QED BY <2>1, <2>2, <2>3 DEF BarrierInv, AlwaysInv
<1>3. ASSUME BarrierInv, UNCHANGED mcVars PROVE BarrierInv'
  <2>0. WQInv /\ TypeOK /\ MCTypeOK /\ SleepInv /\ UNCHANGED vars
    BY <1>3 DEF BarrierInv, AlwaysInv, mcVars
  <2>1. WQInv' /\ SleepInv' /\ TypeOK'
    BY <2>0, NextWQInv, NextSleepInv, NextTypeOK DEF WQInv
  <2>2. UNCHANGED <<early, overlapped, pc, token, m_phase, susp, batch>> /\ UNCHANGED barVars
    BY <1>3 DEF mcVars, vars, barVars, mVars
  <2>3. ASSUME ~early' PROVE PhaseInv' /\ Overlaps'
    <3>1. PhaseInv /\ Overlaps
      BY <1>3, <2>2, <2>3 DEF BarrierInv
    <3>2. PhaseInv'
      BY <2>0, <2>2, <3>1, PhaseFrame
    <3>3. Overlaps'
      BY <2>2, <3>1 DEF Overlaps, KeptAsleep
    <3> QED BY <3>2, <3>3
  <2> QED BY <2>0, <2>1, <2>2, <2>3 DEF BarrierInv, AlwaysInv, MCTypeOK
<1> QED BY <1>1, <1>2, <1>3, PTL DEF MCSpec

(* Every variable keeps its type; only the phase is bounded by it, for a   *)
(* task that was let go early takes more from the count than was expected  *)
(* (barrier.hpp:132-169).                                                  *)
THEOREM BarrierTypeOK == MCSpec => []TypeOK
<1>1. BarrierInv => TypeOK
  BY DEF BarrierInv, AlwaysInv
<1> QED BY <1>1, BarrierInvariant, PTL

(* Nobody sleeps in a phase that is over unless it is about to be resumed, *)
(* in every interleaving (barrier.hpp:164-169, 184-187).                   *)
THEOREM BarrierNoLostWakeup == MCSpec => []NoLostWakeup
<1>1. BarrierInv => NoLostWakeup
  BY DEF BarrierInv, AlwaysInv, SleepInv
<1> QED BY <1>1, BarrierInvariant, PTL

(* One task at a time runs the completion function, until a wait() returns *)
(* early (barrier.hpp:152-169).                                            *)
THEOREM BarrierCompletedByOne == MCSpec => []CompletedByOne
<1>1. BarrierInv => CompletedByOne
  BY DEF BarrierInv, PhaseInv, CompletedByOne
<1> QED BY <1>1, BarrierInvariant, PTL

(* It runs when every participant has arrived or dropped out, and not      *)
(* before, until a wait() returns early (barrier.hpp:74-78, 152-169).      *)
THEOREM BarrierCompletedByAll == MCSpec => []CompletedByAll
<1>1. BarrierInv => CompletedByAll
  BY DEF BarrierInv, PhaseInv, CompletedByAll
<1> QED BY <1>1, BarrierInvariant, PTL

(* The first waiter let go before its phase is over was queued between the *)
(* store of that phase and the resume_all() after it, and in no other way  *)
(* (barrier.hpp:82-86, 163-166, 184-187).                                  *)
THEOREM BarrierEarlyOnlyIfOverlapped == MCSpec => []EarlyOnlyIfOverlapped
<1>1. BarrierInv => EarlyOnlyIfOverlapped
  BY DEF BarrierInv, Overlaps, KeptAsleep, EarlyOnlyIfOverlapped
<1> QED BY <1>1, BarrierInvariant, PTL
=============================================================================
