-------------------------------- MODULE Barrier --------------------------------
(***************************************************************************)
(* coopsync_tbb::barrier: a counter of the arrivals still expected, a      *)
(* phase number of one byte and a wait queue.  The last arrival of a phase *)
(* runs the completion function, refills the counter, advances the phase   *)
(* and then resumes all waiters.  wait() is not a loop.                    *)
(*                                                                         *)
(* The clients arrive once per phase, each for itself (update is 1) or one *)
(* for another too (update is 2), wait for the phase with the token they   *)
(* got, and may drop out.  Whoever has still to arrive may ask for a token *)
(* first and not be counted (update is 0).                                 *)
(*                                                                         *)
(* pc[t]:                                                                  *)
(*   "out"         in no call, no token in hand                            *)
(*   "arrive"      arrive(), before it loads the phase                     *)
(*   "fetch_sub"   arrive(), the phase is loaded                           *)
(*   "completion"  arrive() of the last arrival, in m_completion()         *)
(*   "reset"       same, before m_expected.store                           *)
(*   "phase"       same, before m_phase.store                              *)
(*   "resume_all"  same, before m_waiters.resume_all()                     *)
(*   "arrived"     in no call, with a token                                *)
(*   "wait"        wait(token), before its fast path                       *)
(*   "wait_if"     wait(token), wait_if is called                          *)
(*   "return"      wait(token), inside or after the suspension             *)
(*   "peeked"      in no call, after arrive(0): it arrives next            *)
(*   "covered"     in no call, another task arrived for it in this phase   *)
(*   "dropped"     a participant no more                                   *)
(***************************************************************************)
EXTENDS WaitQueue, Integers

CONSTANT PhaseModulus   \* values of token_base_t, 256

ASSUME BarrierAssumption == /\ IsFiniteSet(Task)
                            /\ PhaseModulus \in Nat \ {0, 1}
                            /\ "barrier" \in Queue

VARIABLES m_expected, m_initial_expected, m_phase,
          pc,
          token,           \* task -> the phase of its token or of its arrive()
          update,          \* task -> the argument of its arrive()
          next_expected,   \* task -> local of its arrive()
          dropping         \* task -> its arrive() is part of arrive_and_drop()

mVars == <<m_expected, m_initial_expected, m_phase>>
barVars == <<mVars, pc, token, update, next_expected, dropping>>
vars == <<barVars, m_waiters, m_waiters_mutex, susp, batch>>

PC == {"out", "arrive", "fetch_sub", "completion", "reset", "phase",
       "resume_all", "arrived", "wait", "wait_if", "return", "peeked",
       "covered", "dropped"}
Phase == 0..(PhaseModulus - 1)
Participants == Cardinality(Task)

TypeOK == /\ WQTypeOK
          /\ m_expected \in Int
          /\ m_initial_expected \in Int
          /\ m_phase \in Phase
          /\ pc \in [Task -> PC]
          /\ token \in [Task -> Phase]
          /\ update \in [Task -> 0..2]
          /\ next_expected \in [Task -> Int]
          /\ dropping \in [Task -> BOOLEAN]

Init == /\ WQInit
        /\ m_expected = Participants
        /\ m_initial_expected = Participants
        /\ m_phase = 0
        /\ pc = [t \in Task |-> "out"]
        /\ token = [t \in Task |-> 0]
        /\ update = [t \in Task |-> 0]
        /\ next_expected = [t \in Task |-> 0]
        /\ dropping = [t \in Task |-> FALSE]

Goto(t, from, to) == pc[t] = from /\ Running(t) /\ pc' = [pc EXCEPT ![t] = to]

-----------------------------------------------------------------------------
(* arrive(update), and arrive_and_drop() around it.  A client drops the    *)
(* token of arrive(0), and arrive_and_drop() its own.                      *)
AfterArrive(t) == IF dropping[t] THEN "dropped"
                  ELSE IF update[t] = 0 THEN "peeked" ELSE "arrived"
EndArrive(t, from) ==
    /\ Goto(t, from, AfterArrive(t))
    /\ token' = IF AfterArrive(t) = "arrived" THEN token
                                              ELSE [token EXCEPT ![t] = 0]
    /\ update' = [update EXCEPT ![t] = 0]

(* The call, on behalf of n participants. *)
CallArrive(t, from, n) ==
    /\ pc[t] = from /\ Running(t)
    /\ update' = [update EXCEPT ![t] = n]

Arrive(t) == /\ CallArrive(t, "out", 1) \/ CallArrive(t, "peeked", 1)
             /\ pc' = [pc EXCEPT ![t] = "arrive"]
             /\ UNCHANGED <<mVars, token, next_expected, dropping, wqVars>>
Peek(t) == /\ CallArrive(t, "out", 0)
           /\ pc' = [pc EXCEPT ![t] = "arrive"]
           /\ UNCHANGED <<mVars, token, next_expected, dropping, wqVars>>
ArriveForTwo(t, u) ==
    /\ CallArrive(t, "out", 2)
    /\ t # u /\ pc[u] = "out" /\ Running(u)
    /\ pc' = [pc EXCEPT ![t] = "arrive", ![u] = "covered"]
    /\ token' = [token EXCEPT ![u] = m_phase]
    /\ UNCHANGED <<mVars, next_expected, dropping, wqVars>>
(* The next phase is for the covered participant to arrive at again. *)
Rejoin(u) == /\ m_phase # token[u]
             /\ Goto(u, "covered", "out")
             /\ token' = [token EXCEPT ![u] = 0]
             /\ UNCHANGED <<mVars, update, next_expected, dropping, wqVars>>

(* A mistaken variant: the current count is lowered here as well. *)
Drop_Twice(t) == /\ CallArrive(t, "out", 1)
                 /\ pc' = [pc EXCEPT ![t] = "arrive"]
                 /\ m_initial_expected' = m_initial_expected - 1
                 /\ m_expected' = m_expected - 1
                 /\ dropping' = [dropping EXCEPT ![t] = TRUE]
                 /\ UNCHANGED <<m_phase, token, next_expected, wqVars>>
(* arrive_and_drop() first lowers the count of the phases to come. *)
Drop(t) == /\ CallArrive(t, "out", 1)
           /\ pc' = [pc EXCEPT ![t] = "arrive"]
           /\ m_initial_expected' = m_initial_expected - 1
           /\ dropping' = [dropping EXCEPT ![t] = TRUE]
           /\ UNCHANGED <<m_expected, m_phase, token, next_expected, wqVars>>
LoadPhase(t) == /\ Goto(t, "arrive", "fetch_sub")
                /\ token' = [token EXCEPT ![t] = m_phase]
                /\ UNCHANGED <<mVars, update, next_expected, dropping, wqVars>>
(* The last arrival of the phase goes on to complete it. *)
FetchSubThen(t, last) ==
    /\ m_expected' = m_expected - update[t]
    /\ \/ last /\ Goto(t, "fetch_sub", "completion") /\ UNCHANGED <<token, update>>
       \/ ~last /\ EndArrive(t, "fetch_sub")
    /\ UNCHANGED <<m_initial_expected, m_phase, next_expected, dropping, wqVars>>
(* A mistaken variant: an arrival that leaves one is the last. *)
FetchSub_OffByOne(t) == FetchSubThen(t, m_expected <= update[t] + 1)
(* A mistaken variant: the count is compared with one arrival. *)
FetchSub_One(t) == FetchSubThen(t, m_expected = 1)
FetchSub(t) == FetchSubThen(t, m_expected = update[t])
(* m_completion() returns, and m_initial_expected is loaded. *)
Completion(t) == /\ Goto(t, "completion", "reset")
                 /\ next_expected' = [next_expected EXCEPT ![t] = m_initial_expected]
                 /\ UNCHANGED <<mVars, token, update, dropping, wqVars>>
Reset(t) == /\ Goto(t, "reset", "phase")
            /\ m_expected' = next_expected[t]
            /\ next_expected' = [next_expected EXCEPT ![t] = 0]
            /\ UNCHANGED <<m_initial_expected, m_phase, token, update, dropping,
                           wqVars>>
(* A mistaken variant: the phase is not advanced before the waiters go. *)
AdvancePhase_Forgotten(t) == /\ Goto(t, "phase", "resume_all")
                             /\ UNCHANGED <<mVars, token, update, next_expected, dropping,
                                            wqVars>>
AdvancePhase(t) == /\ Goto(t, "phase", "resume_all")
                   /\ m_phase' = (token[t] + 1) % PhaseModulus
                   /\ UNCHANGED <<m_expected, m_initial_expected, token, update,
                                  next_expected, dropping, wqVars>>
ResumeAll(t) == /\ EndArrive(t, "resume_all")
                /\ SwapAll(t, "barrier")
                /\ UNCHANGED <<mVars, next_expected, dropping>>
ResumeWaiter(t) == ResumeNext(t) /\ UNCHANGED barVars

-----------------------------------------------------------------------------
(* wait(token) *)
Wait(t) == /\ Goto(t, "arrived", "wait")
           /\ UNCHANGED <<mVars, token, update, next_expected, dropping, wqVars>>

(* previous_phase is an int: one less than phase 0 is -1, which no token   *)
(* equals, and not the last value of a byte.                               *)
OfPreviousPhase(t) == token[t] + 1 = m_phase
EndWait(t, from) == /\ Goto(t, from, "out")
                    /\ token' = [token EXCEPT ![t] = 0]
                    /\ UNCHANGED <<mVars, update, next_expected, dropping, wqVars>>
TryWait(t) ==
    \/ OfPreviousPhase(t) /\ EndWait(t, "wait")
    \/ /\ ~OfPreviousPhase(t) /\ Goto(t, "wait", "wait_if")
       /\ UNCHANGED <<mVars, token, update, next_expected, dropping, wqVars>>
WaitIf(t) == /\ Goto(t, "wait_if", "return")
             /\ \/ m_phase = token[t] /\ Suspend(t)
                \/ m_phase # token[t] /\ UNCHANGED wqVars
             /\ UNCHANGED <<mVars, token, update, next_expected, dropping>>
RecheckPhase(t) == /\ pc[t] = "return"
                   /\ Recheck(t, "barrier", m_phase = token[t])
                   /\ UNCHANGED barVars
PushWaiter(t) == pc[t] = "return" /\ Push(t, "barrier") /\ UNCHANGED barVars
BounceBack(t) == Bounce(t) /\ UNCHANGED barVars
Return(t) == EndWait(t, "return")

-----------------------------------------------------------------------------
(* A client always waits with its token, and comes to every phase. *)
Step(t) == \/ LoadPhase(t) \/ FetchSub(t) \/ Completion(t) \/ Reset(t)
           \/ AdvancePhase(t) \/ ResumeAll(t) \/ ResumeWaiter(t)
           \/ Wait(t) \/ TryWait(t) \/ WaitIf(t) \/ RecheckPhase(t)
           \/ PushWaiter(t) \/ BounceBack(t) \/ Return(t)
           \/ Arrive(t) \/ Rejoin(t)

Next == \E t \in Task : \/ Step(t) \/ Drop(t) \/ Peek(t)
                        \/ \E u \in Task : ArriveForTwo(t, u)

Spec == Init /\ [][Next]_vars
FairSpec == Spec /\ \A t \in Task : WF_vars(Step(t))

-----------------------------------------------------------------------------
(* The completion function runs when the count reaches zero: by one task,  *)
(* and until it has advanced the phase nobody completes anything else      *)
(* (barrier.hpp:74-78, 152-169).                                           *)
Completing(t) == pc[t] \in {"completion", "reset", "phase"}
OneCompletion == \A t, u \in Task : Completing(t) /\ Completing(u) => t = u

(* The phase completes with the arrival of every participant and with no   *)
(* fewer: the completion function sees all of them arrived or dropped out, *)
(* if need be with the waiters of an earlier phase still to resume         *)
(* (barrier.hpp:152-169, 195-201).                                         *)
AllArrived ==
    (\E t \in Task : Completing(t)) =>
      \A t \in Task : \/ pc[t] = "dropped"
                      \/ pc[t] = "resume_all" /\ dropping[t]
                      \/ Completing(t)
                      \/ /\ pc[t] \in {"arrived", "wait", "wait_if", "return",
                                    "covered"}
                         /\ token[t] = m_phase

(* barrier.hpp:164-169, 184-187: the phase advances before the queue is    *)
(* taken, so whoever sleeps, or is about to, in a phase that is over is in *)
(* the hands of a task that will resume it.                                *)
NoLostWakeup ==
    \A t \in Task : susp[t] \in {"push", "parked"} /\ m_phase # token[t]
      => \E u \in Task : pc[u] = "resume_all" \/ t \in Range(batch[u])

(* barrier.hpp:82-86: "the task is suspended until the phase is complete". *)
NoEarlyReturn ==
    \A t \in Task : pc[t] = "return" /\ susp[t] \in {"idle", "bounce"}
                      => m_phase # token[t]
=============================================================================
