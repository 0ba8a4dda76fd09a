------------------------------- MODULE MCBarrier -------------------------------
(***************************************************************************)
(* Instances of Barrier for TLC and for the proofs, with two history       *)
(* variables: whether some wait() has returned before its phase was over,  *)
(* after which its task arrives at that phase a second time and the counts *)
(* mean nothing any more; and who joined the queue while the task that     *)
(* completed an earlier phase had still to take it.                        *)
(***************************************************************************)
EXTENDS Barrier

VARIABLES early,        \* a wait() has returned in the phase of its token
          overlapped    \* task -> it was queued before an earlier phase's
                        \* resume_all()

mcVars == <<vars, early, overlapped>>

(* t leaves wait() in this step, the phase of its token not being over. *)
LeavesEarly(t) == pc[t] = "return" /\ pc'[t] = "out" /\ token[t] = m_phase

MCInit == Init /\ early = FALSE /\ overlapped = [t \in Task |-> FALSE]
MCNext ==
    /\ Next
    /\ early' = (early \/ \E t \in Task : LeavesEarly(t))
    /\ overlapped' = [t \in Task |->
                        IF susp[t] = "push" /\ susp'[t] = "parked"
                          THEN \E u \in Task : pc[u] = "resume_all"
                          ELSE overlapped[t] /\ pc'[t] # "out"]
MCSpec == MCInit /\ [][MCNext]_mcVars

(* The bound of the run: TLC does not go on where a wait() has returned    *)
(* early.  The theorems are about MCSpec, which does.                      *)
UntilEarly == MCInit /\ [][~early /\ MCNext]_mcVars
UntilEarlyFair == UntilEarly /\ \A t \in Task : WF_vars(~early /\ Step(t))

-----------------------------------------------------------------------------
(* One task at a time completes a phase, as long as no wait() has returned *)
(* early (barrier.hpp:152-169).                                            *)
CompletedByOne == ~early => OneCompletion

(* The completion function runs when every participant has arrived or      *)
(* dropped out, as long as no wait() has returned early                    *)
(* (barrier.hpp:74-78, 152-169).                                           *)
CompletedByAll == ~early => AllArrived

(* A waiter is let go in the phase of its token only if it was queued      *)
(* between the store of that phase and the resume_all() that follows it:   *)
(* in every other interleaving, though wait() does not look again once     *)
(* resumed, it returns after the phase (barrier.hpp:82-86, 163-166,        *)
(* 184-187).                                                               *)
EarlyOnlyIfOverlapped ==
    ~early => \A t \in Task :
                /\ pc[t] = "return" /\ susp[t] \in {"idle", "bounce"}
                /\ token[t] = m_phase
                => overlapped[t]

(* wait(token) eventually returns (barrier.hpp:82-86), as long as no       *)
(* wait() has returned early.                                              *)
WaitersReturn == \A t \in Task :
    pc[t] \in {"wait", "wait_if", "return"} ~> pc[t] = "out" \/ early
=============================================================================
