-------------------------------- MODULE Future ---------------------------------
(***************************************************************************)
(* coopsync_tbb::promise, future and shared_future.  A shared state holds  *)
(* a status, a value or an exception, and a wait queue; a promise and its  *)
(* futures refer to it.  Several tasks may race to settle one state, and   *)
(* get(), wait() and the end of the promise may come at any moment.        *)
(*                                                                         *)
(* A task has one future or shared_future object of its own, future[t],    *)
(* shared[t] saying which; promises are objects of nobody in particular.   *)
(* The specialisations for a value type, a reference and void differ in    *)
(* how they store and what get() takes away: kind is "T", "T&" or "void".  *)
(*                                                                         *)
(* pc[t]:                                                                  *)
(*   "out"                in no call                                       *)
(*   "emplace"            set_value, the state is in transition            *)
(*   "store_exception"    set_exception, the state is in transition        *)
(*   "publish_value", "publish_exception"                                  *)
(*                        the result is stored, the status is not          *)
(*   "resume_all"         set_*, the state is ready                        *)
(*   "break"              ~promise, the state is broken                    *)
(*   "wait"               wait() or get(), about to call wait_if           *)
(*   "ready"              wait() or get(), inside or after wait_if         *)
(* using[t], arg[t]: the promise of the call, and the value being set.     *)
(* getting[t]: the wait() is part of get().                                *)
(***************************************************************************)
EXTENDS WaitQueue

CONSTANTS State, Promise, Value, NoState, NoPromise, NoValue

ASSUME FutureAssumption ==
    /\ Queue = State
    /\ NoState \notin State /\ NoPromise \notin Promise
    /\ Value \cap {"pending", "moved", "exception", "broken", "void"} = {}
    /\ NoValue \notin Value \cup {"moved"}

VARIABLES state, value, exception, future_obtained,   \* of each shared state
          promise,            \* promise -> its m_state
          future, shared,     \* task -> the m_state and the class of its future
          kind,
          pc, using, arg, getting

cellVars == <<state, value, exception, future_obtained>>
handleVars == <<promise, future, shared, kind>>
localVars == <<pc, using, arg, getting>>
vars == <<state, value, exception, future_obtained, promise, future, shared,
          kind, pc, using, arg, getting,
          m_waiters, m_waiters_mutex, susp, batch>>

Status == {"empty", "value", "exception", "broken", "transition"}
Setting == {"emplace", "store_exception", "publish_value", "publish_exception"}
PC == {"out", "resume_all", "break", "wait", "ready"} \cup Setting

Mine(t) == promise[using[t]]   \* the shared state that t is settling

(* A state is in transition exactly while one task is storing its result. *)
OneSetter ==
    /\ \A t \in Task : using[t] # NoPromise <=>
         pc[t] \in Setting \cup {"resume_all", "break"}
    /\ \A s \in State : state[s] = "transition" <=>
         \E t \in Task : pc[t] \in Setting /\ Mine(t) = s
    /\ \A t, u \in Task :
         pc[t] \in Setting /\ pc[u] \in Setting /\ Mine(t) = Mine(u) => t = u

TypeOK == /\ WQTypeOK
          /\ state \in [State -> Status]
          /\ value \in [State -> Value \cup {NoValue, "moved"}]
          /\ exception \in [State -> BOOLEAN]
          /\ future_obtained \in [State -> BOOLEAN]
          /\ promise \in [Promise -> State \cup {NoState}]
          /\ future \in [Task -> State \cup {NoState}]
          /\ shared \in [Task -> BOOLEAN]
          /\ kind \in {"T", "T&", "void"}
          /\ pc \in [Task -> PC]
          /\ using \in [Task -> Promise \cup {NoPromise}]
          /\ arg \in [Task -> Value \cup {NoValue}]
          /\ getting \in [Task -> BOOLEAN]
          /\ OneSetter

ready(s) == state[s] \in {"value", "exception", "broken"}

(* Promises just constructed, each with a state of its own, or moved from. *)
Init == /\ WQInit
        /\ state = [s \in State |-> "empty"]
        /\ value = [s \in State |-> NoValue]
        /\ exception = [s \in State |-> FALSE]
        /\ future_obtained = [s \in State |-> FALSE]
        /\ promise \in [Promise -> State \cup {NoState}]
        /\ \A p, q \in Promise : promise[p] = promise[q] => p = q \/ promise[p] = NoState
        /\ future = [t \in Task |-> NoState]
        /\ shared = [t \in Task |-> FALSE]
        /\ kind \in {"T", "T&", "void"}
        /\ pc = [t \in Task |-> "out"]
        /\ using = [t \in Task |-> NoPromise]
        /\ arg = [t \in Task |-> NoValue]
        /\ getting = [t \in Task |-> FALSE]

Free(t) == pc[t] = "out" /\ Running(t)
At(t, place) == pc[t] = place /\ Running(t)
Goto(t, place) == pc' = [pc EXCEPT ![t] = place]

(* Several tasks may call members of one promise at a time, but who moves  *)
(* or destroys it must be alone with it.                                   *)
Unused(p) == \A u \in Task : using[u] # p
Alive(p) == \A u \in Task : using[u] = p => pc[u] # "break"

-----------------------------------------------------------------------------
(* set_value and set_exception.  On a promise without a state, or whose    *)
(* state is not empty, they throw and change nothing.                      *)

(* A mistaken variant: the status is loaded, and stored later. *)
Claim_NotAtomic(t, p, status, place) ==
    /\ Free(t)
    /\ promise[p] # NoState
    /\ state[promise[p]] = "empty"
    /\ state' = [state EXCEPT ![promise[p]] =
                   IF status = "transition" THEN "empty" ELSE status]
    /\ using' = [using EXCEPT ![t] = p]
    /\ Goto(t, place)

(* The compare-and-swap of the status, and entry to the rest of the call.  *)
Claim(t, p, status, place) ==
    /\ Free(t)
    /\ promise[p] # NoState
    /\ state[promise[p]] = "empty"
    /\ state' = [state EXCEPT ![promise[p]] = status]
    /\ using' = [using EXCEPT ![t] = p]
    /\ Goto(t, place)

SetValue(t, p, v) == /\ kind # "void"
                     /\ Claim(t, p, "transition", "emplace")
                     /\ arg' = [arg EXCEPT ![t] = v]
                     /\ UNCHANGED <<value, exception, future_obtained, getting,
                                    handleVars, wqVars>>
SetVoid(t, p) == /\ kind = "void"
                 /\ Claim(t, p, "value", "resume_all")
                 /\ UNCHANGED <<value, exception, future_obtained, arg, getting,
                                handleVars, wqVars>>
SetException(t, p) == /\ Claim(t, p, "transition", "store_exception")
                      /\ UNCHANGED <<value, exception, future_obtained, arg,
                                     getting, handleVars, wqVars>>

(* The value is copied or moved into the state, or the pointer is stored;  *)
(* if the copy throws, what it threw is stored instead.                    *)
Emplace(t) == /\ At(t, "emplace")
              /\ value' = [value EXCEPT ![Mine(t)] = arg[t]]
              /\ arg' = [arg EXCEPT ![t] = NoValue]
              /\ Goto(t, "publish_value")
              /\ UNCHANGED <<state, exception, future_obtained, using, getting,
                             handleVars, wqVars>>
StoreException(t) == /\ Running(t)
                     /\ \/ pc[t] = "store_exception"
                        \/ pc[t] = "emplace" /\ kind = "T"
                     /\ exception' = [exception EXCEPT ![Mine(t)] = TRUE]
                     /\ arg' = [arg EXCEPT ![t] = NoValue]
                     /\ Goto(t, "publish_exception")
                     /\ UNCHANGED <<state, value, future_obtained, using,
                                    getting, handleVars, wqVars>>

Publish(t) == /\ pc[t] \in {"publish_value", "publish_exception"} /\ Running(t)
              /\ state' = [state EXCEPT ![Mine(t)] =
                             IF pc[t] = "publish_value" THEN "value"
                                                        ELSE "exception"]
              /\ Goto(t, "resume_all")
              /\ UNCHANGED <<value, exception, future_obtained, using, arg,
                             getting, handleVars, wqVars>>
(* A mistaken variant: nobody is resumed. *)
ResumeAll_Forgets(t) == /\ At(t, "resume_all")
                        /\ Goto(t, "out")
                        /\ using' = [using EXCEPT ![t] = NoPromise]
                        /\ UNCHANGED <<arg, getting, cellVars, handleVars, wqVars>>

ResumeAll(t) == /\ At(t, "resume_all")
                /\ SwapAll(t, Mine(t))
                /\ Goto(t, "out")
                /\ using' = [using EXCEPT ![t] = NoPromise]
                /\ UNCHANGED <<arg, getting, cellVars, handleVars>>
ResumeWaiter(t) == ResumeNext(t) /\ UNCHANGED <<cellVars, handleVars, localVars>>

-----------------------------------------------------------------------------
(* The end, the move and the exchange of promises *)

Replace(p, s) == promise' = [promise EXCEPT ![p] = s]


(* ~promise of a promise whose state is ready; break_promise does nothing. *)
Destroy(t, p) == /\ Free(t) /\ Unused(p) /\ promise[p] # NoState
                 /\ state[promise[p]] # "empty"
                 /\ Replace(p, NoState)
                 /\ UNCHANGED <<future, shared, kind, cellVars, localVars,
                                wqVars>>

(* ~promise of a promise whose state is empty: break_promise, then release *)
(* of the state.                                                           *)
DestroyEmpty(t, p) == /\ Unused(p)
                      /\ Claim(t, p, "broken", "break")
                      /\ UNCHANGED <<value, exception, future_obtained, arg,
                                     getting, handleVars, wqVars>>
Break(t) == /\ At(t, "break")
            /\ SwapAll(t, Mine(t))
            /\ Replace(using[t], NoState)
            /\ using' = [using EXCEPT ![t] = NoPromise]
            /\ Goto(t, "out")
            /\ UNCHANGED <<future, shared, kind, arg, getting, cellVars>>

(* The defaulted moves: p takes over the state of q, if it has one, and a  *)
(* state that p had is released without break_promise.                     *)
Move(t, p, q) == /\ Free(t) /\ Unused(p) /\ Unused(q) /\ p # q
                 /\ promise' = [promise EXCEPT ![p] = promise[q],
                                               ![q] = NoState]
                 /\ UNCHANGED <<future, shared, kind, cellVars, localVars,
                                wqVars>>
Swap(t, p, q) == /\ Free(t) /\ Unused(p) /\ Unused(q)
                 /\ promise' = [promise EXCEPT ![p] = promise[q],
                                               ![q] = promise[p]]
                 /\ UNCHANGED <<future, shared, kind, cellVars, localVars,
                                wqVars>>

-----------------------------------------------------------------------------
(* The objects at the other end *)

HasFuture(t) == Free(t) /\ future[t] # NoState
Hold(t, s, sh) == /\ future' = [future EXCEPT ![t] = s]
                  /\ shared' = [shared EXCEPT ![t] = sh]


(* get_future(): a compare-and-swap of future_obtained; it throws if the   *)
(* flag was set.                                                           *)
GetFuture(t, p) ==
    /\ Free(t) /\ future[t] = NoState
    /\ promise[p] # NoState /\ Alive(p)
    /\ ~future_obtained[promise[p]]
    /\ future_obtained' = [future_obtained EXCEPT ![promise[p]] = TRUE]
    /\ Hold(t, promise[p], FALSE)
    /\ UNCHANGED <<state, value, exception, promise, kind, localVars, wqVars>>

(* share() moves the reference, a shared_future can be copied, and both    *)
(* classes can be moved to another object and destroyed.                   *)
Share(t) == /\ HasFuture(t) /\ ~shared[t]
            /\ Hold(t, future[t], TRUE)
            /\ UNCHANGED <<promise, kind, cellVars, localVars, wqVars>>
Copy(t, u) == /\ Free(t) /\ future[t] = NoState
              /\ future[u] # NoState /\ shared[u]
              /\ Hold(t, future[u], TRUE)
              /\ UNCHANGED <<promise, kind, cellVars, localVars, wqVars>>
MoveFuture(t, u) ==
    /\ HasFuture(t) /\ Free(u) /\ t # u
    /\ future' = [future EXCEPT ![u] = future[t], ![t] = NoState]
    /\ shared' = [shared EXCEPT ![u] = shared[t], ![t] = FALSE]
    /\ UNCHANGED <<promise, kind, cellVars, localVars, wqVars>>
Release(t) == /\ HasFuture(t)
              /\ Hold(t, NoState, FALSE)
              /\ UNCHANGED <<promise, kind, cellVars, localVars, wqVars>>

-----------------------------------------------------------------------------
(* wait() and get() of a valid future; on an invalid one they throw *)

Wait(t, isGet) == /\ HasFuture(t)
                  /\ Goto(t, "wait")
                  /\ getting' = [getting EXCEPT ![t] = isGet]
                  /\ UNCHANGED <<using, arg, cellVars, handleVars, wqVars>>
WaitIf(t) == /\ At(t, "wait")
             /\ Goto(t, "ready")
             /\ \/ ~ready(future[t]) /\ Suspend(t)
                \/ ready(future[t]) /\ UNCHANGED wqVars
             /\ UNCHANGED <<using, arg, getting, cellVars, handleVars>>
RecheckReady(t) == /\ pc[t] = "ready"
                   /\ Recheck(t, future[t], ~ready(future[t]))
                   /\ UNCHANGED <<cellVars, handleVars, localVars>>
PushWaiter(t) == /\ pc[t] = "ready"
                 /\ Push(t, future[t])
                 /\ UNCHANGED <<cellVars, handleVars, localVars>>
BounceBack(t) == Bounce(t) /\ UNCHANGED <<cellVars, handleVars, localVars>>

(* The end of wait(), and get() of a broken state or one with an exception *)
(* to rethrow: the future stays valid.                                     *)
Leave(t) == /\ At(t, "ready")
            /\ Goto(t, "out")
            /\ getting' = [getting EXCEPT ![t] = FALSE]
            /\ UNCHANGED <<using, arg, state, exception, future_obtained,
                           promise, kind, wqVars>>
WaitReturns(t) == /\ ~getting[t] /\ Leave(t)
                  /\ UNCHANGED <<value, future, shared>>
GetThrows(t) == /\ getting[t] /\ state[future[t]] \in {"exception", "broken"}
                /\ Leave(t)
                /\ UNCHANGED <<value, future, shared>>

(* get() of a future with a value releases the state; only for a value     *)
(* type is there something to move out of it.                              *)
Consume(t) == /\ getting[t] /\ ~shared[t] /\ state[future[t]] = "value"
              /\ Leave(t)
              /\ Hold(t, NoState, FALSE)
GetValue(t) == /\ kind = "T" /\ Consume(t)
               /\ value' = [value EXCEPT ![future[t]] = "moved"]
GetVoid(t) == kind = "void" /\ Consume(t) /\ UNCHANGED value
GetReference(t) == kind = "T&" /\ Consume(t) /\ UNCHANGED value

(* A mistaken variant: a shared_future moves the value out as a future does. *)
SharedGet_Moves(t) == /\ getting[t] /\ shared[t] /\ state[future[t]] = "value"
                      /\ Leave(t)
                      /\ value' = [value EXCEPT ![future[t]] = "moved"]
                      /\ UNCHANGED <<future, shared>>

(* get() of a shared_future only looks. *)
SharedGet(t) == /\ getting[t] /\ shared[t] /\ state[future[t]] = "value"
                /\ Leave(t)
                /\ UNCHANGED <<value, future, shared>>

-----------------------------------------------------------------------------
Step(t) == \/ Emplace(t) \/ StoreException(t) \/ Publish(t) \/ ResumeAll(t)
           \/ Break(t) \/ WaitIf(t) \/ RecheckReady(t) \/ PushWaiter(t)
           \/ BounceBack(t) \/ ResumeWaiter(t)
           \/ WaitReturns(t) \/ GetThrows(t) \/ SharedGet(t)
           \/ GetValue(t) \/ GetVoid(t) \/ GetReference(t)

SetNext == \E t \in Task, p \in Promise :
             \/ \E v \in Value : SetValue(t, p, v)
             \/ SetVoid(t, p) \/ SetException(t, p)
PromiseNext == \E t \in Task, p \in Promise :
                 \/ Destroy(t, p) \/ DestroyEmpty(t, p)
                 \/ GetFuture(t, p)
                 \/ \E q \in Promise : Swap(t, p, q)
FutureNext == \E t \in Task : \/ Share(t) \/ Release(t)
                             \/ \E u \in Task : Copy(t, u) \/ MoveFuture(t, u)
                             \/ \E isGet \in BOOLEAN : Wait(t, isGet)
Moves == \E t \in Task, p, q \in Promise : Move(t, p, q)
Others == SetNext \/ PromiseNext \/ FutureNext \/ \E t \in Task : Step(t)
Next == Moves \/ Others

Spec == Init /\ [][Next]_vars
FairSpec == Spec /\ \A t \in Task : WF_vars(Step(t))

-----------------------------------------------------------------------------
(* The assertions of wait() and get() (future.hpp:103, 258, 440): whoever  *)
(* is let through finds a settled state, its result complete, and, the     *)
(* other futures of that state notwithstanding, not taken away before.     *)
ReadersFindResult ==
    \A t \in Task :
      pc[t] = "ready" /\ susp[t] \in {"idle", "bounce"}
        => LET s == future[t]
           IN  \/ state[s] = "broken"
               \/ state[s] = "exception" /\ exception[s]
               \/ state[s] = "value" /\ (kind = "void" \/ value[s] \in Value)

(* future.hpp:78-105: set_* and break_promise settle the state before they *)
(* take its queue, so a task that sleeps on a settled state is in the      *)
(* hands of a task that will resume it.                                    *)
NoLostWakeup ==
    \A t \in Task :
      susp[t] \in {"push", "parked"} /\ ready(future[t])
        => \E u \in Task : \/ /\ pc[u] \in {"resume_all", "break"}
                              /\ Mine(u) = future[t]
                           \/ t \in Range(batch[u])

(* Whoever waits on a state that is settled, or becomes it, returns. *)
SettledEndsWait ==
    \A t \in Task : pc[t] \in {"wait", "ready"} /\ ready(future[t])
                      ~> pc[t] = "out"

-----------------------------------------------------------------------------
(* future.hpp:46-54 and the documentation of set_value, set_exception and  *)
(* get: a shared state is a cell that is written once.  What a setter has  *)
(* stored is not there for others before the status says so.               *)
cell == [s \in State |->
           IF ~ready(s) THEN "pending"
           ELSE IF state[s] = "value" THEN (IF kind = "void" THEN "void" ELSE value[s])
           ELSE state[s]]
Cell == INSTANCE AbstractFuture
          WITH Outcome <- Value \cup {"void", "exception", "broken"}
ImplementsCell == Cell!Spec
=============================================================================
