----------------------------- MODULE FutureProofs ------------------------------
(***************************************************************************)
(* promise, future, shared_future and packaged_task, for any number of     *)
(* tasks, shared states and promises: whoever is let through wait() finds  *)
(* a complete result, no wake-up is lost, a shared state is a cell that is *)
(* written once, and only the move assignment of a promise leaves waiters  *)
(* behind.                                                                 *)
(*                                                                         *)
(* The invariant says who may touch a shared state and when: one promise   *)
(* refers to it (Apart), one task at a time is between the compare-and-    *)
(* swap and the end of its call (Settling), and a future that may take the *)
(* value away is the only one (Holders).                                   *)
(***************************************************************************)
EXTENDS MCFuture, WaitQueueProofs

Fields == /\ state \in [State -> Status]
          /\ value \in [State -> Value \cup {NoValue, "moved"}]
          /\ exception \in [State -> BOOLEAN]
          /\ future_obtained \in [State -> BOOLEAN]
          /\ promise \in [Promise -> State \cup {NoState}]
          /\ future \in [Task -> State \cup {NoState}]
          /\ shared \in [Task -> BOOLEAN]
          /\ kind \in {"T", "T&", "void"}
          /\ pc \in [Task -> PC]
          /\ using \in [Task -> Promise \cup {NoPromise}]
          /\ arg \in [Task -> Value \cup {NoValue}]
          /\ getting \in [Task -> BOOLEAN]

(* No two promises refer to one state. *)
Apart == \A p, q \in Promise :
           promise[p] = promise[q] => p = q \/ promise[p] = NoState

(* What is known at each place of set_value, set_exception and ~promise.   *)
Knows(t) ==
    /\ using[t] # NoPromise <=> pc[t] \in Setting \cup {"resume_all", "break"}
    /\ using[t] # NoPromise => Mine(t) # NoState
    /\ pc[t] \in Setting => state[Mine(t)] = "transition"
    /\ pc[t] = "resume_all" => state[Mine(t)] \in {"value", "exception"}
    /\ pc[t] = "break" => state[Mine(t)] = "broken"
    /\ pc[t] = "emplace" => kind # "void" /\ arg[t] \in Value
    /\ pc[t] = "publish_value" => kind # "void" /\ value[Mine(t)] \in Value
    /\ pc[t] = "publish_exception" => exception[Mine(t)]
Settling ==
    /\ \A t \in Task : Knows(t)
    /\ \A t, u \in Task : using[t] = using[u] => t = u \/ using[t] = NoPromise
    /\ \A s \in State : state[s] = "transition" =>
         \E t \in Task : pc[t] \in Setting /\ Mine(t) = s

(* What a settled state holds. *)
Results ==
    \A s \in State :
      /\ state[s] = "value" => kind = "void" \/ value[s] \in Value \cup {"moved"}
      /\ state[s] = "exception" => exception[s]
      /\ value[s] = "moved" => /\ future_obtained[s] /\ state[s] = "value"
                               /\ \A t \in Task : future[t] # s

(* A future is alone with its state, a shared_future need not be. *)
Holders ==
    /\ \A t \in Task : future[t] # NoState => future_obtained[future[t]]
    /\ \A t, u \in Task : future[t] = future[u]
                            => t = u \/ future[t] = NoState \/ shared[t]
    /\ \A t \in Task : pc[t] \in {"wait", "ready"} => future[t] # NoState

(* Who sleeps does so on its own state, and who is let through, or is      *)
(* about to be, was let through by a settled one.                          *)
Sleepers ==
    /\ \A t \in Task : susp[t] # "idle" => pc[t] = "ready"
    /\ \A s \in State : \A t \in Range(m_waiters[s]) : future[t] = s
    /\ \A s \in State, t \in Task : m_waiters_mutex[s] = t => future[t] = s
    /\ \A t \in Task : pc[t] = "ready" /\ susp[t] \in {"idle", "bounce"}
                         => ready(future[t])
    /\ \A u \in Task : \A t \in Range(batch[u]) : ready(future[t])

FutureInv == /\ WQInv /\ Fields /\ Apart /\ Settling /\ Results /\ Holders
             /\ Sleepers /\ NoLostWakeup

(* The state that a packaged_task will have next is nobody else's. *)
Heirs ==
    /\ heir \in [Task -> State \cup {NoState}]
    /\ \A t \in Task, p \in Promise : heir[t] = promise[p] => heir[t] = NoState
    /\ \A t, u \in Task : heir[t] = heir[u] => t = u \/ heir[t] = NoState
    /\ \A t \in Task : heir[t] # NoState => pc[t] = "break" /\ packaged

(* A state that somebody has a future of is settled, or somebody refers to *)
(* it, or it was dropped.                                                  *)
Kept == \A t \in Task : future[t] # NoState /\ ~ready(future[t])
                          => Referred(future[t]) \/ future[t] \in dropped

-----------------------------------------------------------------------------
(* The initial state, and the conjuncts that every step keeps alike. *)

(* Promises and futures nobody has used yet. *)
LEMMA InitInv == Init => FutureInv
<1> SUFFICES ASSUME Init PROVE FutureInv
  OBVIOUS
<1> USE DEF Init
<1>1. WQInv
  BY WQInitInv
<1>2. Fields
  BY DEF Fields, Status, PC
<1>3. Apart
  BY DEF Apart
<1>4. Settling
  BY DEF Settling, Knows, Setting
<1>5. Results
  BY FutureAssumption DEF Results
<1>6. Holders
  BY DEF Holders
<1>7. Sleepers
  BY RangeEmpty, FutureAssumption, NoTaskAssumption DEF WQInit, Sleepers
<1>8. NoLostWakeup
  BY DEF WQInit, NoLostWakeup
<1> QED BY <1>1, <1>2, <1>3, <1>4, <1>5, <1>6, <1>7, <1>8 DEF FutureInv

(* The state that a task is settling, and the one that a task waits on. *)
LEMMA StatesAtHand ==
  ASSUME Fields, Settling, Holders, NEW t \in Task
  PROVE  /\ pc[t] \in Setting \cup {"resume_all", "break"} =>
              using[t] \in Promise /\ Mine(t) \in State
         /\ pc[t] \in {"wait", "ready"} => future[t] \in State
BY DEF Fields, Settling, Knows, Holders, Mine

(* Whatever step is taken, the wait queues keep their own invariant. *)
LEMMA NextWQInv ==
  ASSUME FutureInv, [Next]_vars
  PROVE  WQInv'
<1>0. WQInv /\ Fields /\ Settling /\ Holders
  BY DEF FutureInv
<1>1. ASSUME UNCHANGED wqVars PROVE WQInv'
  BY <1>0, <1>1 DEF wqVars, WQInv, WQTypeOK, NodeLifetime, ListsDisjoint,
     InSomeList, PushingHoldsLock
<1>2. ASSUME NEW t \in Task, WaitIf(t) PROVE WQInv'
  BY <1>0, <1>1, <1>2, SuspendInv DEF WaitIf, At
<1>3. ASSUME NEW t \in Task, RecheckReady(t) PROVE WQInv'
  <2>1. future[t] \in Queue
    BY <1>0, <1>3, StatesAtHand, FutureAssumption DEF RecheckReady
  <2>2. (~ready(future[t])) \in BOOLEAN /\ Recheck(t, future[t], ~ready(future[t]))
    BY <1>3 DEF RecheckReady
  <2> QED BY <1>0, <2>1, <2>2, RecheckInv
<1>4. ASSUME NEW t \in Task, PushWaiter(t) PROVE WQInv'
  BY <1>0, <1>4, StatesAtHand, FutureAssumption, PushInv DEF PushWaiter
<1>5. ASSUME NEW t \in Task, BounceBack(t) PROVE WQInv'
  BY <1>0, <1>5, BounceInv DEF BounceBack
<1>6. ASSUME NEW t \in Task, ResumeAll(t) \/ Break(t) PROVE WQInv'
  <2>1. SwapAll(t, Mine(t)) /\ Running(t) /\ Mine(t) \in Queue
    BY <1>0, <1>6, StatesAtHand, FutureAssumption DEF ResumeAll, Break, At
  <2> QED BY <1>0, <2>1, SwapAllInv
<1>7. ASSUME NEW t \in Task, ResumeWaiter(t) PROVE WQInv'
  BY <1>0, <1>7, ResumeNextInv DEF ResumeWaiter
<1>8. CASE UNCHANGED vars
  BY <1>1, <1>8 DEF vars, wqVars
<1>9. CASE SetNext \/ PromiseNext \/ FutureNext \/ Moves
  BY <1>1, <1>9 DEF SetNext, PromiseNext, FutureNext, Moves, SetValue, SetVoid,
     SetException, Destroy, DestroyEmpty, GetFuture, Swap, Share, Release, Copy,
     MoveFuture, Wait, Move
<1>10. ASSUME NEW t \in Task,
              Emplace(t) \/ StoreException(t) \/ Publish(t) \/ WaitReturns(t)
                \/ GetThrows(t) \/ SharedGet(t) \/ GetValue(t) \/ GetVoid(t)
                \/ GetReference(t)
       PROVE  WQInv'
  BY <1>1, <1>10 DEF Emplace, StoreException, Publish, WaitReturns, GetThrows,
     SharedGet, GetValue, GetVoid, GetReference, Consume, Leave
<1> QED BY <1>2, <1>3, <1>4, <1>5, <1>6, <1>7, <1>8, <1>9, <1>10
        DEF Next, Others, Step

(* The kinds of values. *)
LEMMA NextFields ==
  ASSUME FutureInv, [Next]_vars
  PROVE  Fields'
<1>0. Fields /\ Settling /\ Holders
  BY DEF FutureInv
<1> USE <1>0 DEF Fields, Status, PC, Setting, cellVars, handleVars, localVars
<1>1. CASE UNCHANGED vars
  BY <1>1 DEF vars
<1>2. ASSUME NEW t \in Task, NEW p \in Promise, NEW status \in Status,
             NEW place \in PC, Claim(t, p, status, place)
      PROVE  /\ state' \in [State -> Status] /\ pc' \in [Task -> PC]
             /\ using' \in [Task -> Promise \cup {NoPromise}]
  BY <1>2 DEF Claim, Goto
<1>3. ASSUME NEW t \in Task, NEW p \in Promise,
             \/ \E v \in Value : SetValue(t, p, v)
             \/ SetVoid(t, p) \/ SetException(t, p) \/ DestroyEmpty(t, p)
      PROVE  Fields'
  <2>1. /\ state' \in [State -> Status] /\ pc' \in [Task -> PC]
        /\ using' \in [Task -> Promise \cup {NoPromise}]
    BY <1>2, <1>3 DEF SetValue, SetVoid, SetException, DestroyEmpty
  <2> QED BY <1>3, <2>1 DEF SetValue, SetVoid, SetException, DestroyEmpty
<1>4. ASSUME NEW t \in Task, NEW p \in Promise, Destroy(t, p) \/ GetFuture(t, p)
      PROVE  Fields'
  BY <1>4 DEF Destroy, GetFuture, Replace, Hold
<1>5. ASSUME NEW t \in Task, NEW p \in Promise, NEW q \in Promise,
             Swap(t, p, q) \/ Move(t, p, q)
      PROVE  Fields'
  BY <1>5 DEF Swap, Move
<1>6. ASSUME NEW t \in Task, NEW u \in Task,
             Share(t) \/ Release(t) \/ Copy(t, u) \/ MoveFuture(t, u)
      PROVE  Fields'
  BY <1>6 DEF Share, Release, Copy, MoveFuture, HasFuture, Hold
<1>7. ASSUME NEW t \in Task, NEW isGet \in BOOLEAN, Wait(t, isGet)
      PROVE  Fields'
  BY <1>7 DEF Wait, Goto
<1>8. ASSUME NEW t \in Task, Emplace(t) \/ StoreException(t) \/ Publish(t)
      PROVE  Fields'
  <2>1. Mine(t) \in State
    BY <1>8, StatesAtHand DEF Emplace, StoreException, Publish, At
  <2> QED BY <1>8, <2>1 DEF Emplace, StoreException, Publish, Goto
<1>9. ASSUME NEW t \in Task, ResumeAll(t) \/ Break(t)
      PROVE  Fields'
  BY <1>9 DEF ResumeAll, Break, Replace, Goto
<1>10. ASSUME NEW t \in Task,
             WaitIf(t) \/ RecheckReady(t) \/ PushWaiter(t) \/ BounceBack(t)
               \/ ResumeWaiter(t)
      PROVE  Fields'
  BY <1>10 DEF WaitIf, RecheckReady, PushWaiter, BounceBack, ResumeWaiter, Goto
<1>11. ASSUME NEW t \in Task,
             WaitReturns(t) \/ GetThrows(t) \/ SharedGet(t) \/ GetValue(t)
               \/ GetVoid(t) \/ GetReference(t)
      PROVE  Fields'
  BY <1>11 DEF WaitReturns, GetThrows, SharedGet, GetValue, GetVoid, GetReference,
     Consume, Leave, Hold, Goto
<1> QED BY <1>1, <1>3, <1>4, <1>5, <1>6, <1>7, <1>8, <1>9, <1>10, <1>11
        DEF Next, Others, Step, SetNext, PromiseNext, FutureNext, Moves

(* A promise takes over a state only from another that gives it up. *)
LEMMA NextApart ==
  ASSUME FutureInv, [Next]_vars
  PROVE  Apart'
<1>0. Fields /\ Apart
  BY DEF FutureInv
<1>1. ASSUME UNCHANGED promise PROVE Apart'
  BY <1>0, <1>1 DEF Apart
<1>2. ASSUME NEW p \in Promise, promise' = [promise EXCEPT ![p] = NoState]
      PROVE  Apart'
  BY <1>0, <1>2 DEF Apart, Fields
<1>3. ASSUME NEW p \in Promise, NEW q \in Promise, p # q,
             promise' = [promise EXCEPT ![p] = promise[q], ![q] = NoState]
      PROVE  Apart'
  BY <1>0, <1>3 DEF Apart, Fields
<1>4. ASSUME NEW p \in Promise, NEW q \in Promise,
             promise' = [promise EXCEPT ![p] = promise[q], ![q] = promise[p]]
      PROVE  Apart'
  BY <1>0, <1>4 DEF Apart, Fields
<1>5. CASE SetNext \/ FutureNext \/ UNCHANGED vars
  BY <1>1, <1>5 DEF SetNext, FutureNext, SetValue, SetVoid, SetException, Share,
     Release, Copy, MoveFuture, Wait, vars, handleVars
<1>6. CASE PromiseNext
  BY <1>1, <1>2, <1>4, <1>6 DEF PromiseNext, Destroy, DestroyEmpty, GetFuture, Swap,
     Replace, handleVars
<1>7. CASE Moves
  BY <1>3, <1>7 DEF Moves, Move
<1>8. ASSUME NEW t \in Task, Break(t) PROVE Apart'
  <2>1. using[t] \in Promise
    BY <1>8, StatesAtHand DEF FutureInv, Break, At
  <2> QED BY <1>2, <1>8, <2>1 DEF Break, Replace
<1>9. ASSUME NEW t \in Task, Step(t), ~Break(t) PROVE Apart'
  BY <1>1, <1>9 DEF Step, Emplace, StoreException, Publish, ResumeAll, WaitIf,
     RecheckReady, PushWaiter, BounceBack, ResumeWaiter, WaitReturns, GetThrows,
     SharedGet, GetValue, GetVoid, GetReference, Consume, Leave, handleVars
<1> QED BY <1>5, <1>6, <1>7, <1>8, <1>9 DEF Next, Others

-----------------------------------------------------------------------------
(* Settling: what each task knows of the state it is settling. *)

(* A step at which t is not settling and no state changes its status. *)
LEMMA SettlingReader ==
  ASSUME Fields, Settling, NEW t \in Task,
         pc[t] \notin Setting \cup {"resume_all", "break"},
         pc'[t] \notin Setting \cup {"resume_all", "break"},
         \A u \in Task : u # t => pc'[u] = pc[u],
         UNCHANGED <<using, promise, state, exception, arg, kind>>,
         \A s \in State : state[s] = "transition" => value'[s] = value[s]
  PROVE  Settling'
<1>1. \A u \in Task : Mine(u)' = Mine(u)
  BY DEF Mine
<1>2. ASSUME NEW u \in Task PROVE Knows(u)'
  <2>1. Knows(u)
    BY DEF Settling
  <2>2. CASE u = t
    BY <2>1, <2>2 DEF Knows, Setting
  <2>3. CASE u # t
    <3>1. using[u] # NoPromise => Mine(u) \in State
      BY <2>1 DEF Knows, Fields, Mine
    <3> QED BY <1>1, <2>1, <2>3, <3>1 DEF Knows, Setting
  <2> QED BY <2>2, <2>3
<1>3. \A s \in State : state'[s] = "transition" =>
        \E u \in Task : pc'[u] \in Setting /\ Mine(u)' = s
  BY <1>1 DEF Settling
<1> QED BY <1>2, <1>3 DEF Settling

(* A step that changes promises nobody is using. *)
LEMMA SettlingPromises ==
  ASSUME Settling, UNCHANGED <<pc, using, state, value, exception, arg, kind>>,
         \A u \in Task : using[u] # NoPromise => Mine(u)' = Mine(u)
  PROVE  Settling'
<1>1. ASSUME NEW u \in Task PROVE Knows(u)'
  <2>1. Knows(u)
    BY DEF Settling
  <2> QED BY <2>1 DEF Knows, Setting
<1>2. \A s \in State : state'[s] = "transition" =>
        \E u \in Task : pc'[u] \in Setting /\ Mine(u)' = s
  BY DEF Settling, Knows
<1> QED BY <1>1, <1>2 DEF Settling

(* The places where a call starts, and the status it gives to the state. *)
Entry(status, place) ==
    \/ status = "transition" /\ place \in {"emplace", "store_exception"}
    \/ status = "value" /\ place = "resume_all"
    \/ status = "broken" /\ place = "break"

(* The compare-and-swap: nobody else was settling that state. *)
LEMMA SettlingClaim ==
  ASSUME Fields, Settling, NEW t \in Task, NEW p \in Promise, NEW status,
         NEW place, Claim(t, p, status, place), Entry(status, place),
         place = "emplace" => kind # "void" /\ arg'[t] \in Value,
         \A u \in Task : u # t => arg'[u] = arg[u],
         UNCHANGED <<value, exception, kind>>,
         promise'[p] = promise[p],
         \A u \in Task : using[u] # NoPromise => promise'[using[u]] = promise[using[u]]
  PROVE  Settling'
<1> DEFINE s == promise[p]
<1>1. /\ s \in State /\ state[s] = "empty" /\ state'[s] = status
      /\ \A r \in State : r # s => state'[r] = state[r]
      /\ pc[t] = "out" /\ pc'[t] = place /\ using'[t] = p
      /\ \A u \in Task : u # t => pc'[u] = pc[u] /\ using'[u] = using[u]
  BY DEF Claim, Free, Goto, Fields
<1>2. Mine(t)' = s
  BY <1>1 DEF Mine
<1>3. p # NoPromise
  BY FutureAssumption
<1>4. ASSUME NEW u \in Task, u # t, using[u] # NoPromise
      PROVE  /\ Mine(u)' = Mine(u) /\ Mine(u) \in State /\ Mine(u) # s
             /\ using[u] # p
  <2>1. Knows(u)
    BY DEF Settling
  <2>2. Mine(u)' = Mine(u) /\ Mine(u) \in State
    BY <1>1, <1>4, <2>1 DEF Mine, Knows, Fields
  <2>3. Mine(u) # s
    BY <1>1, <1>4, <2>1 DEF Knows, Setting
  <2> QED BY <2>2, <2>3 DEF Mine
<1>5. Knows(t)'
  BY <1>1, <1>2, <1>3, FutureAssumption DEF Knows, Entry, Setting
<1>6. ASSUME NEW u \in Task, u # t PROVE Knows(u)'
  <2>1. Knows(u)
    BY DEF Settling
  <2>2. CASE using[u] = NoPromise
    BY <1>1, <1>6, <2>1, <2>2 DEF Knows, Setting
  <2>3. CASE using[u] # NoPromise
    BY <1>1, <1>4, <1>6, <2>1, <2>3 DEF Knows, Setting
  <2> QED BY <2>2, <2>3
<1>7. \A u, v \in Task : using'[u] = using'[v] => u = v \/ using'[u] = NoPromise
  BY <1>1, <1>3, <1>4 DEF Settling
<1>8. ASSUME NEW r \in State, state'[r] = "transition"
      PROVE  \E u \in Task : pc'[u] \in Setting /\ Mine(u)' = r
  <2>1. CASE r = s
    BY <1>1, <1>2, <1>8, <2>1 DEF Entry, Setting
  <2>2. CASE r # s
    <3>1. PICK u \in Task : pc[u] \in Setting /\ Mine(u) = r
      BY <1>1, <1>8, <2>2 DEF Settling
    <3>2. u # t /\ using[u] # NoPromise
      BY <1>1, <3>1 DEF Setting, Settling, Knows
    <3> QED BY <1>1, <1>4, <3>1, <3>2
  <2> QED BY <2>1, <2>2
<1> QED BY <1>5, <1>6, <1>7, <1>8 DEF Settling

(* Storing and publishing the result: it is nobody else's state. *)
LEMMA SettlingStore ==
  ASSUME Fields, Apart, Settling, NEW t \in Task,
         Emplace(t) \/ StoreException(t) \/ Publish(t)
  PROVE  Settling'
<1> DEFINE s == Mine(t)
<1>0. Knows(t)
  BY DEF Settling
<1>1. /\ pc[t] \in Setting /\ using[t] \in Promise /\ s \in State
      /\ using' = using /\ promise' = promise /\ kind' = kind
  BY <1>0 DEF Emplace, StoreException, Publish, At, Setting, Knows, Fields, Mine,
     handleVars
<1>2. \A u \in Task : Mine(u)' = Mine(u)
  BY <1>1 DEF Mine
<1>3. ASSUME NEW u \in Task, u # t, using[u] # NoPromise
      PROVE  Mine(u) \in State /\ Mine(u) # s
  <2>1. Knows(u) /\ using[u] # using[t]
    BY <1>3 DEF Settling
  <2> QED BY <1>1, <1>3, <2>1 DEF Mine, Apart, Knows, Fields
<1>4. /\ \A u \in Task : u # t => pc'[u] = pc[u] /\ arg'[u] = arg[u]
      /\ \A r \in State : r # s => /\ state'[r] = state[r] /\ value'[r] = value[r]
                                   /\ exception'[r] = exception[r]
  BY <1>1 DEF Emplace, StoreException, Publish, Goto, Fields
<1>5. Knows(t)' /\ (state'[s] = "transition" => pc'[t] \in Setting)
  <2>1. CASE Emplace(t)
    BY <1>0, <1>1, <1>2, <2>1 DEF Emplace, At, Goto, Knows, Setting, Fields
  <2>2. CASE StoreException(t)
    BY <1>0, <1>1, <1>2, <2>2 DEF StoreException, Goto, Knows, Setting, Fields
  <2>3. CASE Publish(t)
    BY <1>0, <1>1, <1>2, <2>3 DEF Publish, Goto, Knows, Setting, Fields
  <2> QED BY <2>1, <2>2, <2>3
<1>6. ASSUME NEW u \in Task, u # t PROVE Knows(u)'
  <2>1. Knows(u) /\ using'[u] = using[u] /\ pc'[u] = pc[u] /\ arg'[u] = arg[u]
    BY <1>1, <1>4, <1>6 DEF Settling
  <2>2. CASE using[u] = NoPromise
    BY <2>1, <2>2 DEF Knows, Setting
  <2>3. CASE using[u] # NoPromise
    BY <1>1, <1>2, <1>3, <1>4, <1>6, <2>1, <2>3 DEF Knows, Setting
  <2> QED BY <2>2, <2>3
<1>7. ASSUME NEW r \in State, state'[r] = "transition"
      PROVE  \E u \in Task : pc'[u] \in Setting /\ Mine(u)' = r
  <2>1. CASE r = s
    BY <1>2, <1>5, <1>7, <2>1
  <2>2. CASE r # s
    BY <1>2, <1>4, <1>7, <2>2 DEF Settling
  <2> QED BY <2>1, <2>2
<1> QED BY <1>1, <1>5, <1>6, <1>7 DEF Settling

(* The end of a call, at which ~promise lets the state go. *)
LEMMA SettlingEnds ==
  ASSUME Fields, Settling, NEW t \in Task, pc[t] \in {"resume_all", "break"},
         Goto(t, "out"), using' = [using EXCEPT ![t] = NoPromise],
         \A p \in Promise : p # using[t] => promise'[p] = promise[p],
         UNCHANGED <<state, value, exception, arg, kind>>
  PROVE  Settling'
<1>1. /\ pc'[t] = "out" /\ using'[t] = NoPromise
      /\ \A u \in Task : u # t => pc'[u] = pc[u] /\ using'[u] = using[u]
  BY DEF Goto, Fields
<1>2. ASSUME NEW u \in Task, u # t, using[u] # NoPromise PROVE Mine(u)' = Mine(u)
  <2>1. using[u] # using[t] /\ using[u] \in Promise
    BY <1>2 DEF Settling, Fields
  <2> QED BY <1>1, <1>2, <2>1 DEF Mine
<1>3. Knows(t)'
  BY <1>1 DEF Knows, Setting
<1>4. ASSUME NEW u \in Task, u # t PROVE Knows(u)'
  <2>1. Knows(u)
    BY DEF Settling
  <2> QED BY <1>1, <1>2, <1>4, <2>1 DEF Knows, Setting
<1>5. \A u, v \in Task : using'[u] = using'[v] => u = v \/ using'[u] = NoPromise
  BY <1>1 DEF Settling
<1>6. ASSUME NEW r \in State, state'[r] = "transition"
      PROVE  \E u \in Task : pc'[u] \in Setting /\ Mine(u)' = r
  <2>1. PICK u \in Task : pc[u] \in Setting /\ Mine(u) = r
    BY <1>6 DEF Settling
  <2>2. u # t /\ using[u] # NoPromise
    BY <2>1 DEF Setting, Settling, Knows
  <2> QED BY <1>1, <1>2, <2>1, <2>2
<1> QED BY <1>3, <1>4, <1>5, <1>6 DEF Settling

(* Every step. *)
LEMMA NextSettling ==
  ASSUME FutureInv, [Next]_vars
  PROVE  Settling'
<1>0. Fields /\ Apart /\ Settling /\ Results
  BY DEF FutureInv
<1>1. ASSUME NEW t \in Task, NEW p \in Promise,
             \/ \E v \in Value : SetValue(t, p, v)
             \/ SetVoid(t, p) \/ SetException(t, p) \/ DestroyEmpty(t, p)
      PROVE  Settling'
  <2>1. PICK status, place :
          /\ Claim(t, p, status, place) /\ Entry(status, place)
          /\ place = "emplace" => kind # "void" /\ arg'[t] \in Value
    BY <1>0, <1>1 DEF SetValue, SetVoid, SetException, DestroyEmpty, Entry, Fields
  <2>2. /\ \A u \in Task : u # t => arg'[u] = arg[u]
        /\ UNCHANGED <<value, exception, kind, promise>>
    BY <1>0, <1>1 DEF SetValue, SetVoid, SetException, DestroyEmpty, Fields, handleVars
  <2> QED BY <1>0, <2>1, <2>2, SettlingClaim
<1>2. ASSUME NEW t \in Task, NEW p \in Promise,
             Destroy(t, p) \/ \E q \in Promise : Swap(t, p, q) \/ Move(t, p, q)
      PROVE  Settling'
  <2>1. /\ UNCHANGED <<pc, using, state, value, exception, arg, kind>>
        /\ \A r \in Promise : (\E u \in Task : using[u] = r) => promise'[r] = promise[r]
    BY <1>0, <1>2 DEF Destroy, Swap, Move, Replace, Unused, Fields, cellVars, localVars
  <2>2. \A u \in Task : using[u] # NoPromise => Mine(u)' = Mine(u)
    BY <1>0, <2>1 DEF Mine, Fields
  <2> QED BY <1>0, <2>1, <2>2, SettlingPromises
<1>3. ASSUME NEW t \in Task,
             \/ \E p \in Promise : GetFuture(t, p)
             \/ Share(t) \/ Release(t) \/ \E u \in Task : Copy(t, u) \/ MoveFuture(t, u)
      PROVE  Settling'
  BY <1>0, <1>3, SettlingPromises DEF GetFuture, Share, Release, Copy, MoveFuture,
     cellVars, localVars, Mine
<1>4. ASSUME NEW t \in Task, (\E isGet \in BOOLEAN : Wait(t, isGet)) \/ WaitIf(t)
      PROVE  Settling'
  <2>1. /\ pc[t] \in {"out", "wait"} /\ pc'[t] \in {"wait", "ready"}
        /\ \A u \in Task : u # t => pc'[u] = pc[u]
        /\ UNCHANGED <<using, promise, state, value, exception, arg, kind>>
    BY <1>0, <1>4 DEF Wait, WaitIf, HasFuture, Free, At, Goto, Fields, cellVars, handleVars
  <2> QED BY <1>0, <2>1, SettlingReader DEF Setting
<1>5. ASSUME NEW t \in Task,
             RecheckReady(t) \/ PushWaiter(t) \/ BounceBack(t) \/ ResumeWaiter(t)
      PROVE  Settling'
  BY <1>0, <1>5, SettlingPromises DEF RecheckReady, PushWaiter, BounceBack,
     ResumeWaiter, cellVars, handleVars, localVars, Mine
<1>6. ASSUME NEW t \in Task,
             WaitReturns(t) \/ GetThrows(t) \/ SharedGet(t) \/ GetValue(t)
               \/ GetVoid(t) \/ GetReference(t)
      PROVE  Settling'
  <2>1. /\ pc[t] = "ready" /\ pc'[t] = "out"
        /\ \A u \in Task : u # t => pc'[u] = pc[u]
        /\ UNCHANGED <<using, promise, state, exception, arg, kind>>
    BY <1>0, <1>6 DEF WaitReturns, GetThrows, SharedGet, GetValue, GetVoid,
       GetReference, Consume, Leave, At, Goto, Fields
  <2>2. \A s \in State : state[s] = "transition" => value'[s] = value[s]
    BY <1>0, <1>6 DEF WaitReturns, GetThrows, SharedGet, GetValue, GetVoid,
       GetReference, Consume, Fields
  <2> QED BY <1>0, <2>1, <2>2, SettlingReader DEF Setting
<1>7. ASSUME NEW t \in Task, Emplace(t) \/ StoreException(t) \/ Publish(t)
      PROVE  Settling'
  BY <1>0, <1>7, SettlingStore
<1>8. ASSUME NEW t \in Task, ResumeAll(t) \/ Break(t) PROVE Settling'
  <2>1. /\ pc[t] \in {"resume_all", "break"} /\ Goto(t, "out")
        /\ using' = [using EXCEPT ![t] = NoPromise]
        /\ \A p \in Promise : p # using[t] => promise'[p] = promise[p]
        /\ UNCHANGED <<state, value, exception, arg, kind>>
    BY <1>0, <1>8 DEF ResumeAll, Break, At, Replace, Fields, cellVars, handleVars
  <2> QED BY <1>0, <2>1, SettlingEnds
<1>9. CASE UNCHANGED vars
  BY <1>0, <1>9, SettlingPromises DEF vars, Mine
<1> QED BY <1>1, <1>2, <1>3, <1>4, <1>5, <1>6, <1>7, <1>8, <1>9
        DEF Next, Others, Step, SetNext, PromiseNext, FutureNext, Moves

-----------------------------------------------------------------------------
(* Results and Holders: what a settled state holds and who may take it. *)

(* A step that changes neither a state nor who holds it. *)
LEMMA ResultsFrame ==
  ASSUME Results,
         UNCHANGED <<state, value, exception, kind, future_obtained, future>>
  PROVE  Results'
BY DEF Results

(* The compare-and-swap settles a state without a result only for void or  *)
(* when it breaks it.                                                      *)
LEMMA ResultsClaim ==
  ASSUME Fields, Results, NEW t \in Task, NEW p \in Promise, NEW status, NEW place,
         Claim(t, p, status, place),
         status \in {"transition", "broken"} \/ (status = "value" /\ kind = "void"),
         UNCHANGED <<value, exception, kind, future_obtained, future>>
  PROVE  Results'
<1>1. /\ promise[p] \in State /\ state[promise[p]] = "empty"
      /\ state'[promise[p]] = status
      /\ \A r \in State : r # promise[p] => state'[r] = state[r]
  BY DEF Claim, Fields
<1> QED BY <1>1 DEF Results

(* A state is published with its result. *)
LEMMA ResultsStore ==
  ASSUME Fields, Settling, Results, NEW t \in Task,
         Emplace(t) \/ StoreException(t) \/ Publish(t)
  PROVE  Results'
<1> DEFINE s == Mine(t)
<1>0. Knows(t)
  BY DEF Settling
<1>1. /\ s \in State /\ state[s] = "transition"
      /\ UNCHANGED <<kind, future_obtained, future>>
  BY <1>0 DEF Emplace, StoreException, Publish, At, Setting, Knows, Fields, Mine,
     handleVars
<1>2. value[s] # "moved"
  BY <1>1 DEF Results
<1>3. CASE Emplace(t)
  <2>1. arg[t] \in Value /\ arg[t] # "moved"
    BY <1>0, <1>3, FutureAssumption DEF Emplace, At, Knows
  <2> QED BY <1>1, <1>3, <2>1 DEF Emplace, Results, Fields
<1>4. CASE StoreException(t)
  BY <1>1, <1>4 DEF StoreException, Results, Fields
<1>5. CASE Publish(t)
  <2>1. \/ pc[t] = "publish_value" /\ value[s] \in Value /\ state'[s] = "value"
        \/ pc[t] = "publish_exception" /\ exception[s] /\ state'[s] = "exception"
    BY <1>0, <1>1, <1>5 DEF Publish, Knows, Fields
  <2>2. /\ \A r \in State : r # s => state'[r] = state[r]
        /\ UNCHANGED <<value, exception>>
    BY <1>1, <1>5 DEF Publish, Fields
  <2> QED BY <1>1, <1>2, <2>1, <2>2 DEF Results
<1> QED BY <1>3, <1>4, <1>5

(* Every step: who takes the value away was alone with the state. *)
LEMMA NextResults ==
  ASSUME FutureInv, [Next]_vars
  PROVE  Results'
<1>0. Fields /\ Settling /\ Results /\ Holders
  BY DEF FutureInv
<1>1. ASSUME NEW t \in Task, NEW p \in Promise,
             \/ \E v \in Value : SetValue(t, p, v)
             \/ SetVoid(t, p) \/ SetException(t, p) \/ DestroyEmpty(t, p)
      PROVE  Results'
  <2>1. /\ UNCHANGED <<value, exception, kind, future_obtained, future>>
        /\ \E status, place :
             /\ Claim(t, p, status, place)
             /\ status \in {"transition", "broken"} \/ (status = "value" /\ kind = "void")
    BY <1>1 DEF SetValue, SetVoid, SetException, DestroyEmpty, handleVars
  <2> QED BY <1>0, <2>1, ResultsClaim
<1>2. ASSUME NEW t \in Task, NEW p \in Promise,
             Destroy(t, p) \/ \E q \in Promise : Swap(t, p, q) \/ Move(t, p, q)
      PROVE  Results'
  BY <1>0, <1>2, ResultsFrame DEF Destroy, Swap, Move, cellVars
<1>3. ASSUME NEW t \in Task, NEW p \in Promise, GetFuture(t, p) PROVE Results'
  <2>1. /\ promise[p] \in State /\ ~future_obtained[promise[p]]
        /\ \A s \in State : future_obtained[s] => future_obtained'[s]
        /\ \A u \in Task : future'[u] = future[u] \/ future'[u] = promise[p]
        /\ UNCHANGED <<state, value, exception, kind>>
    BY <1>0, <1>3 DEF GetFuture, Hold, Fields
  <2> QED BY <1>0, <2>1 DEF Results
<1>4. ASSUME NEW t \in Task,
             Share(t) \/ Release(t) \/ \E u \in Task : Copy(t, u) \/ MoveFuture(t, u)
      PROVE  Results'
  <2>1. /\ \A u \in Task : future'[u] = NoState \/ \E v \in Task : future'[u] = future[v]
        /\ UNCHANGED <<state, value, exception, kind, future_obtained>>
    BY <1>0, <1>4 DEF Share, Release, Copy, MoveFuture, Hold, Fields, cellVars
  <2> QED BY <1>0, <2>1, FutureAssumption DEF Results
<1>5. ASSUME NEW t \in Task,
             \/ \E isGet \in BOOLEAN : Wait(t, isGet)
             \/ WaitIf(t) \/ RecheckReady(t) \/ PushWaiter(t) \/ BounceBack(t)
             \/ ResumeWaiter(t) \/ ResumeAll(t) \/ Break(t)
      PROVE  Results'
  BY <1>0, <1>5, ResultsFrame DEF Wait, WaitIf, RecheckReady, PushWaiter, BounceBack,
     ResumeWaiter, ResumeAll, Break, cellVars, handleVars
<1>6. ASSUME NEW t \in Task, WaitReturns(t) \/ GetThrows(t) \/ SharedGet(t)
      PROVE  Results'
  BY <1>0, <1>6, ResultsFrame DEF WaitReturns, GetThrows, SharedGet, Leave
<1>7. ASSUME NEW t \in Task, GetVoid(t) \/ GetReference(t) PROVE Results'
  <2>1. /\ \A u \in Task : future'[u] \in {NoState, future[u]}
        /\ UNCHANGED <<state, value, exception, kind, future_obtained>>
    BY <1>0, <1>7 DEF GetVoid, GetReference, Consume, Leave, Hold, Fields
  <2> QED BY <1>0, <2>1, FutureAssumption DEF Results
<1>8. ASSUME NEW t \in Task, GetValue(t) PROVE Results'
  <2> DEFINE s == future[t]
  <2>1. /\ pc[t] = "ready" /\ state[s] = "value" /\ ~shared[t]
        /\ value' = [value EXCEPT ![s] = "moved"]
        /\ future' = [future EXCEPT ![t] = NoState]
        /\ UNCHANGED <<state, exception, kind, future_obtained>>
    BY <1>8 DEF GetValue, Consume, Leave, At, Hold
  <2>2. s \in State /\ future_obtained[s] /\ s # NoState
    BY <1>0, <2>1, StatesAtHand, FutureAssumption DEF Holders
  <2>3. \A u \in Task : u # t => future[u] # s
    BY <1>0, <2>1, <2>2 DEF Holders
  <2>4. \A u \in Task : future'[u] # s /\ future'[u] \in {NoState, future[u]}
    BY <1>0, <2>1, <2>2, <2>3 DEF Fields
  <2>5. value'[s] = "moved" /\ \A r \in State : r # s => value'[r] = value[r]
    BY <1>0, <2>1, <2>2 DEF Fields
  <2> QED BY <1>0, <2>1, <2>2, <2>4, <2>5, FutureAssumption DEF Results
<1>9. ASSUME NEW t \in Task, Emplace(t) \/ StoreException(t) \/ Publish(t)
      PROVE  Results'
  BY <1>0, <1>9, ResultsStore
<1>10. CASE UNCHANGED vars
  BY <1>0, <1>10, ResultsFrame DEF vars
<1> QED BY <1>1, <1>2, <1>3, <1>4, <1>5, <1>6, <1>7, <1>8, <1>9, <1>10
        DEF Next, Others, Step, SetNext, PromiseNext, FutureNext, Moves

(* A step at which no future changes hands and nobody starts to wait. *)
LEMMA HoldersFrame ==
  ASSUME Holders, UNCHANGED <<future, shared, future_obtained>>,
         \A t \in Task : pc'[t] \in {"wait", "ready"} => pc[t] \in {"wait", "ready"}
  PROVE  Holders'
BY DEF Holders

(* Every step: get_future() is once per state, and only a shared_future is *)
(* copied.                                                                 *)
LEMMA NextHolders ==
  ASSUME FutureInv, [Next]_vars
  PROVE  Holders'
<1>0. Fields /\ Settling /\ Results /\ Holders
  BY DEF FutureInv
<1>1. ASSUME NEW t \in Task, NEW p \in Promise,
             \/ \E v \in Value : SetValue(t, p, v)
             \/ SetVoid(t, p) \/ SetException(t, p) \/ DestroyEmpty(t, p)
      PROVE  Holders'
  <2>1. /\ UNCHANGED <<future, shared, future_obtained>>
        /\ pc'[t] \notin {"wait", "ready"} /\ \A u \in Task : u # t => pc'[u] = pc[u]
    BY <1>0, <1>1 DEF SetValue, SetVoid, SetException, DestroyEmpty, Claim, Goto,
       handleVars, Fields
  <2> QED BY <1>0, <2>1, HoldersFrame
<1>2. ASSUME NEW t \in Task, NEW p \in Promise,
             Destroy(t, p) \/ \E q \in Promise : Swap(t, p, q) \/ Move(t, p, q)
      PROVE  Holders'
  BY <1>0, <1>2, HoldersFrame DEF Destroy, Swap, Move, cellVars, localVars
<1>3. ASSUME NEW t \in Task, NEW p \in Promise, GetFuture(t, p) PROVE Holders'
  <2>1. /\ promise[p] \in State /\ ~future_obtained[promise[p]]
        /\ future_obtained'[promise[p]]
        /\ \A s \in State : future_obtained[s] => future_obtained'[s]
        /\ future'[t] = promise[p] /\ pc' = pc
        /\ \A u \in Task : u # t => future'[u] = future[u] /\ shared'[u] = shared[u]
    BY <1>0, <1>3 DEF GetFuture, Hold, Fields, localVars
  <2>2. \A u \in Task : future[u] # promise[p]
    BY <1>0, <2>1, FutureAssumption DEF Holders
  <2> QED BY <1>0, <2>1, <2>2, FutureAssumption DEF Holders, Fields
<1>4. ASSUME NEW t \in Task, Share(t) \/ Release(t) PROVE Holders'
  <2>1. /\ pc[t] = "out" /\ pc' = pc /\ future_obtained' = future_obtained
        /\ \/ future'[t] = future[t] /\ shared'[t]
           \/ future'[t] = NoState
        /\ \A u \in Task : u # t => future'[u] = future[u] /\ shared'[u] = shared[u]
    BY <1>0, <1>4 DEF Share, Release, HasFuture, Free, Hold, Fields, cellVars, localVars
  <2> QED BY <1>0, <2>1 DEF Holders
<1>5. ASSUME NEW t \in Task, NEW v \in Task, Copy(t, v) PROVE Holders'
  <2>1. /\ pc[t] = "out" /\ pc' = pc /\ future_obtained' = future_obtained
        /\ future'[t] = future[v] /\ shared'[t] /\ shared[v] /\ t # v
        /\ \A u \in Task : u # t => future'[u] = future[u] /\ shared'[u] = shared[u]
    BY <1>0, <1>5 DEF Copy, Free, Hold, Fields, cellVars, localVars
  <2> QED BY <1>0, <2>1 DEF Holders
<1>6. ASSUME NEW t \in Task, NEW v \in Task, MoveFuture(t, v) PROVE Holders'
  <2>1. /\ pc[t] = "out" /\ pc[v] = "out" /\ pc' = pc /\ t # v
        /\ future_obtained' = future_obtained
        /\ future'[v] = future[t] /\ shared'[v] = shared[t] /\ future'[t] = NoState
        /\ \A u \in Task : u # t /\ u # v => future'[u] = future[u] /\ shared'[u] = shared[u]
    BY <1>0, <1>6 DEF MoveFuture, HasFuture, Free, Fields, cellVars, localVars
  <2> QED BY <1>0, <2>1 DEF Holders
<1>7. ASSUME NEW t \in Task, (\E isGet \in BOOLEAN : Wait(t, isGet)) \/ WaitIf(t)
      PROVE  Holders'
  <2>1. /\ UNCHANGED <<future, shared, future_obtained>> /\ future[t] # NoState
        /\ \A u \in Task : u # t => pc'[u] = pc[u]
    BY <1>0, <1>7 DEF Wait, WaitIf, HasFuture, At, Goto, Fields, Holders, cellVars,
       handleVars
  <2> QED BY <1>0, <2>1 DEF Holders
<1>8. ASSUME NEW t \in Task,
             RecheckReady(t) \/ PushWaiter(t) \/ BounceBack(t) \/ ResumeWaiter(t)
      PROVE  Holders'
  BY <1>0, <1>8, HoldersFrame DEF RecheckReady, PushWaiter, BounceBack,
     ResumeWaiter, cellVars, handleVars, localVars
<1>9. ASSUME NEW t \in Task,
             \/ WaitReturns(t) \/ GetThrows(t) \/ SharedGet(t) \/ GetVoid(t)
             \/ GetReference(t) \/ GetValue(t)
      PROVE  Holders'
  <2>1. /\ pc'[t] = "out" /\ future_obtained' = future_obtained
        /\ \/ future' = future /\ shared' = shared
           \/ future'[t] = NoState
        /\ \A u \in Task : u # t => /\ future'[u] = future[u] /\ shared'[u] = shared[u]
                                    /\ pc'[u] = pc[u]
    BY <1>0, <1>9 DEF WaitReturns, GetThrows, SharedGet, GetVoid, GetReference,
       GetValue, Consume, Leave, Hold, Goto, Fields
  <2> QED BY <1>0, <2>1 DEF Holders
<1>10. ASSUME NEW t \in Task,
             Emplace(t) \/ StoreException(t) \/ Publish(t) \/ ResumeAll(t) \/ Break(t)
      PROVE  Holders'
  <2>1. /\ UNCHANGED <<future, shared, future_obtained>>
        /\ pc'[t] \notin {"wait", "ready"} /\ \A u \in Task : u # t => pc'[u] = pc[u]
    BY <1>0, <1>10 DEF Emplace, StoreException, Publish, ResumeAll, Break, Goto,
       cellVars, handleVars, Fields
  <2> QED BY <1>0, <2>1, HoldersFrame
<1>11. CASE UNCHANGED vars
  BY <1>0, <1>11, HoldersFrame DEF vars
<1> QED BY <1>1, <1>2, <1>3, <1>4, <1>5, <1>6, <1>7, <1>8, <1>9, <1>10, <1>11
        DEF Next, Others, Step, SetNext, PromiseNext, FutureNext, Moves

-----------------------------------------------------------------------------
(* Sleepers and NoLostWakeup: who sleeps, and who will wake it. *)

(* A status never goes back: a settled state stays settled. *)
LEMMA SettledStays ==
  ASSUME FutureInv, [Next]_vars, NEW s \in State, ready(s)
  PROVE  ready(s)' /\ state'[s] = state[s]
<1>0. Fields /\ Settling
  BY DEF FutureInv
<1>1. state[s] \in {"value", "exception", "broken"}
  BY DEF ready
<1>2. CASE UNCHANGED state
  BY <1>2 DEF ready
<1>3. ASSUME NEW t \in Task, NEW p \in Promise, NEW status, NEW place,
             Claim(t, p, status, place)
      PROVE  state'[s] = state[s]
  BY <1>0, <1>1, <1>3 DEF Claim, Fields
<1>4. ASSUME NEW t \in Task, Publish(t) PROVE state'[s] = state[s]
  <2>1. state[Mine(t)] = "transition"
    BY <1>0, <1>4 DEF Publish, Settling, Knows, Setting
  <2> QED BY <1>0, <1>1, <1>4, <2>1 DEF Publish, Fields
<1>5. state'[s] = state[s]
  BY <1>2, <1>3, <1>4 DEF Next, Others, Step, SetNext, PromiseNext, FutureNext,
     Moves, SetValue, SetVoid, SetException, DestroyEmpty, Destroy, Swap, Move,
     GetFuture, Share, Release, Copy, MoveFuture, Wait, WaitIf, RecheckReady,
     PushWaiter, BounceBack, ResumeWaiter, ResumeAll, Break, Emplace,
     StoreException, WaitReturns, GetThrows, SharedGet, GetVoid, GetReference,
     GetValue, Consume, Leave, cellVars, vars
<1> QED BY <1>1, <1>5 DEF ready

(* A step of running tasks that leaves the queues alone. *)
LEMMA SleepersQuiet ==
  ASSUME WQInv, Fields, Holders, Sleepers, UNCHANGED wqVars,
         \A s \in State : ready(s) => ready(s)',
         \A u \in Task : \/ pc'[u] = pc[u] /\ future'[u] = future[u]
                         \/ Running(u) /\ pc'[u] # "ready"
  PROVE  Sleepers'
<1> USE DEF wqVars
<1>1. ASSUME NEW u \in Task, susp[u] # "idle"
      PROVE  pc'[u] = pc[u] /\ future'[u] = future[u]
  BY <1>1 DEF Running
<1>2. \A u \in Task : pc[u] = "ready" => future[u] \in State
  BY DEF Holders, Fields
<1>3. \A s \in State : Range(m_waiters[s]) \subseteq {u \in Task : susp[u] = "parked"}
  <2>1. \A s \in State : m_waiters[s] \in Seq(Task)
    BY FutureAssumption DEF WQInv, WQTypeOK
  <2>2. \A s \in State : Range(m_waiters[s]) \subseteq Task
    BY <2>1 DEF Range
  <2> QED BY <2>2, UnparkedUnlisted, FutureAssumption
<1>4. \A u \in Task : Range(batch[u]) \subseteq {v \in Task : susp[v] = "parked"}
  <2>1. \A u \in Task : batch[u] \in Seq(Task)
    BY DEF WQInv, WQTypeOK
  <2>2. \A u \in Task : Range(batch[u]) \subseteq Task
    BY <2>1 DEF Range
  <2> QED BY <2>2, UnparkedUnlisted
<1>5. \A s \in State, u \in Task : m_waiters_mutex[s] = u => susp[u] = "push"
  BY FutureAssumption, NoTaskAssumption DEF WQInv, PushingHoldsLock
<1>6. \A u \in Task : susp'[u] # "idle" => pc'[u] = "ready"
  BY <1>1 DEF Sleepers
<1>7. \A s \in State : \A u \in Range(m_waiters'[s]) : future'[u] = s
  BY <1>1, <1>3 DEF Sleepers
<1>8. \A s \in State, u \in Task : m_waiters_mutex'[s] = u => future'[u] = s
  BY <1>1, <1>5 DEF Sleepers
<1>9. ASSUME NEW u \in Task, pc'[u] = "ready", susp'[u] \in {"idle", "bounce"}
      PROVE  ready(future[u])' /\ future'[u] = future[u]
  BY <1>2, <1>9 DEF Sleepers, ready
<1>10. ASSUME NEW u \in Task, NEW v \in Range(batch'[u]) PROVE ready(future[v])'
  <2>1. v \in Task /\ future'[v] = future[v] /\ future[v] \in State
    BY <1>1, <1>2, <1>4 DEF Sleepers
  <2>2. ready(future[v])
    BY DEF Sleepers
  <2> QED BY <2>1, <2>2 DEF ready
<1> QED BY <1>6, <1>7, <1>8, <1>9, <1>10 DEF Sleepers

(* The end of set_* and ~promise: the whole queue of a settled state. *)
LEMMA SleepersSwap ==
  ASSUME WQInv, Fields, Settling, Holders, Sleepers, NEW t \in Task,
         pc[t] \in {"resume_all", "break"}, Running(t), SwapAll(t, Mine(t)),
         Goto(t, "out"), UNCHANGED <<future, state>>
  PROVE  Sleepers'
<1> DEFINE s == Mine(t)
<1>1. s \in State /\ s \in Queue /\ ready(s)
  <2>1. Knows(t)
    BY DEF Settling
  <2> QED BY <2>1, StatesAtHand, FutureAssumption DEF Knows, ready
<1>2. /\ batch'[t] = m_waiters[s] /\ Range(m_waiters'[s]) = {}
      /\ \A p \in Queue : p # s => m_waiters'[p] = m_waiters[p]
      /\ \A u \in Task : u # t => batch'[u] = batch[u]
      /\ susp' = susp /\ m_waiters_mutex' = m_waiters_mutex
  BY <1>1, SwapAllEffect DEF SwapAll
<1>3. pc'[t] = "out" /\ \A u \in Task : u # t => pc'[u] = pc[u]
  BY DEF Goto, Fields
<1>4. \A u \in Task : ready(future[u])' <=> ready(future[u])
  BY DEF ready
<1>5. \A v \in Range(batch'[t]) : ready(future[v])'
  BY <1>1, <1>2 DEF Sleepers, ready
<1>6. \A u \in Task : \A v \in Range(batch'[u]) : ready(future[v])'
  BY <1>2, <1>5 DEF Sleepers, ready
<1> QED BY <1>1, <1>2, <1>3, <1>4, <1>6, FutureAssumption DEF Sleepers, Running

(* Every step. *)
LEMMA NextSleepers ==
  ASSUME FutureInv, [Next]_vars
  PROVE  Sleepers'
<1>0. WQInv /\ Fields /\ Settling /\ Holders /\ Sleepers
  BY DEF FutureInv
<1>1. \A s \in State : ready(s) => ready(s)'
  BY SettledStays
<1>2. ASSUME NEW t \in Task, NEW p \in Promise,
             \/ \E v \in Value : SetValue(t, p, v)
             \/ SetVoid(t, p) \/ SetException(t, p) \/ DestroyEmpty(t, p)
      PROVE  Sleepers'
  <2>1. /\ future' = future /\ Running(t) /\ pc'[t] # "ready" /\ UNCHANGED wqVars
        /\ \A u \in Task : u # t => pc'[u] = pc[u]
    BY <1>0, <1>2 DEF SetValue, SetVoid, SetException, DestroyEmpty, Claim, Free,
       Goto, handleVars, Fields
  <2> QED BY <1>0, <1>1, <2>1, SleepersQuiet
<1>3. ASSUME NEW t \in Task, NEW p \in Promise,
             Destroy(t, p) \/ \E q \in Promise : Swap(t, p, q) \/ Move(t, p, q)
      PROVE  Sleepers'
  BY <1>0, <1>1, <1>3, SleepersQuiet DEF Destroy, Swap, Move, localVars
<1>4. ASSUME NEW t \in Task,
             \/ \E p \in Promise : GetFuture(t, p)
             \/ Share(t) \/ Release(t) \/ \E u \in Task : Copy(t, u) \/ MoveFuture(t, u)
      PROVE  Sleepers'
  <2>1. /\ pc' = pc /\ UNCHANGED wqVars
        /\ \A u \in Task : future'[u] = future[u] \/ (Running(u) /\ pc[u] = "out")
    BY <1>0, <1>4 DEF GetFuture, Share, Release, Copy, MoveFuture, HasFuture, Hold,
       Free, localVars, Fields
  <2> QED BY <1>0, <1>1, <2>1, SleepersQuiet
<1>5. ASSUME NEW t \in Task,
             \/ \E isGet \in BOOLEAN : Wait(t, isGet)
             \/ WaitReturns(t) \/ GetThrows(t) \/ SharedGet(t) \/ GetVoid(t)
             \/ GetReference(t) \/ GetValue(t)
             \/ Emplace(t) \/ StoreException(t) \/ Publish(t)
      PROVE  Sleepers'
  <2>1. /\ Running(t) /\ pc'[t] # "ready" /\ UNCHANGED wqVars
        /\ \A u \in Task : u # t => pc'[u] = pc[u] /\ future'[u] = future[u]
    BY <1>0, <1>5 DEF Wait, HasFuture, Free, WaitReturns, GetThrows, SharedGet, GetVoid,
       GetReference, GetValue, Consume, Leave, Emplace, StoreException, Publish,
       At, Hold, Goto, handleVars, Fields
  <2> QED BY <1>0, <1>1, <2>1, SleepersQuiet
<1>6. ASSUME NEW t \in Task, WaitIf(t) PROVE Sleepers'
  <2>1. /\ Running(t) /\ pc[t] = "wait" /\ pc'[t] = "ready"
        /\ \A u \in Task : u # t => pc'[u] = pc[u] /\ susp'[u] = susp[u]
        /\ ready(future[t]) \/ susp'[t] = "suspended"
        /\ UNCHANGED <<future, state, m_waiters, m_waiters_mutex, batch>>
    BY <1>0, <1>6 DEF WaitIf, At, Goto, Suspend, wqVars, cellVars, handleVars, Fields,
       WQInv, WQTypeOK
  <2> QED BY <1>0, <2>1 DEF Sleepers, ready
<1>7. ASSUME NEW t \in Task, RecheckReady(t) PROVE Sleepers'
  <2>1. future[t] \in State /\ future[t] \in Queue
    BY <1>0, <1>7, StatesAtHand, FutureAssumption DEF RecheckReady
  <2>2. /\ pc[t] = "ready" /\ UNCHANGED <<pc, future, state, m_waiters, batch>>
        /\ \A u \in Task : u # t => susp'[u] = susp[u]
        /\ ready(future[t]) \/ susp'[t] = "push"
        /\ \A q \in Queue : m_waiters_mutex'[q] = m_waiters_mutex[q]
                             \/ (q = future[t] /\ m_waiters_mutex'[q] = t)
    BY <1>0, <1>7, <2>1 DEF RecheckReady, Recheck, cellVars, handleVars, localVars,
       WQInv, WQTypeOK
  <2> QED BY <1>0, <2>1, <2>2, FutureAssumption DEF Sleepers, ready
<1>8. ASSUME NEW t \in Task, PushWaiter(t) PROVE Sleepers'
  <2>1. future[t] \in State /\ future[t] \in Queue
    BY <1>0, <1>8, StatesAtHand, FutureAssumption DEF PushWaiter
  <2>2. /\ pc[t] = "ready" /\ UNCHANGED <<pc, future, state, batch>>
        /\ Push(t, future[t])
    BY <1>8 DEF PushWaiter, Push, cellVars, handleVars, localVars
  <2>3. /\ Range(m_waiters'[future[t]]) = Range(m_waiters[future[t]]) \cup {t}
        /\ \A q \in Queue : q # future[t] => m_waiters'[q] = m_waiters[q]
        /\ susp'[t] = "parked" /\ \A u \in Task : u # t => susp'[u] = susp[u]
    BY <1>0, <2>1, <2>2, PushEffect
  <2>4. \A q \in Queue : m_waiters_mutex'[q] \in {m_waiters_mutex[q], NoTask}
    BY <1>0, <2>2 DEF Push, WQInv, WQTypeOK
  <2> QED BY <1>0, <2>1, <2>2, <2>3, <2>4, FutureAssumption, NoTaskAssumption
          DEF Sleepers, ready
<1>9. ASSUME NEW t \in Task, BounceBack(t) PROVE Sleepers'
  <2>1. /\ UNCHANGED <<pc, future, state, m_waiters, m_waiters_mutex, batch>>
        /\ susp[t] = "bounce" /\ susp'[t] = "idle"
        /\ \A u \in Task : u # t => susp'[u] = susp[u]
    BY <1>0, <1>9 DEF BounceBack, Bounce, cellVars, handleVars, localVars, WQInv, WQTypeOK
  <2> QED BY <1>0, <2>1 DEF Sleepers, ready
<1>10. ASSUME NEW t \in Task, ResumeAll(t) \/ Break(t) PROVE Sleepers'
  BY <1>0, <1>10, SleepersSwap DEF ResumeAll, Break, At, cellVars, handleVars
<1>11. ASSUME NEW t \in Task, ResumeWaiter(t) PROVE Sleepers'
  <2>1. ResumeNext(t) /\ UNCHANGED <<pc, future, state, m_waiters, m_waiters_mutex>>
    BY <1>11 DEF ResumeWaiter, ResumeNext, cellVars, handleVars, localVars
  <2>2. PICK h \in Task :
           /\ h \in Range(batch[t]) /\ susp[h] = "parked" /\ susp'[h] = "idle"
           /\ Range(batch'[t]) = Range(batch[t]) \ {h}
           /\ \A v \in Task : v # t => batch'[v] = batch[v]
           /\ \A v \in Task : v # h => susp'[v] = susp[v]
    BY <1>0, <2>1, ResumeNextEffect
  <2>3. \A u \in Task : Range(batch'[u]) \subseteq Range(batch[u])
    BY <2>2
  <2> QED BY <1>0, <2>1, <2>2, <2>3 DEF Sleepers, ready
<1>12. CASE UNCHANGED vars
  BY <1>0, <1>1, <1>12, SleepersQuiet DEF vars, wqVars
<1> QED BY <1>2, <1>3, <1>4, <1>5, <1>6, <1>7, <1>8, <1>9, <1>10, <1>11, <1>12
        DEF Next, Others, Step, SetNext, PromiseNext, FutureNext, Moves

(* A step of running tasks that leaves the queues alone, and after which a *)
(* state just settled is in the hands of the task that settled it.         *)
LEMMA WakeupQuiet ==
  ASSUME WQInv, Fields, Holders, Sleepers, NoLostWakeup, UNCHANGED wqVars,
         \A u \in Task : future'[u] = future[u] \/ Running(u),
         \A u \in Task : pc[u] \in {"resume_all", "break"} =>
                           pc'[u] = pc[u] /\ Mine(u)' = Mine(u),
         \A s \in State : ready(s)' /\ ~ready(s) =>
           \E u \in Task : pc'[u] \in {"resume_all", "break"} /\ Mine(u)' = s
  PROVE  NoLostWakeup'
<1> SUFFICES ASSUME NEW r \in Task, susp'[r] \in {"push", "parked"},
                    ready(future[r])'
             PROVE  \E u \in Task : \/ /\ pc'[u] \in {"resume_all", "break"}
                                        /\ Mine(u)' = future'[r]
                                     \/ r \in Range(batch'[u])
  BY DEF NoLostWakeup
<1>1. susp[r] \in {"push", "parked"} /\ future'[r] = future[r]
  BY DEF wqVars, Running
<1>2. future[r] \in State
  BY <1>1 DEF Sleepers, Holders, Fields
<1>3. CASE ready(future[r])
  BY <1>1, <1>3 DEF NoLostWakeup, wqVars
<1>4. CASE ~ready(future[r])
  <2>1. ready(future[r])' <=> state'[future[r]] \in {"value", "exception", "broken"}
    BY <1>1 DEF ready
  <2>2. \A s \in State : state'[s] \in {"value", "exception", "broken"} /\ ~ready(s) =>
           \E u \in Task : pc'[u] \in {"resume_all", "break"} /\ Mine(u)' = s
    BY DEF ready
  <2> QED BY <1>1, <1>2, <1>4, <2>1, <2>2
<1> QED BY <1>3, <1>4

(* The end of set_* and ~promise: every sleeper of the state is taken. *)
LEMMA WakeupSwap ==
  ASSUME WQInv, Fields, Settling, Holders, Sleepers, NoLostWakeup, NEW t \in Task,
         pc[t] \in {"resume_all", "break"}, Running(t), SwapAll(t, Mine(t)),
         Goto(t, "out"), using' = [using EXCEPT ![t] = NoPromise],
         \A p \in Promise : p # using[t] => promise'[p] = promise[p],
         UNCHANGED <<future, state>>
  PROVE  NoLostWakeup'
<1> DEFINE s == Mine(t)
<1>1. s \in State /\ s \in Queue
  BY StatesAtHand, FutureAssumption
<1>2. /\ batch'[t] = m_waiters[s] /\ batch[t] = <<>>
      /\ \A u \in Task : u # t => batch'[u] = batch[u]
      /\ susp' = susp /\ m_waiters_mutex[s] = NoTask
  BY <1>1, SwapAllEffect DEF SwapAll, Running
<1>3. SUFFICES ASSUME NEW r \in Task, susp[r] \in {"push", "parked"},
                      ready(future[r])
               PROVE  \E u \in Task : \/ /\ pc'[u] \in {"resume_all", "break"}
                                          /\ Mine(u)' = future[r]
                                       \/ r \in Range(batch'[u])
  BY <1>2 DEF NoLostWakeup, ready
<1>4. ASSUME NEW u \in Task, pc[u] \in {"resume_all", "break"}, Mine(u) # s
      PROVE  pc'[u] = pc[u] /\ Mine(u)' = Mine(u)
  <2>1. u # t
    BY <1>4
  <2>2. using[u] \in Promise /\ using[u] # using[t]
    BY <1>4, StatesAtHand DEF Mine
  <2> QED BY <2>1, <2>2 DEF Goto, Mine, Fields
<1>5. ASSUME NEW u \in Task, r \in Range(batch[u]) PROVE r \in Range(batch'[u])
  BY <1>2, <1>5, RangeEmpty
<1>6. CASE future[r] # s
  BY <1>3, <1>4, <1>5, <1>6 DEF NoLostWakeup
<1>7. CASE future[r] = s
  <2>1. susp[r] # "push"
    <3> SUFFICES ASSUME susp[r] = "push" PROVE FALSE
      OBVIOUS
    <3>1. PICK q \in Queue : m_waiters_mutex[q] = r
      BY DEF WQInv, PushingHoldsLock
    <3>2. q = s
      BY <1>7, <3>1, FutureAssumption DEF Sleepers
    <3> QED BY <1>2, <3>1, <3>2, NoTaskAssumption
  <2>2. InSomeList(r)
    BY <1>3, <2>1 DEF WQInv, NodeLifetime
  <2>3. CASE \E u \in Task : r \in Range(batch[u])
    BY <1>5, <2>3
  <2>4. ASSUME NEW q \in Queue, r \in Range(m_waiters[q])
        PROVE  r \in Range(batch'[t])
    <3>1. q = s
      BY <1>7, <2>4, FutureAssumption DEF Sleepers
    <3> QED BY <1>2, <2>4, <3>1
  <2> QED BY <2>2, <2>3, <2>4 DEF InSomeList
<1> QED BY <1>6, <1>7

(* Every step. *)
LEMMA NextNoLostWakeup ==
  ASSUME FutureInv, [Next]_vars
  PROVE  NoLostWakeup'
<1>0. /\ WQInv /\ Fields /\ Settling /\ Holders /\ Sleepers /\ NoLostWakeup
      /\ \A u \in Task : Knows(u)
  BY DEF FutureInv, Settling
<1>1. ASSUME NEW t \in Task, NEW p \in Promise,
             \/ \E v \in Value : SetValue(t, p, v)
             \/ SetVoid(t, p) \/ SetException(t, p) \/ DestroyEmpty(t, p)
      PROVE  NoLostWakeup'
  <2>1. PICK status, place : Claim(t, p, status, place) /\ Entry(status, place)
    BY <1>1 DEF SetValue, SetVoid, SetException, DestroyEmpty, Entry
  <2>2. UNCHANGED <<future, promise>> /\ UNCHANGED wqVars
    BY <1>1 DEF SetValue, SetVoid, SetException, DestroyEmpty, handleVars
  <2>3. /\ pc[t] = "out" /\ pc'[t] = place /\ using'[t] = p
        /\ \A u \in Task : u # t => pc'[u] = pc[u] /\ using'[u] = using[u]
        /\ state'[promise[p]] = status
        /\ \A s \in State : s # promise[p] => state'[s] = state[s]
    BY <1>0, <2>1 DEF Claim, Free, Goto, Fields
  <2>4. Mine(t)' = promise[p] /\ \A u \in Task : u # t => Mine(u)' = Mine(u)
    BY <2>2, <2>3 DEF Mine
  <2> QED BY <1>0, <2>1, <2>2, <2>3, <2>4, WakeupQuiet DEF Entry, ready
<1>2. ASSUME NEW t \in Task, NEW p \in Promise,
             Destroy(t, p) \/ \E q \in Promise : Swap(t, p, q) \/ Move(t, p, q)
      PROVE  NoLostWakeup'
  <2>1. /\ UNCHANGED <<pc, using, state, future>> /\ UNCHANGED wqVars
        /\ \A r \in Promise : (\E u \in Task : using[u] = r) => promise'[r] = promise[r]
    BY <1>0, <1>2 DEF Destroy, Swap, Move, Replace, Unused, Fields, cellVars, localVars
  <2>2. \A u \in Task : pc[u] \in {"resume_all", "break"} => Mine(u)' = Mine(u)
    BY <1>0, <2>1, StatesAtHand DEF Mine
  <2> QED BY <1>0, <2>1, <2>2, WakeupQuiet DEF ready
<1>3. ASSUME NEW t \in Task,
             \/ \E p \in Promise : GetFuture(t, p)
             \/ Share(t) \/ Release(t) \/ \E u \in Task : Copy(t, u) \/ MoveFuture(t, u)
      PROVE  NoLostWakeup'
  <2>1. /\ UNCHANGED <<pc, using, state, promise>> /\ UNCHANGED wqVars
        /\ \A u \in Task : future'[u] = future[u] \/ Running(u)
    BY <1>0, <1>3 DEF GetFuture, Share, Release, Copy, MoveFuture, HasFuture, Hold,
       Free, localVars, cellVars, Fields
  <2> QED BY <1>0, <2>1, WakeupQuiet DEF ready, Mine
<1>4. ASSUME NEW t \in Task,
             \/ \E isGet \in BOOLEAN : Wait(t, isGet)
             \/ WaitReturns(t) \/ GetThrows(t) \/ SharedGet(t) \/ GetVoid(t)
             \/ GetReference(t) \/ GetValue(t) \/ Emplace(t) \/ StoreException(t)
      PROVE  NoLostWakeup'
  <2>1. /\ UNCHANGED <<using, state, promise>> /\ UNCHANGED wqVars
        /\ \A u \in Task : u # t => pc'[u] = pc[u] /\ future'[u] = future[u]
        /\ pc[t] \notin {"resume_all", "break"} /\ Running(t)
    BY <1>0, <1>4 DEF Wait, HasFuture, Free, WaitReturns, GetThrows, SharedGet, GetVoid,
       GetReference, GetValue, Consume, Leave, Emplace, StoreException,
       At, Hold, Goto, handleVars, cellVars, Fields
  <2> QED BY <1>0, <2>1, WakeupQuiet DEF ready, Mine
<1>5. ASSUME NEW t \in Task, Publish(t) PROVE NoLostWakeup'
  <2>1. /\ UNCHANGED <<using, promise, future>> /\ UNCHANGED wqVars
        /\ pc'[t] = "resume_all" /\ pc[t] \notin {"resume_all", "break"}
        /\ \A u \in Task : u # t => pc'[u] = pc[u]
        /\ \A s \in State : s # Mine(t) => state'[s] = state[s]
    BY <1>0, <1>5 DEF Publish, Goto, handleVars, Fields
  <2>2. \A u \in Task : Mine(u)' = Mine(u)
    BY <2>1 DEF Mine
  <2> QED BY <1>0, <2>1, <2>2, WakeupQuiet DEF ready
<1>6. ASSUME NEW t \in Task,
             WaitIf(t) \/ RecheckReady(t) \/ PushWaiter(t) \/ BounceBack(t)
      PROVE  NoLostWakeup'
  <2>1. /\ UNCHANGED <<using, promise, future, state, batch>>
        /\ pc'[t] = pc[t] \/ pc[t] = "wait"
        /\ \A u \in Task : u # t => pc'[u] = pc[u] /\ susp'[u] = susp[u]
        /\ susp'[t] \in {"push", "parked"} => susp[t] = "push" \/ ~ready(future[t])
    BY <1>0, <1>6 DEF WaitIf, RecheckReady, PushWaiter, BounceBack, Suspend, Recheck,
       Push, Bounce, At, Goto, cellVars, handleVars, localVars, wqVars, Running,
       Fields, WQInv, WQTypeOK
  <2>2. /\ \A u \in Task : Mine(u)' = Mine(u)
        /\ \A u \in Task : ready(future[u])' <=> ready(future[u])
    BY <2>1 DEF Mine, ready
  <2>3. \A u \in Task : pc[u] \in {"resume_all", "break"} => pc'[u] = pc[u]
    BY <2>1
  <2> QED BY <1>0, <2>1, <2>2, <2>3 DEF NoLostWakeup
<1>7. ASSUME NEW t \in Task, ResumeAll(t) \/ Break(t) PROVE NoLostWakeup'
  <2>1. /\ pc[t] \in {"resume_all", "break"} /\ Running(t) /\ SwapAll(t, Mine(t))
        /\ Goto(t, "out") /\ using' = [using EXCEPT ![t] = NoPromise]
        /\ \A p \in Promise : p # using[t] => promise'[p] = promise[p]
        /\ UNCHANGED <<future, state>>
    BY <1>0, <1>7 DEF ResumeAll, Break, At, Replace, cellVars, handleVars, Fields
  <2> QED BY <1>0, <2>1, WakeupSwap
<1>8. ASSUME NEW t \in Task, ResumeWaiter(t) PROVE NoLostWakeup'
  <2>1. ResumeNext(t) /\ UNCHANGED <<pc, future, state, using, promise>>
    BY <1>8 DEF ResumeWaiter, cellVars, handleVars, localVars
  <2>2. PICK h \in Task :
           /\ h \in Range(batch[t]) /\ susp[h] = "parked" /\ susp'[h] = "idle"
           /\ Range(batch'[t]) = Range(batch[t]) \ {h}
           /\ \A v \in Task : v # t => batch'[v] = batch[v]
           /\ \A v \in Task : v # h => susp'[v] = susp[v]
    BY <1>0, <2>1, ResumeNextEffect
  <2>3. \A r, u \in Task : r # h /\ r \in Range(batch[u]) => r \in Range(batch'[u])
    BY <2>2
  <2>4. /\ \A u \in Task : Mine(u)' = Mine(u)
        /\ \A u \in Task : ready(future[u])' <=> ready(future[u])
    BY <2>1 DEF Mine, ready
  <2> QED BY <1>0, <2>1, <2>2, <2>3, <2>4 DEF NoLostWakeup
<1>9. CASE UNCHANGED vars
  BY <1>0, <1>9, WakeupQuiet DEF vars, wqVars, ready, Mine
<1> QED BY <1>1, <1>2, <1>3, <1>4, <1>5, <1>6, <1>7, <1>8, <1>9
        DEF Next, Others, Step, SetNext, PromiseNext, FutureNext, Moves

-----------------------------------------------------------------------------
(* Promises and futures. *)

(* Every step keeps the invariant. *)
LEMMA NextInv == FutureInv /\ [Next]_vars => FutureInv'
<1> SUFFICES ASSUME FutureInv, [Next]_vars PROVE FutureInv'
  OBVIOUS
<1>1. /\ WQInv' /\ Fields' /\ Apart' /\ Settling' /\ Results' /\ Holders'
      /\ Sleepers' /\ NoLostWakeup'
  BY NextWQInv, NextFields, NextApart, NextSettling, NextResults, NextHolders,
     NextSleepers, NextNoLostWakeup
<1> QED BY <1>1 DEF FutureInv

(* A settled state a task was let through by is not one with its value     *)
(* moved away, for that task still has its future.                         *)
LEMMA InvReaders == FutureInv => ReadersFindResult
<1> SUFFICES ASSUME FutureInv, NEW t \in Task, pc[t] = "ready",
                    susp[t] \in {"idle", "bounce"}
             PROVE  LET s == future[t]
                    IN  \/ state[s] = "broken"
                        \/ state[s] = "exception" /\ exception[s]
                        \/ state[s] = "value" /\ (kind = "void" \/ value[s] \in Value)
  BY DEF ReadersFindResult
<1>1. future[t] \in State /\ ready(future[t])
  BY StatesAtHand DEF FutureInv, Sleepers
<1> QED BY <1>1 DEF FutureInv, Results, ready

(* The type invariant, with its one setter for each state in transition. *)
LEMMA InvType == FutureInv => TypeOK
<1> SUFFICES ASSUME FutureInv PROVE TypeOK
  OBVIOUS
<1>1. Fields /\ Apart /\ Settling /\ WQTypeOK
  BY DEF FutureInv, WQInv
<1>2. ASSUME NEW t \in Task, NEW u \in Task, pc[t] \in Setting, pc[u] \in Setting,
             Mine(t) = Mine(u)
      PROVE  t = u
  <2>1. /\ using[t] \in Promise /\ using[u] \in Promise /\ Mine(t) # NoState
    BY <1>1, <1>2 DEF Settling, Knows, Fields
  <2> QED BY <1>1, <1>2, <2>1, FutureAssumption DEF Mine, Apart, Settling
<1>3. ASSUME NEW t \in Task, pc[t] \in Setting PROVE state[Mine(t)] = "transition"
  BY <1>1, <1>3 DEF Settling, Knows
<1>4. OneSetter
  BY <1>1, <1>2, <1>3 DEF OneSetter, Settling, Knows
<1> QED BY <1>1, <1>4 DEF TypeOK, Fields

(* The cell of a state is pending until it is settled, and shows the       *)
(* result, or that it was taken, from then on.                             *)
Outcomes == Value \cup {"void", "exception", "broken"}
CellOf(s) == IF ~ready(s) THEN "pending"
             ELSE IF state[s] = "value" THEN (IF kind = "void" THEN "void" ELSE value[s])
             ELSE state[s]

(* A step that settles nothing and takes nothing. *)
LEMMA CellSame ==
  ASSUME Fields, \A s \in State : CellOf(s)' = CellOf(s)
  PROVE  UNCHANGED cell
BY DEF cell, CellOf, ready

(* A step that settles one state. *)
LEMMA CellSettles ==
  ASSUME Fields, NEW s \in State, CellOf(s) = "pending", CellOf(s)' \in Outcomes,
         \A r \in State : r # s => CellOf(r)' = CellOf(r)
  PROVE  Cell!Next
<1>1. cell = [r \in State |-> CellOf(r)] /\ cell' = [r \in State |-> CellOf(r)']
  BY DEF cell, CellOf, ready
<1>2. cell' = [cell EXCEPT ![s] = CellOf(s)'] /\ cell[s] = "pending"
  BY <1>1
<1>3. Cell!Settle(s, CellOf(s)')
  BY <1>2 DEF Cell!Settle
<1> QED BY <1>3 DEF Cell!Next, Outcomes

(* The compare-and-swap of set_value of void, and of break_promise. *)
LEMMA CellClaim ==
  ASSUME Fields, NEW t \in Task, NEW p \in Promise, NEW status, NEW place,
         Claim(t, p, status, place),
         status \in {"transition", "broken"} \/ (status = "value" /\ kind = "void"),
         UNCHANGED <<value, kind>>
  PROVE  [Cell!Next]_cell
<1>1. PICK s \in State :
         /\ state[s] = "empty" /\ state'[s] = status
         /\ \A r \in State : r # s => state'[r] = state[r]
  BY DEF Claim, Fields
<1>2. \A r \in State : r # s => CellOf(r)' = CellOf(r)
  BY <1>1 DEF CellOf, ready
<1>3. CellOf(s) = "pending"
  BY <1>1 DEF CellOf, ready
<1>4. CellOf(s)' = IF status = "transition" THEN "pending"
                   ELSE IF status = "value" THEN "void" ELSE "broken"
  BY <1>1 DEF CellOf, ready
<1>5. CASE status = "transition"
  BY <1>2, <1>3, <1>4, <1>5, CellSame
<1>6. CASE status # "transition"
  BY <1>1, <1>2, <1>3, <1>4, <1>6, CellSettles DEF Outcomes
<1> QED BY <1>5, <1>6

(* Every step. *)
LEMMA CellStep == ASSUME FutureInv, [Next]_vars PROVE [Cell!Next]_cell
<1>0. Fields /\ Settling /\ Results /\ Holders
  BY DEF FutureInv
<1>1. ASSUME UNCHANGED <<state, value, kind>> PROVE UNCHANGED cell
  BY <1>1 DEF cell, ready
<1>2. ASSUME NEW t \in Task, NEW p \in Promise,
             \/ \E v \in Value : SetValue(t, p, v)
             \/ SetVoid(t, p) \/ SetException(t, p) \/ DestroyEmpty(t, p)
      PROVE  [Cell!Next]_cell
  <2>1. /\ UNCHANGED <<value, kind>>
        /\ \E status, place :
             /\ Claim(t, p, status, place)
             /\ status \in {"transition", "broken"} \/ (status = "value" /\ kind = "void")
    BY <1>2 DEF SetValue, SetVoid, SetException, DestroyEmpty, handleVars
  <2> QED BY <1>0, <2>1, CellClaim
<1>3. ASSUME NEW t \in Task, Emplace(t) \/ StoreException(t) \/ Publish(t)
      PROVE  [Cell!Next]_cell
  <2>1. PICK s \in State : s = Mine(t)
    BY <1>0, <1>3, StatesAtHand DEF Emplace, StoreException, Publish, At, Setting
  <2>2. /\ Knows(t) /\ state[s] = "transition" /\ kind' = kind
    BY <2>1, <1>0, <1>3, StatesAtHand DEF Emplace, StoreException, Publish, At, Setting,
       Settling, Knows, handleVars
  <2>3. CellOf(s) = "pending"
    BY <2>2 DEF CellOf, ready
  <2>4. \A r \in State : r # s => state'[r] = state[r] /\ value'[r] = value[r]
    BY <1>0, <1>3, <2>1 DEF Emplace, StoreException, Publish, Fields
  <2>5. \A r \in State : r # s => CellOf(r)' = CellOf(r)
    BY <2>2, <2>4 DEF CellOf, ready
  <2>6. CASE ~Publish(t)
    <3>1. state'[s] = "transition"
      BY <1>3, <2>2, <2>6 DEF Emplace, StoreException
    <3>2. CellOf(s)' = "pending"
      BY <3>1 DEF CellOf, ready
    <3> QED BY <1>0, <2>3, <2>5, <3>2, CellSame
  <2>7. CASE Publish(t)
    <3>1. /\ value' = value
          /\ \/ pc[t] = "publish_value" /\ state'[s] = "value"
             \/ pc[t] = "publish_exception" /\ state'[s] = "exception"
      BY <1>0, <2>1, <2>7 DEF Publish, Fields
    <3>2. CellOf(s)' \in Outcomes
      BY <2>1, <2>2, <3>1 DEF CellOf, ready, Outcomes, Knows
    <3> QED BY <1>0, <2>3, <2>5, <3>2, CellSettles
  <2> QED BY <2>6, <2>7
<1>4. ASSUME NEW t \in Task, GetValue(t) PROVE [Cell!Next]_cell
  <2>1. PICK s \in State : s = future[t]
    BY <1>0, <1>4, StatesAtHand DEF GetValue, Consume, Leave, At
  <2>2. /\ state[s] = "value" /\ kind = "T" /\ future[t] = s
        /\ value' = [value EXCEPT ![s] = "moved"] /\ UNCHANGED <<state, kind>>
    BY <1>4, <2>1 DEF GetValue, Consume, Leave
  <2>3. value[s] \in Value
    BY <1>0, <2>2 DEF Results
  <2>4. cell[s] = value[s] /\ value[s] \notin {"pending", "moved", "exception", "broken"}
    BY <2>2, <2>3, FutureAssumption DEF cell, ready
  <2>5. cell = [r \in State |-> CellOf(r)] /\ cell' = [r \in State |-> CellOf(r)']
    BY DEF cell, CellOf, ready
  <2>6. CellOf(s)' = "moved" /\ \A r \in State : r # s => CellOf(r)' = CellOf(r)
    BY <1>0, <2>2 DEF CellOf, ready, Fields
  <2>7. Cell!Take(s)
    BY <2>4, <2>5, <2>6 DEF Cell!Take
  <2> QED BY <2>7 DEF Cell!Next
<1>5. CASE UNCHANGED vars
  BY <1>1, <1>5 DEF vars
<1>6. ASSUME NEW t \in Task, NEW p \in Promise,
             \/ GetFuture(t, p) \/ Destroy(t, p)
             \/ \E q \in Promise : Swap(t, p, q) \/ Move(t, p, q)
      PROVE  UNCHANGED cell
  BY <1>1, <1>6 DEF GetFuture, Destroy, Swap, Move, cellVars
<1>7. CASE FutureNext
  BY <1>1, <1>7 DEF FutureNext, Share, Release, Copy, MoveFuture, Wait, cellVars, handleVars
<1>8. ASSUME NEW t \in Task,
             \/ ResumeAll(t) \/ Break(t) \/ WaitIf(t) \/ RecheckReady(t)
             \/ PushWaiter(t) \/ BounceBack(t) \/ ResumeWaiter(t) \/ WaitReturns(t)
             \/ GetThrows(t) \/ SharedGet(t) \/ GetVoid(t) \/ GetReference(t)
      PROVE  UNCHANGED cell
  BY <1>1, <1>8 DEF ResumeAll, Break, WaitIf, RecheckReady, PushWaiter, BounceBack,
     ResumeWaiter, WaitReturns, GetThrows, SharedGet, GetVoid, GetReference,
     Consume, Leave, cellVars, handleVars
<1> QED BY <1>2, <1>3, <1>4, <1>5, <1>6, <1>7, <1>8
        DEF Next, Others, Step, SetNext, PromiseNext, Moves

(* The inductive invariant of promises and futures. *)
THEOREM FutureInvariant == Spec => []FutureInv
BY InitInv, NextInv, PTL DEF Spec

(* Type correctness, and with it that a shared state is in transition      *)
(* exactly while one task stores its result (future.hpp:46-105).           *)
THEOREM FutureTypeOK == Spec => []TypeOK
BY InvType, FutureInvariant, PTL

(* Whoever returns from wait() or get() finds a result that is complete    *)
(* and was not taken away before (future.hpp:103, 258, 440).               *)
THEOREM FutureReaders == Spec => []ReadersFindResult
BY InvReaders, FutureInvariant, PTL

(* No sleeper of a settled state is left out (future.hpp:78-105). *)
THEOREM FutureNoLostWakeup == Spec => []NoLostWakeup
<1>1. FutureInv => NoLostWakeup
  BY DEF FutureInv
<1> QED BY <1>1, FutureInvariant, PTL

(* A shared state is a cell that is written once (future.hpp:46-54). *)
THEOREM FutureImplementsCell == Spec => ImplementsCell
<1>1. Init => Cell!Init
  BY DEF Init, Cell!Init, cell, ready
<1>2. FutureInv /\ [Next]_vars => [Cell!Next]_cell
  BY CellStep
<1> QED BY <1>1, <1>2, FutureInvariant, PTL DEF Spec, ImplementsCell, Cell!Spec

-----------------------------------------------------------------------------
(* packaged_task: the steps that a promise does not have. *)

(* break_promise as the first step of the end, the assignment or the reset *)
(* of p, while another promise may give its state up.                      *)
LEMMA BreakFirstInv ==
  ASSUME FutureInv, NEW t \in Task, NEW p \in Promise, NEW s, BreakFirst(t, p, s),
         promise' \in [Promise -> State \cup {NoState}], promise'[p] = promise[p],
         \A q \in Promise : promise'[q] = promise[q]
                            \/ (promise'[q] = NoState /\ Unused(q))
  PROVE  FutureInv'
<1>0. /\ WQInv /\ Fields /\ Apart /\ Settling /\ Results /\ Holders /\ Sleepers
      /\ NoLostWakeup
  BY DEF FutureInv
<1>1. /\ Claim(t, p, "broken", "break") /\ Entry("broken", "break")
      /\ UNCHANGED <<value, exception, future_obtained, arg, getting, future, shared,
                     kind>>
      /\ UNCHANGED wqVars
  BY DEF BreakFirst, Entry
<1>2. /\ pc[t] = "out" /\ pc'[t] = "break" /\ using'[t] = p /\ Running(t)
      /\ \A u \in Task : u # t => pc'[u] = pc[u] /\ using'[u] = using[u]
      /\ promise[p] \in State /\ state[promise[p]] = "empty"
      /\ state'[promise[p]] = "broken"
      /\ \A r \in State : r # promise[p] => state'[r] = state[r]
  BY <1>0, <1>1 DEF Claim, Free, Goto, Fields
<1>3. \A u \in Task : using[u] # NoPromise => promise'[using[u]] = promise[using[u]]
  BY <1>0 DEF Unused, Fields
<1>4. WQInv'
  BY <1>0, <1>1 DEF wqVars, WQInv, WQTypeOK, NodeLifetime, ListsDisjoint,
     InSomeList, PushingHoldsLock
<1>5. Fields'
  BY <1>0, <1>1 DEF Fields, Claim, Goto, Status, PC
<1>6. Apart'
  BY <1>0 DEF Apart
<1>7. Settling'
  BY <1>0, <1>1, <1>3, SettlingClaim
<1>8. Results'
  BY <1>0, <1>1, ResultsClaim
<1>9. Holders'
  BY <1>0, <1>1, <1>2, HoldersFrame
<1>10. Sleepers'
  BY <1>0, <1>1, <1>2, SleepersQuiet DEF ready
<1>11. NoLostWakeup'
  <2>1. Mine(t)' = promise[p]
    BY <1>2 DEF Mine
  <2>2. \A u \in Task : pc[u] \in {"resume_all", "break"} =>
                           pc'[u] = pc[u] /\ Mine(u)' = Mine(u)
    BY <1>0, <1>2, <1>3, StatesAtHand, FutureAssumption DEF Mine
  <2>3. \A r \in State : ready(r)' /\ ~ready(r) => r = promise[p]
    BY <1>2 DEF ready
  <2>4. \A r \in State : ready(r)' /\ ~ready(r) =>
           \E u \in Task : pc'[u] \in {"resume_all", "break"} /\ Mine(u)' = r
    BY <1>2, <2>1, <2>3
  <2> QED BY <1>0, <1>1, <2>2, <2>4, WakeupQuiet
<1> QED BY <1>4, <1>5, <1>6, <1>7, <1>8, <1>9, <1>10, <1>11 DEF FutureInv

(* Its second step, with the new state. *)
LEMMA BreakThenReplaceInv ==
  ASSUME FutureInv, Heirs, NEW t \in Task, BreakThenReplace(t)
  PROVE  FutureInv'
<1>0. /\ WQInv /\ Fields /\ Apart /\ Settling /\ Results /\ Holders /\ Sleepers
      /\ NoLostWakeup
  BY DEF FutureInv
<1>1. /\ pc[t] = "break" /\ Running(t) /\ SwapAll(t, Mine(t)) /\ Goto(t, "out")
      /\ using' = [using EXCEPT ![t] = NoPromise]
      /\ UNCHANGED <<future, shared, kind, arg, getting, state, value, exception,
                     future_obtained>>
  BY DEF BreakThenReplace, At, cellVars
<1>2. Mine(t) \in Queue /\ using[t] \in Promise
  BY <1>0, <1>1, StatesAtHand, FutureAssumption
<1>3. /\ promise' \in [Promise -> State \cup {NoState}]
      /\ promise'[using[t]] = heir[t]
      /\ \A p \in Promise : p # using[t] => promise'[p] = promise[p]
  BY <1>0, <1>2 DEF BreakThenReplace, Replace, Heirs, Fields
<1>4. WQInv'
  BY <1>0, <1>1, <1>2, SwapAllInv
<1>5. Fields'
  BY <1>0, <1>1, <1>3 DEF Fields, Goto, PC
<1>6. Apart'
  BY <1>0, <1>3 DEF Apart, Heirs
<1>7. Settling'
  BY <1>0, <1>1, <1>3, SettlingEnds
<1>8. Results'
  BY <1>0, <1>1, ResultsFrame
<1>9. Holders'
  BY <1>0, <1>1, HoldersFrame DEF Goto, Fields
<1>10. Sleepers'
  BY <1>0, <1>1, SleepersSwap
<1>11. NoLostWakeup'
  BY <1>0, <1>1, <1>3, WakeupSwap
<1> QED BY <1>4, <1>5, <1>6, <1>7, <1>8, <1>9, <1>10, <1>11 DEF FutureInv

(* reset() of a packaged_task whose state is settled. *)
LEMMA ResetInv ==
  ASSUME FutureInv, NEW p \in Promise, NEW s \in State, New(s), Unused(p), Replace(p, s),
         UNCHANGED <<future, shared, kind, cellVars, localVars, wqVars>>
  PROVE  FutureInv'
<1>0. /\ WQInv /\ Fields /\ Apart /\ Settling /\ Results /\ Holders /\ Sleepers
      /\ NoLostWakeup
  BY DEF FutureInv
<1>1. UNCHANGED <<future, shared, kind, state, value, exception, future_obtained,
                  pc, using, arg, getting>> /\ UNCHANGED wqVars
  BY DEF cellVars, localVars
<1>2. /\ promise' \in [Promise -> State \cup {NoState}] /\ promise'[p] = s
      /\ \A q \in Promise : q # p => promise'[q] = promise[q]
  BY <1>0 DEF Replace, Fields
<1>3. \A u \in Task : using[u] # NoPromise => Mine(u)' = Mine(u)
  BY <1>0, <1>1, <1>2 DEF Mine, Unused, Fields
<1>4. WQInv'
  BY <1>0, <1>1 DEF wqVars, WQInv, WQTypeOK, NodeLifetime, ListsDisjoint,
     InSomeList, PushingHoldsLock
<1>5. Fields'
  BY <1>0, <1>1, <1>2 DEF Fields
<1>6. Apart'
  BY <1>0, <1>2 DEF Apart, New
<1>7. Settling'
  BY <1>0, <1>1, <1>3, SettlingPromises
<1>8. Results' /\ Holders'
  BY <1>0, <1>1, ResultsFrame, HoldersFrame
<1>9. Sleepers'
  BY <1>0, <1>1, SleepersQuiet DEF ready
<1>10. NoLostWakeup'
  <2>1. \A u \in Task : pc[u] \in {"resume_all", "break"} => Mine(u)' = Mine(u)
    BY <1>0, <1>3, StatesAtHand, FutureAssumption
  <2> QED BY <1>0, <1>1, <2>1, WakeupQuiet DEF ready
<1> QED BY <1>4, <1>5, <1>6, <1>7, <1>8, <1>9, <1>10 DEF FutureInv

(* The steps of packaged_tasks and promises: those of Future, and four     *)
(* more.  NewHeir is the first step of the end and of reset(), NextOwner   *)
(* that of the assignment.                                                 *)
NewHeir(t, p, s) == /\ BreakFirst(t, p, s) /\ UNCHANGED promise
                    /\ s = NoState \/ (s \in State /\ New(s))
NextOwner(t, p, q) == /\ p # q /\ Unused(q)
                      /\ BreakFirst(t, p, promise[q]) /\ Replace(q, NoState)
Renew(t, p, s) == /\ New(s) /\ Free(t) /\ Unused(p)
                  /\ promise[p] # NoState /\ state[promise[p]] # "empty"
                  /\ Replace(p, s)
                  /\ UNCHANGED <<future, shared, kind, cellVars, localVars, wqVars,
                                 packaged, heir>>
Plain == /\ [Next]_vars /\ UNCHANGED <<packaged, heir>>
         /\ packaged => \A t \in Task : pc[t] = "break" => pc'[t] = "break"

(* A task in ~promise stays there until it takes a step of its own. *)
LEMMA OthersPlace ==
  ASSUME Fields, NEW t \in Task,
         \/ Step(t) /\ pc[t] # "break"
         \/ \E p \in Promise : \/ \E v \in Value : SetValue(t, p, v)
                              \/ SetVoid(t, p) \/ SetException(t, p)
                              \/ GetFuture(t, p) \/ Destroy(t, p)
                              \/ \E q \in Promise : Swap(t, p, q) \/ Move(t, p, q)
         \/ Share(t) \/ Release(t) \/ \E u \in Task : Copy(t, u) \/ MoveFuture(t, u)
         \/ \E isGet \in BOOLEAN : Wait(t, isGet)
  PROVE  \A u \in Task : pc[u] = "break" => pc'[u] = "break"
<1>1. CASE UNCHANGED pc
  BY <1>1
<1>2. ASSUME NEW place, Goto(t, place), pc[t] # "break"
      PROVE  \A u \in Task : pc[u] = "break" => pc'[u] = "break"
  BY <1>2 DEF Goto, Fields
<1>3. CASE Step(t) /\ pc[t] # "break"
  <2>1. UNCHANGED pc \/ \E place : Goto(t, place)
    BY <1>3 DEF Step, Emplace, StoreException, Publish, ResumeAll, Break, WaitIf,
       RecheckReady, PushWaiter, BounceBack, ResumeWaiter, WaitReturns, GetThrows,
       SharedGet, GetValue, GetVoid, GetReference, Consume, Leave, localVars
  <2> QED BY <1>1, <1>2, <1>3, <2>1
<1>4. ASSUME NEW p \in Promise, NEW status, NEW place, Claim(t, p, status, place)
      PROVE  \A u \in Task : pc[u] = "break" => pc'[u] = "break"
  BY <1>2, <1>4 DEF Claim, Free
<1>5. ASSUME NEW isGet \in BOOLEAN, Wait(t, isGet)
      PROVE  \A u \in Task : pc[u] = "break" => pc'[u] = "break"
  BY <1>2, <1>5 DEF Wait, HasFuture, Free
<1> QED BY <1>1, <1>3, <1>4, <1>5 DEF SetValue, SetVoid, SetException, GetFuture,
        Destroy, Swap, Move, Share, Release, Copy, MoveFuture, localVars

(* There are no other steps. *)
LEMMA PtCases ==
  ASSUME Fields, [PtNext]_ptVars
  PROVE  \/ Plain
         \/ /\ packaged
            /\ \E t \in Task, p \in Promise :
                 \/ \E s \in State \cup {NoState} : NewHeir(t, p, s)
                 \/ \E q \in Promise : NextOwner(t, p, q)
                 \/ \E s \in State : Renew(t, p, s)
         \/ packaged /\ \E t \in Task : BreakThenReplace(t)
<1>1. CASE UNCHANGED ptVars
  BY <1>1 DEF ptVars, vars, Plain
<1>2. CASE ~packaged /\ (Moves \/ SetNext \/ PromiseNext) /\ UNCHANGED <<packaged, heir>>
  BY <1>2 DEF Plain, Next, Others
<1>3. CASE FutureNext /\ UNCHANGED <<packaged, heir>>
  BY <1>3, OthersPlace DEF Plain, Next, Others, FutureNext
<1>4. ASSUME NEW t \in Task, packaged => pc[t] # "break", Step(t),
             UNCHANGED <<packaged, heir>>
      PROVE  Plain
  BY <1>4, OthersPlace DEF Plain, Next, Others
<1>5. ASSUME NEW t \in Task, NEW p \in Promise,
             \/ Invoke(t, p) \/ GetFuture(t, p) \/ Destroy(t, p)
             \/ \E q \in Promise : Swap(t, p, q) \/ Move(t, p, q),
             UNCHANGED <<packaged, heir>>
      PROVE  Plain
  <2>1. Next
    BY <1>5 DEF Invoke, Next, Others, SetNext, PromiseNext, Moves
  <2> QED BY <1>5, <2>1, OthersPlace DEF Plain, Invoke
<1>6. ASSUME NEW t \in Task, NEW p \in Promise, DestroyTask(t, p)
      PROVE  Plain \/ NewHeir(t, p, NoState)
  BY <1>5, <1>6 DEF DestroyTask, NewHeir
<1>7. ASSUME NEW t \in Task, NEW p \in Promise, Reset(t, p)
      PROVE  \/ \E s \in State \cup {NoState} : NewHeir(t, p, s)
             \/ \E s \in State : Renew(t, p, s)
  BY <1>7 DEF Reset, NewHeir, Renew
<1>8. ASSUME NEW t \in Task, NEW p \in Promise, NEW q \in Promise, MoveAssign(t, p, q)
      PROVE  Plain \/ NextOwner(t, p, q)
  BY <1>5, <1>8 DEF MoveAssign, NextOwner
<1>9. ASSUME packaged, TaskNext
      PROVE  \/ Plain
             \/ \E t \in Task, p \in Promise :
                 \/ \E s \in State \cup {NoState} : NewHeir(t, p, s)
                 \/ \E q \in Promise : NextOwner(t, p, q)
                 \/ \E s \in State : Renew(t, p, s)
  BY <1>5, <1>6, <1>7, <1>8, <1>9 DEF TaskNext
<1> QED BY <1>1, <1>2, <1>3, <1>4, <1>9 DEF PtNext, PtMoves, PtOthers, PtStep

(* States change hands between promises, they do not multiply. *)
LEMMA NextPromises ==
  ASSUME FutureInv, [Next]_vars, NEW p \in Promise
  PROVE  promise'[p] = NoState \/ \E q \in Promise : promise'[p] = promise[q]
<1>0. Fields
  BY DEF FutureInv
<1>1. CASE UNCHANGED promise
  BY <1>1
<1>2. ASSUME NEW t \in Task, NEW r \in Promise,
             Destroy(t, r) \/ \E q \in Promise : Swap(t, r, q) \/ Move(t, r, q)
      PROVE  promise'[p] = NoState \/ \E q \in Promise : promise'[p] = promise[q]
  BY <1>0, <1>2 DEF Destroy, Swap, Move, Replace, Fields
<1>3. ASSUME NEW t \in Task, Break(t)
      PROVE  promise'[p] = NoState \/ \E q \in Promise : promise'[p] = promise[q]
  BY <1>0, <1>3 DEF Break, Replace, Fields
<1>4. CASE SetNext \/ FutureNext \/ UNCHANGED vars
  BY <1>1, <1>4 DEF SetNext, FutureNext, SetValue, SetVoid, SetException, Share,
     Release, Copy, MoveFuture, Wait, vars, handleVars
<1>5. CASE PromiseNext
  BY <1>1, <1>2, <1>5 DEF PromiseNext, DestroyEmpty, GetFuture, handleVars
<1>6. CASE Moves
  BY <1>2, <1>6 DEF Moves
<1>7. ASSUME NEW t \in Task, Step(t), ~Break(t)
      PROVE  UNCHANGED promise
  BY <1>7 DEF Step, Emplace, StoreException, Publish, ResumeAll, WaitIf,
     RecheckReady, PushWaiter, BounceBack, ResumeWaiter, WaitReturns, GetThrows,
     SharedGet, GetValue, GetVoid, GetReference, Consume, Leave, handleVars
<1> QED BY <1>1, <1>3, <1>4, <1>5, <1>6, <1>7 DEF Next, Others

(* Every step of packaged_tasks keeps both invariants. *)
LEMMA PtNextInv ==
  ASSUME FutureInv, Heirs, [PtNext]_ptVars
  PROVE  FutureInv' /\ Heirs'
<1>0. Fields /\ Apart
  BY DEF FutureInv
<1>1. CASE Plain
  <2>1. FutureInv'
    BY <1>1, NextInv DEF Plain
  <2>2. \A p \in Promise : promise'[p] = NoState \/ \E q \in Promise : promise'[p] = promise[q]
    BY <1>1, NextPromises DEF Plain
  <2>3. Heirs'
    BY <1>1, <2>2 DEF Plain, Heirs
  <2> QED BY <2>1, <2>3
<1>2. ASSUME packaged, NEW t \in Task, NEW p \in Promise, NEW s \in State \cup {NoState},
             NewHeir(t, p, s)
      PROVE  FutureInv' /\ Heirs'
  <2>1. FutureInv'
    BY <1>0, <1>2, BreakFirstInv DEF NewHeir, Fields
  <2>2. /\ pc[t] = "out" /\ pc'[t] = "break" /\ packaged' /\ promise' = promise
        /\ heir'[t] = s /\ heir' \in [Task -> State \cup {NoState}]
        /\ \A u \in Task : u # t => pc'[u] = pc[u] /\ heir'[u] = heir[u]
    BY <1>0, <1>2 DEF NewHeir, BreakFirst, Claim, Free, Goto, Fields, Heirs
  <2>3. s # NoState => \A r \in Promise : promise[r] # s
    BY <1>2 DEF NewHeir, New
  <2>4. s # NoState => \A u \in Task : heir[u] # s
    BY <1>2 DEF NewHeir, New
  <2>5. Heirs'
    BY <2>2, <2>3, <2>4 DEF Heirs
  <2> QED BY <2>1, <2>5
<1>3. ASSUME packaged, NEW t \in Task, NEW p \in Promise, NEW q \in Promise,
             NextOwner(t, p, q)
      PROVE  FutureInv' /\ Heirs'
  <2>1. /\ p # q /\ Unused(q) /\ BreakFirst(t, p, promise[q])
        /\ promise' = [promise EXCEPT ![q] = NoState]
    BY <1>3 DEF NextOwner, Replace
  <2>2. FutureInv'
    BY <1>0, <2>1, BreakFirstInv DEF Fields
  <2>3. /\ pc[t] = "out" /\ pc'[t] = "break" /\ packaged'
        /\ heir'[t] = promise[q] /\ heir' \in [Task -> State \cup {NoState}]
        /\ \A u \in Task : u # t => pc'[u] = pc[u] /\ heir'[u] = heir[u]
        /\ \A r \in Promise : r # q => promise'[r] = promise[r]
        /\ promise'[q] = NoState
    BY <1>0, <1>3, <2>1 DEF BreakFirst, Claim, Free, Goto, Fields, Heirs
  <2>4. Heirs'
    BY <1>0, <2>3 DEF Heirs, Apart
  <2> QED BY <2>2, <2>4
<1>4. ASSUME packaged, NEW t \in Task, NEW p \in Promise, NEW s \in State, Renew(t, p, s)
      PROVE  FutureInv' /\ Heirs'
  <2>1. FutureInv'
    BY <1>4, ResetInv DEF Renew
  <2>2. /\ UNCHANGED <<pc, packaged, heir>> /\ promise'[p] = s
        /\ \A r \in Promise : r # p => promise'[r] = promise[r]
        /\ \A u \in Task : heir[u] # s
    BY <1>0, <1>4 DEF Renew, New, Replace, Fields, localVars
  <2>3. Heirs'
    BY <2>2 DEF Heirs
  <2> QED BY <2>1, <2>3
<1>5. ASSUME packaged, NEW t \in Task, BreakThenReplace(t)
      PROVE  FutureInv' /\ Heirs'
  <2>1. FutureInv'
    BY <1>5, BreakThenReplaceInv
  <2>2. /\ packaged' /\ heir'[t] = NoState /\ heir' \in [Task -> State \cup {NoState}]
        /\ \A u \in Task : u # t => pc'[u] = pc[u] /\ heir'[u] = heir[u]
        /\ \A r \in Promise : promise'[r] \in {promise[r], heir[t]}
    BY <1>0, <1>5 DEF BreakThenReplace, Replace, Goto, Fields, Heirs
  <2>3. Heirs'
    BY <2>2 DEF Heirs
  <2> QED BY <2>1, <2>3
<1> QED BY <1>0, <1>1, <1>2, <1>3, <1>4, <1>5, PtCases
(* The invariant of promises and packaged_tasks together. *)
THEOREM PackagedTaskInvariant == PtSpec => [](FutureInv /\ Heirs)
<1>1. PtInit => FutureInv /\ Heirs
  BY InitInv DEF PtInit, Heirs
<1>2. FutureInv /\ Heirs /\ [PtNext]_ptVars => (FutureInv /\ Heirs)'
  BY PtNextInv
<1> QED BY <1>1, <1>2, PTL DEF PtSpec

(* reset(), the assignment and the end of packaged_tasks do not disturb    *)
(* who reads a result (future.hpp:103, 258, 440, 1146-1238).               *)
THEOREM PackagedTaskReaders == PtSpec => []ReadersFindResult
BY InvReaders, PackagedTaskInvariant, PTL

(* Nor do they forget a sleeper of the state that they break.              *)
THEOREM PackagedTaskNoLostWakeup == PtSpec => []NoLostWakeup
<1>1. FutureInv => NoLostWakeup
  BY DEF FutureInv
<1> QED BY <1>1, PackagedTaskInvariant, PTL

(* The states of packaged_tasks are cells that are written once, too: what *)
(* breaks one finds it empty (future.hpp:1146-1171, 1228-1238).            *)
THEOREM PackagedTaskImplementsCell == PtSpec => ImplementsCell
<1>1. PtInit => Cell!Init
  BY DEF PtInit, Init, Cell!Init, cell, ready
<1>2. ASSUME FutureInv, Heirs, [PtNext]_ptVars
      PROVE  [Cell!Next]_cell
  <2>0. Fields
    BY <1>2 DEF FutureInv
  <2>1. CASE Plain
    BY <1>2, <2>1, CellStep DEF Plain
  <2>2. ASSUME NEW t \in Task, NEW p \in Promise, NEW s, BreakFirst(t, p, s)
        PROVE  [Cell!Next]_cell
    BY <2>0, <2>2, CellClaim DEF BreakFirst
  <2>3. ASSUME UNCHANGED <<state, value, kind>>
        PROVE  UNCHANGED cell
    BY <2>3 DEF cell, ready
  <2>4. ASSUME NEW t \in Task, NEW p \in Promise, NEW s, Renew(t, p, s)
        PROVE  UNCHANGED cell
    BY <2>3, <2>4 DEF Renew, cellVars
  <2>5. ASSUME NEW t \in Task, BreakThenReplace(t)
        PROVE  UNCHANGED cell
    BY <2>3, <2>5 DEF BreakThenReplace, cellVars
  <2>6. \/ Plain
        \/ \E t \in Task, p \in Promise : \E s : BreakFirst(t, p, s) \/ Renew(t, p, s)
        \/ \E t \in Task : BreakThenReplace(t)
    BY <1>2, <2>0, PtCases DEF NewHeir, NextOwner
  <2> QED BY <2>1, <2>2, <2>4, <2>5, <2>6
<1> QED BY <1>1, <1>2, PackagedTaskInvariant, PTL DEF PtSpec, ImplementsCell, Cell!Spec
-----------------------------------------------------------------------------
(* Who can still settle a state. *)

(* A promise that nobody uses has no state in transition. *)
LEMMA UnusedSettled ==
  ASSUME FutureInv, NEW p \in Promise, Unused(p),
         promise[p] # NoState, state[promise[p]] # "empty"
  PROVE  promise[p] \in State /\ ready(promise[p])
<1>0. Fields /\ Apart /\ Settling /\ Holders
  BY DEF FutureInv
<1>1. PICK s \in State : s = promise[p]
  BY <1>0 DEF Fields
<1>2. state[s] # "transition"
  <2> SUFFICES ASSUME state[s] = "transition" PROVE FALSE
    OBVIOUS
  <2>1. PICK t \in Task : pc[t] \in Setting /\ Mine(t) = s
    BY <1>0 DEF Settling
  <2>2. using[t] \in Promise
    BY <1>0, <2>1, StatesAtHand
  <2>3. using[t] = p
    BY <1>0, <1>1, <2>1, <2>2, FutureAssumption DEF Apart, Mine
  <2> QED BY <2>3 DEF Unused
<1> QED BY <1>0, <1>1, <1>2 DEF Fields, Status, ready

(* Only Move drops the reference of a promise or a packaged_task to a      *)
(* state that is not settled.                                              *)
LEMMA ReferredStays ==
  ASSUME FutureInv, Heirs, PtOthers, NEW s \in State, Referred(s), ~ready(s)'
  PROVE  Referred(s)'
<1>0. Fields /\ Apart /\ Settling /\ Holders /\ s # NoState
  BY FutureAssumption DEF FutureInv
<1>1. CASE UNCHANGED <<promise, heir>>
  BY <1>1 DEF Referred
<1>2. ASSUME NEW t \in Task, NEW p \in Promise, Destroy(t, p), UNCHANGED heir
      PROVE  Referred(s)'
  <2>1. /\ ready(promise[p]) /\ UNCHANGED state /\ Replace(p, NoState)
    BY <1>2, UnusedSettled DEF Destroy, cellVars
  <2>2. promise[p] # s
    BY <2>1 DEF ready
  <2>3. \A q \in Promise : promise[q] = s => promise'[q] = s
    BY <1>0, <2>1, <2>2 DEF Replace, Fields
  <2> QED BY <1>2, <2>3 DEF Referred
<1>3. ASSUME NEW t \in Task, NEW p \in Promise, NEW q \in Promise, Swap(t, p, q),
             UNCHANGED heir
      PROVE  Referred(s)'
  <2>1. /\ promise'[p] = promise[q] /\ promise'[q] = promise[p]
        /\ \A r \in Promise : r \notin {p, q} => promise'[r] = promise[r]
    BY <1>0, <1>3 DEF Swap, Fields
  <2>2. \A r \in Promise : promise[r] = s => \E x \in Promise : promise'[x] = s
    BY <2>1
  <2> QED BY <1>3, <2>2 DEF Referred
<1>4. ASSUME NEW t \in Task, NEW p \in Promise, NEW q \in Promise, Move(t, p, q),
             promise[p] # NoState => state[promise[p]] # "empty", UNCHANGED heir
      PROVE  Referred(s)'
  <2>1. /\ promise'[p] = promise[q] /\ UNCHANGED state /\ Unused(p)
        /\ \A r \in Promise : r \notin {p, q} => promise'[r] = promise[r]
    BY <1>0, <1>4 DEF Move, Fields, cellVars
  <2>2. promise[p] # s
    BY <1>0, <1>4, <2>1, UnusedSettled DEF ready
  <2>3. \A r \in Promise : promise[r] = s => \E x \in Promise : promise'[x] = s
    BY <2>1, <2>2
  <2> QED BY <1>4, <2>3 DEF Referred
<1>5. ASSUME NEW t \in Task, NEW p \in Promise, NEW r \in State, Renew(t, p, r)
      PROVE  Referred(s)'
  <2>1. /\ ready(promise[p]) /\ UNCHANGED <<state, heir>> /\ Replace(p, r)
    BY <1>5, UnusedSettled DEF Renew, cellVars
  <2>2. promise[p] # s
    BY <2>1 DEF ready
  <2>3. \A q \in Promise : promise[q] = s => promise'[q] = s
    BY <1>0, <2>1, <2>2 DEF Replace, Fields
  <2> QED BY <2>1, <2>3 DEF Referred
<1>6. ASSUME NEW t \in Task, NEW p \in Promise, NEW r, BreakFirst(t, p, r)
      PROVE  /\ \A u \in Task : heir[u] = s => heir'[u] = s
             /\ heir'[t] = r
  BY <1>0, <1>6 DEF BreakFirst, Claim, Free, Heirs
<1>7. ASSUME NEW t \in Task, NEW p \in Promise, NEW r, NewHeir(t, p, r)
      PROVE  Referred(s)'
  BY <1>6, <1>7 DEF NewHeir, Referred
<1>8. ASSUME NEW t \in Task, NEW p \in Promise, NEW q \in Promise, NextOwner(t, p, q)
      PROVE  Referred(s)'
  <2>1. /\ \A u \in Task : heir[u] = s => heir'[u] = s
        /\ heir'[t] = promise[q]
    BY <1>6, <1>8 DEF NextOwner
  <2>2. \A r \in Promise : r # q => promise'[r] = promise[r]
    BY <1>0, <1>8 DEF NextOwner, Replace, Fields
  <2> QED BY <2>1, <2>2 DEF Referred
<1>9. ASSUME NEW t \in Task, Break(t), UNCHANGED heir
      PROVE  Referred(s)'
  <2>1. /\ state[Mine(t)] = "broken" /\ using[t] \in Promise
    BY <1>0, <1>9, StatesAtHand DEF Break, At, Settling, Knows
  <2>2. promise[using[t]] # s
    BY <1>9, <2>1 DEF Break, cellVars, ready, Mine
  <2>3. \A q \in Promise : promise[q] = s => promise'[q] = s
    BY <1>0, <1>9, <2>1, <2>2 DEF Break, Replace, Fields
  <2> QED BY <1>9, <2>3 DEF Referred
<1>10. ASSUME NEW t \in Task, BreakThenReplace(t)
       PROVE  Referred(s)'
  <2>1. /\ state[Mine(t)] = "broken" /\ using[t] \in Promise
    BY <1>0, <1>10, StatesAtHand DEF BreakThenReplace, At, Settling, Knows
  <2>2. promise[using[t]] # s
    BY <1>10, <2>1 DEF BreakThenReplace, cellVars, ready, Mine
  <2>3. \A q \in Promise : promise[q] = s => promise'[q] = s
    BY <1>0, <1>10, <2>1, <2>2 DEF BreakThenReplace, Replace, Fields
  <2>4. promise'[using[t]] = heir[t] /\ \A u \in Task : u # t => heir'[u] = heir[u]
    BY <1>0, <1>10, <2>1 DEF BreakThenReplace, Replace, Fields, Heirs
  <2> QED BY <2>1, <2>3, <2>4 DEF Referred
<1>11. ASSUME NEW t \in Task, Step(t), ~Break(t), UNCHANGED heir
       PROVE  UNCHANGED <<promise, heir>>
  BY <1>11 DEF Step, Emplace, StoreException, Publish, ResumeAll, WaitIf,
     RecheckReady, PushWaiter, BounceBack, ResumeWaiter, WaitReturns, GetThrows,
     SharedGet, GetValue, GetVoid, GetReference, Consume, Leave, handleVars
<1>12. ASSUME NEW t \in Task, PtStep(t) PROVE Referred(s)'
  BY <1>1, <1>9, <1>10, <1>11, <1>12 DEF PtStep
<1>13. ASSUME SetNext \/ FutureNext, UNCHANGED heir
       PROVE  UNCHANGED <<promise, heir>>
  BY <1>13 DEF SetNext, FutureNext, SetValue, SetVoid, SetException, Share,
     Release, Copy, MoveFuture, Wait, handleVars
<1>14. ASSUME PromiseNext, UNCHANGED heir
       PROVE  Referred(s)'
  BY <1>1, <1>2, <1>3, <1>14 DEF PromiseNext, DestroyEmpty, GetFuture, handleVars
<1>15. ASSUME NEW t \in Task, NEW p \in Promise,
              (Invoke(t, p) \/ GetFuture(t, p)) /\ UNCHANGED heir
       PROVE  UNCHANGED <<promise, heir>>
  BY <1>15 DEF Invoke, GetFuture, SetValue, SetVoid, SetException, handleVars
<1>16. ASSUME NEW t \in Task, NEW p \in Promise, DestroyTask(t, p)
       PROVE  Referred(s)'
  BY <1>2, <1>7, <1>16 DEF DestroyTask, NewHeir
<1>17. ASSUME NEW t \in Task, NEW p \in Promise, Reset(t, p)
       PROVE  Referred(s)'
  BY <1>5, <1>7, <1>17 DEF Reset, NewHeir, Renew
<1>18. ASSUME NEW t \in Task, NEW p \in Promise, NEW q \in Promise, MoveAssign(t, p, q)
       PROVE  Referred(s)'
  BY <1>4, <1>8, <1>18 DEF MoveAssign, NextOwner
<1>19. CASE TaskNext
  BY <1>1, <1>3, <1>15, <1>16, <1>17, <1>18, <1>19 DEF TaskNext
<1> QED BY <1>1, <1>12, <1>13, <1>14, <1>19 DEF PtOthers

(* Where a future comes from: another future, or a promise. *)
LEMMA FutureSource ==
  ASSUME FutureInv, [PtNext]_ptVars, NEW t \in Task
  PROVE  \/ future'[t] = NoState
         \/ \E u \in Task : future'[t] = future[u]
         \/ \E p \in Promise : future'[t] = promise[p]
<1>0. Fields
  BY DEF FutureInv
<1>1. CASE UNCHANGED future
  BY <1>1
<1>2. ASSUME NEW u \in Task, NEW p \in Promise, GetFuture(u, p)
      PROVE  future'[t] = future[t] \/ future'[t] = promise[p]
  BY <1>0, <1>2 DEF GetFuture, Hold, Fields
<1>3. ASSUME NEW u \in Task,
             \/ Share(u) \/ Release(u) \/ \E v \in Task : Copy(u, v) \/ MoveFuture(u, v)
             \/ GetValue(u) \/ GetVoid(u) \/ GetReference(u)
      PROVE  future'[t] = NoState \/ \E v \in Task : future'[t] = future[v]
  BY <1>0, <1>3 DEF Share, Release, Copy, MoveFuture, GetValue, GetVoid, GetReference,
     Consume, Hold, Fields
<1>4. ASSUME NEW u \in Task, NEW p \in Promise,
             \/ \E v \in Value : SetValue(u, p, v)
             \/ SetVoid(u, p) \/ SetException(u, p) \/ Destroy(u, p) \/ DestroyEmpty(u, p)
             \/ \E q \in Promise : Swap(u, p, q) \/ Move(u, p, q)
      PROVE  UNCHANGED future
  BY <1>4 DEF SetValue, SetVoid, SetException, Destroy, DestroyEmpty, Swap, Move,
     handleVars
<1>5. ASSUME NEW u \in Task,
             \/ Emplace(u) \/ StoreException(u) \/ Publish(u) \/ ResumeAll(u)
             \/ Break(u) \/ WaitIf(u) \/ RecheckReady(u) \/ PushWaiter(u)
             \/ BounceBack(u) \/ ResumeWaiter(u)
             \/ WaitReturns(u) \/ GetThrows(u) \/ SharedGet(u)
             \/ \E isGet \in BOOLEAN : Wait(u, isGet)
      PROVE  UNCHANGED future
  BY <1>5 DEF Emplace, StoreException, Publish, ResumeAll, Break, WaitIf, RecheckReady,
     PushWaiter, BounceBack, ResumeWaiter, WaitReturns, GetThrows, SharedGet, Wait,
     handleVars
<1>6. CASE Next
  BY <1>1, <1>2, <1>3, <1>4, <1>5, <1>6 DEF Next, Others, SetNext, PromiseNext,
     FutureNext, Moves, Step
<1>7. CASE UNCHANGED vars
  BY <1>1, <1>7 DEF vars
<1>8. ASSUME NEW u \in Task, NEW p \in Promise, NEW s, BreakFirst(u, p, s) \/ Renew(u, p, s)
      PROVE  UNCHANGED future
  BY <1>8 DEF BreakFirst, Renew
<1>9. ASSUME NEW u \in Task, BreakThenReplace(u)
      PROVE  UNCHANGED future
  BY <1>9 DEF BreakThenReplace
<1> QED BY <1>0, <1>1, <1>6, <1>7, <1>8, <1>9, PtCases DEF Plain, NewHeir, NextOwner

(* A settled state stays settled under every step of packaged_tasks. *)
LEMMA PtSettledStays ==
  ASSUME FutureInv, [PtNext]_ptVars, NEW s \in State, ready(s)
  PROVE  ready(s)'
<1>0. Fields
  BY DEF FutureInv
<1>1. CASE Plain
  BY <1>1, SettledStays DEF Plain
<1>2. ASSUME NEW t \in Task, NEW p \in Promise, NEW r, BreakFirst(t, p, r)
      PROVE  ready(s)'
  BY <1>0, <1>2 DEF BreakFirst, Claim, Fields, ready
<1>3. ASSUME NEW t \in Task, NEW p \in Promise, NEW r, Renew(t, p, r)
      PROVE  ready(s)'
  BY <1>3 DEF Renew, cellVars, ready
<1>4. ASSUME NEW t \in Task, BreakThenReplace(t)
      PROVE  ready(s)'
  BY <1>4 DEF BreakThenReplace, cellVars, ready
<1> QED BY <1>0, <1>1, <1>2, <1>3, <1>4, PtCases DEF NewHeir, NextOwner

(* A state with a future is settled, referred to, or dropped by a move. *)
LEMMA NextKept ==
  ASSUME FutureInv, Heirs, Kept, [Recorded]_<<ptVars, dropped>>
  PROVE  Kept'
<1>0. Fields
  BY DEF FutureInv
<1>1. [PtNext]_ptVars
  BY DEF Recorded, PtNext
<1>2. ASSUME NEW s \in State, Referred(s) \/ s \in dropped, ~ready(s)'
      PROVE  Referred(s)' \/ s \in dropped'
  <2>1. ~ready(s)
    BY <1>1, <1>2, PtSettledStays
  <2>2. CASE s \in dropped
    BY <2>2 DEF Recorded
  <2>3. CASE UNCHANGED <<ptVars, dropped>>
    BY <1>2, <2>3 DEF ptVars, vars, Referred
  <2>4. CASE PtMoves /\ Recorded /\ Referred(s)
    BY <1>2, <2>1, <2>4, ReferredStays DEF Recorded
  <2>5. CASE PtOthers /\ Referred(s)
    BY <1>2, <2>5, ReferredStays
  <2> QED BY <1>2, <2>2, <2>3, <2>4, <2>5 DEF Recorded
<1>3. ASSUME NEW t \in Task, NEW s \in State, s = future'[t], ~ready(s)'
      PROVE  Referred(s) \/ s \in dropped
  <2>1. ~ready(s)
    BY <1>1, <1>3, PtSettledStays
  <2>2. CASE \E u \in Task : s = future[u]
    BY <2>1, <2>2, FutureAssumption DEF Kept
  <2>3. CASE \E p \in Promise : s = promise[p]
    BY <2>3 DEF Referred
  <2> QED BY <1>1, <1>3, <2>2, <2>3, FutureSource, FutureAssumption
<1>4. \A t \in Task : future'[t] \in State \cup {NoState}
  BY <1>1, PtNextInv DEF FutureInv, Fields
<1>5. \A t \in Task : \A s \in State : s = future'[t] /\ ~ready(s)'
                                        => Referred(s)' \/ s \in dropped'
  BY <1>2, <1>3
<1> QED BY <1>4, <1>5 DEF Kept, Referred, ready

(* future.hpp:340, 342-348, 1146-1171, 1228-1238: every step of promises   *)
(* and packaged_tasks leaves a state that is waited for with somebody who  *)
(* can settle it, but for the defaulted move assignment of promise.        *)
THEOREM MoveAloneOrphans == RecordedSpec => []OrphanedOnlyByMove
<1>1. PtInit /\ dropped = {} => FutureInv /\ Heirs /\ Kept
  BY InitInv DEF PtInit, Init, Heirs, Kept
<1>2. FutureInv /\ Heirs /\ Kept /\ [Recorded]_<<ptVars, dropped>>
        => (FutureInv /\ Heirs /\ Kept)'
  <2> SUFFICES ASSUME FutureInv, Heirs, Kept, [Recorded]_<<ptVars, dropped>>
               PROVE  (FutureInv /\ Heirs /\ Kept)'
    OBVIOUS
  <2>1. [PtNext]_ptVars
    BY DEF Recorded, PtNext
  <2> QED BY <2>1, PtNextInv, NextKept
<1>3. FutureInv /\ Kept => OrphanedOnlyByMove
  BY DEF FutureInv, Sleepers, Holders, Kept, OrphanedOnlyByMove
<1> QED BY <1>1, <1>2, <1>3, PTL DEF RecordedSpec
=============================================================================
