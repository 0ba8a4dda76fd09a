----------------------------- MODULE PackagedTask ------------------------------
(***************************************************************************)
(* coopsync_tbb::packaged_task: a callable and a reference to a shared     *)
(* state of the kind that Future describes.  packaged says which class the *)
(* objects in Promise have: promises, or packaged_tasks; the futures at    *)
(* the other end are the same.  m_function is not modelled: what it        *)
(* returned, or that it threw, is the choice of the action that stores it. *)
(*                                                                         *)
(* A packaged_task differs from a promise where it lets its state go: its  *)
(* move assignment and reset() break it first.  heir[t] is the state that  *)
(* the object which t is breaking will have next: none when t destroys it, *)
(* that of the other object when t assigns, a new one when t resets it.    *)
(***************************************************************************)
EXTENDS Future

VARIABLES packaged, heir

ptVars == <<vars, packaged, heir>>

PtTypeOK == /\ TypeOK
            /\ packaged \in BOOLEAN
            /\ heir \in [Task -> State \cup {NoState}]

PtInit == /\ Init
          /\ packaged \in BOOLEAN
          /\ heir = [t \in Task |-> NoState]

(* A state nobody refers to and nobody has used: what make_shared returns. *)
New(s) == /\ \A p \in Promise : promise[p] # s
          /\ \A t \in Task : future[t] # s /\ heir[t] # s
          /\ state[s] = "empty" /\ ~future_obtained[s]

-----------------------------------------------------------------------------
(* operator(): the callable is invoked, and what it returned is set; what  *)
(* it, or set_value, threw is set as an exception.  On a state that is not *)
(* empty set_value and then set_exception throw and nothing changes.       *)
Invoke(t, p) == \/ \E v \in Value : SetValue(t, p, v)
                \/ SetVoid(t, p)
                \/ SetException(t, p)

(* break_promise of a state that is empty, the first step of what follows. *)
BreakFirst(t, p, s) == /\ Unused(p)
                       /\ Claim(t, p, "broken", "break")
                       /\ heir' = [heir EXCEPT ![t] = s]
                       /\ UNCHANGED <<value, exception, future_obtained, arg,
                                      getting, future, shared, kind, packaged,
                                      wqVars>>

(* Its second step, and the new m_state of the object. *)
BreakThenReplace(t) == /\ At(t, "break")
                       /\ SwapAll(t, Mine(t))
                       /\ Replace(using[t], heir[t])
                       /\ using' = [using EXCEPT ![t] = NoPromise]
                       /\ heir' = [heir EXCEPT ![t] = NoState]
                       /\ Goto(t, "out")
                       /\ UNCHANGED <<future, shared, kind, arg, getting,
                                      cellVars, packaged>>

DestroyTask(t, p) == \/ BreakFirst(t, p, NoState) /\ UNCHANGED promise
                     \/ Destroy(t, p) /\ UNCHANGED <<packaged, heir>>

(* A mistaken variant: the defaulted assignment. *)
MoveAssign_Defaulted(t, p, q) ==
    Move(t, p, q) /\ UNCHANGED <<packaged, heir>>

(* The move constructor, when p has no state, and the move assignment.  No *)
(* one else may use q meanwhile, so it gives its state up at once.         *)
MoveAssign(t, p, q) ==
    \/ /\ p # q /\ Unused(q)
       /\ BreakFirst(t, p, promise[q])
       /\ Replace(q, NoState)
    \/ /\ promise[p] # NoState => state[promise[p]] # "empty"
       /\ Move(t, p, q)
       /\ UNCHANGED <<packaged, heir>>

(* reset(): the new state exists before the old one is broken. *)
Reset(t, p) ==
    \E s \in State :
      /\ New(s)
      /\ \/ BreakFirst(t, p, s) /\ UNCHANGED promise
         \/ /\ Free(t) /\ Unused(p)
            /\ promise[p] # NoState /\ state[promise[p]] # "empty"
            /\ Replace(p, s)
            /\ UNCHANGED <<future, shared, kind, cellVars, localVars, wqVars,
                           packaged, heir>>

-----------------------------------------------------------------------------
TaskNext == \E t \in Task, p \in Promise :
              \/ Invoke(t, p) /\ UNCHANGED <<packaged, heir>>
              \/ GetFuture(t, p) /\ UNCHANGED <<packaged, heir>>
              \/ DestroyTask(t, p)
              \/ Reset(t, p)
              \/ \E q \in Promise : \/ MoveAssign(t, p, q)
                                    \/ Swap(t, p, q) /\ UNCHANGED <<packaged, heir>>
PtStep(t) == \/ packaged /\ BreakThenReplace(t)
             \/ /\ packaged => pc[t] # "break"
                /\ Step(t) /\ UNCHANGED <<packaged, heir>>

PtMoves == ~packaged /\ Moves /\ UNCHANGED <<packaged, heir>>
PtOthers == \/ ~packaged /\ (SetNext \/ PromiseNext) /\ UNCHANGED <<packaged, heir>>
            \/ packaged /\ TaskNext
            \/ FutureNext /\ UNCHANGED <<packaged, heir>>
            \/ \E t \in Task : PtStep(t)
PtNext == PtMoves \/ PtOthers

PtSpec == PtInit /\ [][PtNext]_ptVars
===============================================================================
