--------------------------- MODULE StreamWaitProofs ---------------------------
(***************************************************************************)
(* The wait_for functions, for any number of streams: the task is resumed  *)
(* once, after every callback, no callback outlives the locals it uses,    *)
(* and the call is a join over its streams.                                *)
(***************************************************************************)
EXTENDS StreamWait, FiniteSetTheorems, TLAPS

Inv == TypeOK /\ CounterTellsRemaining /\ LoopTellsRegistered /\ AwakeTellsDone

-----------------------------------------------------------------------------
(* The streams of a call are finitely many. *)
LEMMA RemainingFinite ==
  ASSUME TypeOK
  PROVE  /\ IsFiniteSet(Remaining) /\ Cardinality(Remaining) \in Nat
         /\ Cardinality(Remaining) = 0 <=> Remaining = {}
<1>1. n \in Int /\ 1 \in Int
  BY MaxStreamsAssumption DEF TypeOK
<1>2. IsFiniteSet(1..n)
  BY <1>1, FS_Interval
<1>3. Remaining \in SUBSET (1..n)
  BY DEF Remaining
<1>4. IsFiniteSet(Remaining)
  BY <1>2, <1>3, FS_Subset
<1> QED BY <1>4, FS_EmptySet, FS_CardinalityType

(* A callback that runs is one of a task that sleeps. *)
LEMMA RunningCallback ==
  ASSUME Inv, NEW s \in 1..n, item[s] # "done"
  PROVE  task = "asleep" /\ api # "none" /\ s \in Remaining
<1>1. s \in Remaining
  BY DEF Remaining
<1>2. task # "running"
  BY MaxStreamsAssumption DEF Inv, TypeOK, LoopTellsRegistered
<1>3. task \notin {"resumed", "returned"}
  BY <1>1 DEF Inv, AwakeTellsDone
<1> QED BY <1>1, <1>2, <1>3 DEF Inv, TypeOK, LoopTellsRegistered

(* A step in the life of a callback that neither registers nor ends it.    *)
LEMMA CallbackStep ==
  ASSUME Inv, NEW s \in 1..n, NEW v \in ItemState,
         item[s] \notin {"unset", "done"}, v \notin {"unset", "done"},
         item' = [item EXCEPT ![s] = v],
         status' \in [1..n -> Code], errs' \in [1..n -> Code],
         UNCHANGED <<api, form, n, task, i, pending, resumes>>
  PROVE  Inv'
<1>1. /\ item' \in [1..n -> ItemState] /\ item'[s] = v
      /\ \A r \in 1..n : r # s => item'[r] = item[r]
  BY DEF Inv, TypeOK
<1>2. TypeOK'
  BY <1>1 DEF Inv, TypeOK
<1>3. Remaining' = Remaining
  BY <1>1 DEF Remaining
<1>4. CounterTellsRemaining' /\ AwakeTellsDone'
  BY <1>3 DEF Inv, CounterTellsRemaining, AwakeTellsDone
<1>5. \A r \in 1..n : item'[r] = "unset" <=> item[r] = "unset"
  BY <1>1
<1>6. LoopTellsRegistered'
  BY <1>5 DEF Inv, LoopTellsRegistered
<1> QED BY <1>2, <1>4, <1>6 DEF Inv

-----------------------------------------------------------------------------
(* The beginning of a call, with all of its streams to be registered. *)
LEMMA CallInv ==
  ASSUME Inv, NEW a \in Api, NEW f \in {"single", "all", "range"},
         NEW k \in 0..MaxStreams, f = "single" => k = 1, Call(a, f, k)
  PROVE  Inv'
<1>1. task = "running" /\ n = 0 /\ resumes = 0 /\ k \in Nat /\ a # "none"
  BY MaxStreamsAssumption DEF Call, Inv, LoopTellsRegistered, Api
<1>2. /\ n' = k /\ form' = f /\ api' = a /\ pending' = k /\ resumes' = 0
      /\ item' = [s \in 1..k |-> "unset"]
      /\ task' = IF k = 0 THEN "resumed" ELSE "asleep"
      /\ i' = IF k = 0 THEN 0 ELSE 1
  BY <1>1 DEF Call
<1>3. Remaining' = 1..k
  BY <1>2 DEF Remaining
<1>4. Cardinality(1..k) = k
  BY <1>1, FS_Interval
<1>5. TypeOK'
  BY <1>1, <1>2, MaxStreamsAssumption DEF TypeOK, Call, ItemState, Code
<1>6. CounterTellsRemaining'
  BY <1>2, <1>3, <1>4 DEF CounterTellsRemaining
<1>7. LoopTellsRegistered'
  BY <1>1, <1>2 DEF LoopTellsRegistered
<1>8. AwakeTellsDone'
  <2>1. CASE k = 0
    <3>1. Remaining' = {}
      BY <1>3, <2>1
    <3> QED BY <1>1, <1>2, <2>1, <3>1 DEF AwakeTellsDone
  <2>2. CASE k # 0
    <3>1. 1 \in Remaining'
      BY <1>1, <1>3, <2>2
    <3>2. Remaining' # {} /\ task' = "asleep" /\ form' = f /\ n' = k
      BY <1>2, <2>2, <3>1
    <3> QED BY <1>2, <3>2 DEF AwakeTellsDone
  <2> QED BY <2>1, <2>2
<1> QED BY <1>5, <1>6, <1>7, <1>8 DEF Inv

(* The task leaves the call. *)
LEMMA ReturnInv == ASSUME Inv, Return PROVE Inv'
BY DEF Return, Inv, TypeOK, CounterTellsRemaining, LoopTellsRegistered,
       AwakeTellsDone, Remaining

(* The callback of stream i is accepted, refused or lost to an exception. *)
LEMMA RegisterInv ==
  ASSUME Inv, NEW a \in Api, Registering(a), Accepted \/ Refused \/ Threw
  PROVE  Inv'
<1>1. /\ i \in 1..n /\ item[i] = "unset"
      /\ UNCHANGED <<api, form, n, task, i, errs, pending, resumes>>
  BY DEF Registering
<1>2. PICK v \in {"queued", "called", "threw"} : item' = [item EXCEPT ![i] = v]
  BY DEF Accepted, Refused, Threw
<1>3. /\ item' \in [1..n -> ItemState] /\ item'[i] = v
      /\ \A r \in 1..n : r # i => item'[r] = item[r]
  BY <1>1, <1>2 DEF Inv, TypeOK, ItemState
<1>4. status' \in [1..n -> Code]
  BY <1>1 DEF Accepted, Refused, Threw, Inv, TypeOK, Code
<1>5. TypeOK'
  BY <1>1, <1>3, <1>4 DEF Inv, TypeOK
<1>6. Remaining' = Remaining
  BY <1>1, <1>3 DEF Remaining
<1>7. CounterTellsRemaining' /\ AwakeTellsDone'
  BY <1>1, <1>6 DEF Inv, CounterTellsRemaining, AwakeTellsDone
<1>8. i \in Nat /\ i # 0 /\ ~(i > n)
  BY <1>1, MaxStreamsAssumption DEF Inv, TypeOK
<1>9. LoopTellsRegistered'
  BY <1>1, <1>3, <1>8 DEF Inv, LoopTellsRegistered
<1> QED BY <1>5, <1>7, <1>9 DEF Inv

(* The loop goes on, or ends. *)
LEMMA NextStreamInv == ASSUME Inv, NextStream PROVE Inv'
<1>1. /\ i \in 1..n /\ item[i] # "unset"
      /\ UNCHANGED <<api, form, n, task, item, status, errs, pending, resumes>>
      /\ \/ i < n /\ i' = i + 1
         \/ i = n /\ i' = 0
         \/ i = n /\ form = "range" /\ task = "returned" /\ i' = n + 1
  BY DEF NextStream
<1>2. n \in Nat /\ i \in Nat
  BY <1>1, MaxStreamsAssumption DEF Inv, TypeOK
<1>3. \A s \in 1..n : s < i \/ s = i => item[s] # "unset"
  BY <1>1 DEF Inv, LoopTellsRegistered
<1>4. TypeOK' /\ Remaining' = Remaining
  BY <1>1, <1>2 DEF Inv, TypeOK, Remaining
<1>5. CounterTellsRemaining' /\ AwakeTellsDone'
  BY <1>1, <1>4 DEF Inv, CounterTellsRemaining, AwakeTellsDone
<1>6. task # "running"
  BY <1>1, <1>2 DEF Inv, LoopTellsRegistered
<1>7. LoopTellsRegistered'
  <2>1. CASE i < n /\ i' = i + 1
    BY <1>1, <1>2, <1>3, <1>6, <2>1 DEF Inv, LoopTellsRegistered
  <2>2. CASE i = n /\ i' = 0
    BY <1>1, <1>2, <1>3, <1>6, <2>2 DEF Inv, LoopTellsRegistered
  <2>3. CASE i = n /\ form = "range" /\ task = "returned" /\ i' = n + 1
    BY <1>1, <1>2, <1>3, <1>6, <2>3 DEF Inv, LoopTellsRegistered
  <2> QED BY <1>1, <2>1, <2>2, <2>3
<1> QED BY <1>4, <1>5, <1>7 DEF Inv

(* The end of notify: the last of them resumes the task. *)
LEMMA NotifiedInv ==
  ASSUME Inv, NEW s \in 1..n, NotifySingle(s) \/ NotifyOne(s)
  PROVE  Inv'
<1>1. /\ item[s] = "stored" /\ item' = [item EXCEPT ![s] = "done"]
      /\ UNCHANGED <<api, form, n, i, status, errs>>
  BY DEF NotifySingle, NotifyOne, Notified
<1>2. /\ item' \in [1..n -> ItemState] /\ item'[s] = "done"
      /\ \A r \in 1..n : r # s => item'[r] = item[r]
  BY <1>1 DEF Inv, TypeOK, ItemState
<1>3. Remaining' = Remaining \ {s}
  BY <1>1, <1>2 DEF Remaining
<1>4. task = "asleep" /\ api # "none" /\ s \in Remaining /\ resumes = 0
  BY <1>1, RunningCallback DEF Inv, AwakeTellsDone
<1>5. n \in Nat /\ pending \in 0..n
  BY MaxStreamsAssumption DEF Inv, TypeOK
<1>6. /\ IsFiniteSet(Remaining) /\ Cardinality(Remaining) \in Nat
      /\ Cardinality(Remaining') = Cardinality(Remaining) - 1
      /\ Cardinality(Remaining') = 0 <=> Remaining' = {}
  <2>1. IsFiniteSet(Remaining) /\ Cardinality(Remaining) \in Nat
    BY RemainingFinite DEF Inv
  <2>2. IsFiniteSet(Remaining') /\ Cardinality(Remaining') = Cardinality(Remaining) - 1
    BY <1>3, <1>4, <2>1, FS_RemoveElement
  <2> QED BY <2>1, <2>2, FS_EmptySet
<1>7. \A r \in 1..n : item'[r] = "unset" <=> item[r] = "unset"
  BY <1>1, <1>2
<1>8. CASE NotifySingle(s)
  <2>1. form = "single" /\ n = 1 /\ s = 1
    BY <1>4, <1>8 DEF NotifySingle, Inv, AwakeTellsDone
  <2>2. Remaining' = {}
    BY <1>3, <2>1 DEF Remaining
  <2>3. resumes' = 1 /\ task' = "resumed" /\ pending' = pending
    BY <1>4, <1>8 DEF NotifySingle, Resume
  <2>4. TypeOK'
    BY <1>1, <1>2, <2>3 DEF Inv, TypeOK
  <2>5. CounterTellsRemaining' /\ AwakeTellsDone'
    BY <1>1, <2>1, <2>2, <2>3 DEF CounterTellsRemaining, AwakeTellsDone
  <2>6. LoopTellsRegistered'
    BY <1>1, <1>4, <1>7, <2>3 DEF Inv, LoopTellsRegistered
  <2> QED BY <2>4, <2>5, <2>6 DEF Inv
<1>9. CASE NotifyOne(s)
  <2>1. /\ form # "single" /\ pending = Cardinality(Remaining)
        /\ pending' = pending - 1
    BY <1>9 DEF NotifyOne, Inv, CounterTellsRemaining
  <2>2. pending' = Cardinality(Remaining') /\ pending' \in 0..n
    <3>1. pending # 0
      BY <1>4, <1>6, <2>1, FS_EmptySet
    <3> QED BY <1>5, <1>6, <2>1, <3>1
  <2>3. CASE pending = 1
    <3>1. resumes' = 1 /\ task' = "resumed" /\ Remaining' = {}
      BY <1>4, <1>6, <1>9, <2>1, <2>3 DEF NotifyOne, Resume
    <3>2. TypeOK'
      BY <1>1, <1>2, <2>2, <3>1 DEF Inv, TypeOK
    <3>3. CounterTellsRemaining' /\ AwakeTellsDone'
      BY <1>1, <2>1, <2>2, <3>1 DEF CounterTellsRemaining, AwakeTellsDone
    <3>4. LoopTellsRegistered'
      BY <1>1, <1>4, <1>7, <3>1 DEF Inv, LoopTellsRegistered
    <3> QED BY <3>2, <3>3, <3>4 DEF Inv
  <2>4. CASE pending # 1
    <3>1. UNCHANGED <<task, resumes>>
      BY <1>9, <2>4 DEF NotifyOne
    <3>2. Remaining' # {}
      BY <1>5, <1>6, <2>1, <2>4
    <3>3. TypeOK'
      BY <1>1, <1>2, <2>2, <3>1 DEF Inv, TypeOK
    <3>4. CounterTellsRemaining' /\ AwakeTellsDone'
      BY <1>1, <1>4, <2>1, <2>2, <3>1, <3>2 DEF CounterTellsRemaining, AwakeTellsDone
    <3>5. LoopTellsRegistered'
      BY <1>1, <1>4, <1>7, <3>1 DEF Inv, LoopTellsRegistered
    <3> QED BY <3>3, <3>4, <3>5 DEF Inv
  <2> QED BY <2>3, <2>4
<1> QED BY <1>8, <1>9

-----------------------------------------------------------------------------
(* Each kind of step, with what it does that matters: the disjuncts of     *)
(* Next brought together by the lemmas above.                              *)
LEMMA StepKinds ==
  ASSUME Inv, Next
  PROVE  \/ \E a \in Api, f \in {"single", "all", "range"}, k \in 0..MaxStreams :
              (f = "single" => k = 1) /\ Call(a, f, k)
         \/ Return
         \/ \E a \in Api : Registering(a) /\ (Accepted \/ Refused \/ Threw)
         \/ NextStream
         \/ \E s \in 1..n : \/ RunCallback(s) \/ DropHostFunc(s) \/ StoreStatus(s)
                            \/ NotifySingle(s) \/ NotifyOne(s)
<1>1. CASE WaitFor
  BY <1>1, MaxStreamsAssumption
     DEF WaitFor, CudaWaitFor, CudaWaitForAll, CudaWaitForRange, HipWaitFor,
         HipWaitForAll, HipWaitForRange, OnnxWaitForC, OnnxWaitForCpp,
         AlpakaWaitFor, Api
<1>2. CASE RegisterNext
  BY <1>2 DEF RegisterNext, CudaRegisterCallback, HipRegisterCallback,
              OnnxRunAsyncC, OnnxRunAsyncCpp, AlpakaEnqueue, Api
<1>3. CASE Return \/ \E s \in 1..n : RunCallback(s) \/ DropHostFunc(s) \/ Notify(s)
  BY <1>3 DEF Notify
<1> QED BY <1>1, <1>2, <1>3 DEF Next

(* The invariant holds in every step. *)
LEMMA StepInv == ASSUME Inv, [Next]_vars PROVE Inv'
<1>1. CASE UNCHANGED vars
  BY <1>1 DEF vars, Inv, TypeOK, CounterTellsRemaining, LoopTellsRegistered,
              AwakeTellsDone, Remaining
<1>2. ASSUME NEW s \in 1..n, RunCallback(s) PROVE Inv'
  <2>1. status' \in [1..n -> Code]
    BY <1>2 DEF RunCallback, Inv, TypeOK, Code
  <2> QED BY <1>2, <2>1, CallbackStep DEF RunCallback, Inv, TypeOK, ItemState
<1>3. ASSUME NEW s \in 1..n, DropHostFunc(s) PROVE Inv'
  BY <1>3, CallbackStep DEF DropHostFunc, Inv, TypeOK, ItemState
<1>4. ASSUME NEW s \in 1..n, StoreStatus(s) PROVE Inv'
  <2>1. errs' \in [1..n -> Code]
    BY <1>4 DEF StoreStatus, Inv, TypeOK
  <2> QED BY <1>4, <2>1, CallbackStep DEF StoreStatus, Inv, TypeOK, ItemState
<1> QED BY <1>1, <1>2, <1>3, <1>4, StepKinds, CallInv, ReturnInv, RegisterInv,
           NextStreamInv, NotifiedInv

(* Before the call nothing is pending. *)
LEMMA InitInv == Init => Inv
<1> SUFFICES ASSUME Init PROVE Inv
  OBVIOUS
<1>1. 1..0 = {} /\ n = 0
  BY DEF Init
<1>2. Remaining = {}
  BY <1>1 DEF Remaining
<1>3. /\ item \in [1..n -> ItemState] /\ status \in [1..n -> Code]
      /\ errs \in [1..n -> Code]
  BY <1>1 DEF Init
<1>4. TypeOK
  BY <1>1, <1>3, MaxStreamsAssumption DEF Init, TypeOK
<1>5. CounterTellsRemaining /\ LoopTellsRegistered /\ AwakeTellsDone
  BY <1>1, <1>2 DEF Init, CounterTellsRemaining, LoopTellsRegistered, AwakeTellsDone, Api
<1> QED BY <1>4, <1>5 DEF Inv

(* The counter, the loop and the task keep telling the same, for any       *)
(* number of streams.                                                      *)
THEOREM StreamInvariant == Spec => []Inv
<1> QED BY InitInv, StepInv, PTL DEF Spec

(* tbb::task::resume is called at most once per suspend point, after all   *)
(* callbacks.                                                              *)
THEOREM StreamResumedOnce == Spec => []ResumedOnce
<1>1. ASSUME Inv PROVE ResumedOnce
  <2>1. resumes \in Nat /\ task \in {"running", "asleep", "resumed", "returned"}
    BY <1>1 DEF Inv, TypeOK
  <2> QED BY <1>1, <2>1 DEF Inv, LoopTellsRegistered, AwakeTellsDone, ResumedOnce,
                            Remaining
<1> QED BY <1>1, StreamInvariant, PTL

-----------------------------------------------------------------------------
(* A call of wait_for is a join: every step of it is one of the abstract   *)
(* specification, or none.  The invariant is needed for the end, where no  *)
(* stream may be open.                                                     *)
THEOREM StreamImplementsJoin == Spec => ImplementsJoin
<1> DEFINE Phase == CASE task = "running" -> "before"
                      [] task = "returned" -> "over"
                      [] OTHER -> "waiting"
           Open == {s \in 1..n : item[s] \notin {"stored", "done"}}
<1>1. ASSUME Init PROVE Join!Init
  <2>1. 1..0 = {} /\ n = 0
    BY <1>1 DEF Init
  <2>2. Open = {}
    BY <2>1
  <2> QED BY <1>1, <2>2 DEF Init, Join!Init
<1>2. ASSUME Inv, [Next]_vars PROVE [Join!Next]_Join!vars
  <2>1. CASE UNCHANGED vars
    BY <2>1 DEF vars, Join!vars
  <2>2. ASSUME NEW a \in Api, NEW f \in {"single", "all", "range"},
               NEW k \in 0..MaxStreams, Call(a, f, k)
        PROVE  Join!Begin
    <3>1. task = "running" /\ task' \in {"resumed", "asleep"} /\ result' = result
      BY <1>2, <2>2 DEF Call, Inv, LoopTellsRegistered
    <3>2. Open' = 1..k /\ errs' = [s \in 1..k |-> "success"]
      BY <2>2 DEF Call
    <3> QED BY <3>1, <3>2 DEF Join!Begin
  <2>3. ASSUME Return PROVE Join!End
    <3>1. task = "resumed" /\ task' = "returned" /\ result' = errs
          /\ UNCHANGED <<n, item, errs>>
      BY <2>3 DEF Return
    <3>2. Open = {}
      BY <1>2, <3>1 DEF Inv, AwakeTellsDone, Remaining
    <3> QED BY <3>1, <3>2 DEF Join!End
  <2>4. ASSUME NEW a \in Api, Registering(a), Accepted \/ Refused \/ Threw
        PROVE  UNCHANGED Join!vars
    <3>1. /\ i \in 1..n /\ item[i] = "unset" /\ UNCHANGED <<n, task, errs, result>>
      BY <2>4 DEF Registering
    <3>2. PICK v \in {"queued", "called", "threw"} : item' = [item EXCEPT ![i] = v]
      BY <2>4 DEF Accepted, Refused, Threw
    <3>3. Open' = Open
      BY <1>2, <3>1, <3>2 DEF Inv, TypeOK
    <3> QED BY <3>1, <3>3 DEF Join!vars
  <2>5. ASSUME NextStream PROVE UNCHANGED Join!vars
    BY <2>5 DEF NextStream, Join!vars
  <2>6. ASSUME NEW s \in 1..n, RunCallback(s) \/ DropHostFunc(s)
        PROVE  UNCHANGED Join!vars
    <3>1. item[s] = "queued" /\ UNCHANGED <<n, task, errs, result>>
      BY <2>6 DEF RunCallback, DropHostFunc
    <3>2. PICK v \in {"called", "lost"} : item' = [item EXCEPT ![s] = v]
      BY <2>6 DEF RunCallback, DropHostFunc
    <3>3. Open' = Open
      BY <1>2, <3>1, <3>2 DEF Inv, TypeOK
    <3> QED BY <3>1, <3>3 DEF Join!vars
  <2>7. ASSUME NEW s \in 1..n, StoreStatus(s) PROVE Join!Next
    <3>1. /\ item[s] = "called" /\ item' = [item EXCEPT ![s] = "stored"]
          /\ errs' = [errs EXCEPT ![s] = status[s]]
          /\ UNCHANGED <<n, task, result>>
      BY <2>7 DEF StoreStatus
    <3>2. s \in Open /\ Open' = Open \ {s} /\ status[s] \in Code
      BY <1>2, <3>1 DEF Inv, TypeOK
    <3>3. s \in 1..MaxStreams
      BY <1>2, MaxStreamsAssumption DEF Inv, TypeOK
    <3>4. Join!Settle(s)
      BY <3>1, <3>2 DEF Join!Settle
    <3> QED BY <3>3, <3>4 DEF Join!Next
  <2>8. ASSUME NEW s \in 1..n, NotifySingle(s) \/ NotifyOne(s)
        PROVE  UNCHANGED Join!vars
    <3>1. /\ item[s] = "stored" /\ item' = [item EXCEPT ![s] = "done"]
          /\ UNCHANGED <<n, errs, result>>
      BY <2>8 DEF NotifySingle, NotifyOne, Notified
    <3>2. task = "asleep"
      BY <1>2, <3>1, RunningCallback
    <3>3. task' \in {"asleep", "resumed"}
      BY <2>8, <3>2 DEF NotifySingle, NotifyOne, Resume
    <3>4. Open' = Open
      BY <1>2, <3>1 DEF Inv, TypeOK
    <3> QED BY <3>1, <3>2, <3>3, <3>4 DEF Join!vars
  <2>9. CASE Next
    BY <1>2, <2>2, <2>3, <2>4, <2>5, <2>6, <2>7, <2>8, <2>9, StepKinds DEF Join!Next
  <2> QED BY <1>2, <2>1, <2>9
<1> QED BY <1>1, <1>2, StreamInvariant, PTL DEF Spec, ImplementsJoin, Join!Spec
=============================================================================
