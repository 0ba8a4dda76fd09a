------------------------------ MODULE StreamWait ------------------------------
(***************************************************************************)
(* The wait_for functions of the integrations (cuda, hip, onnx, alpaka):   *)
(* a oneTBB task suspends itself and a callback that the runtime of the    *)
(* accelerator calls, on a thread of its own, resumes it.  Calls share no  *)
(* memory, so the module follows one call from its beginning to its end.   *)
(*                                                                         *)
(* Three parties act: the task; the thread that runs the callback given to *)
(* tbb::task::suspend and registers one runtime callback per stream, i     *)
(* being its loop index (0: not in the loop); and the runtime.  item is    *)
(* the life of the callback of each stream:                                *)
(*   "unset"    not registered yet                                         *)
(*   "queued"   accepted by the runtime, not called yet                    *)
(*   "called"   notify(status) is running, in a runtime thread after       *)
(*              "queued", in the registering thread when it was refused    *)
(*   "stored"   the status is written, the task not notified yet           *)
(*   "done"     notify has ended                                           *)
(*   "lost"     accepted, and dropped by the runtime                       *)
(*   "threw"    the registration left the suspend callback by an exception *)
(* The context, the items and the error codes are locals of the task: they *)
(* exist as long as the task is in the call.                               *)
(***************************************************************************)
EXTENDS Integers, FiniteSets

CONSTANTS MaxStreams,   \* bound on the streams of one call
          HostFunc      \* the APIs whose build registers host functions

ASSUME MaxStreamsAssumption == MaxStreams \in Nat \ {0}
ASSUME HostFuncAssumption == HostFunc \subseteq {"cuda", "hip"}

Api == {"cuda", "hip", "onnx_c", "onnx_cpp", "alpaka"}
Code == {"success", "device", "setup"}
ItemState == {"unset", "queued", "called", "stored", "done", "lost", "threw"}

VARIABLES api,       \* whose wait_for is called, "none" before the call
          form,      \* "single" wait_for, "all" or "range"
          n,         \* the number of streams
          task,      \* "running", "asleep", "resumed" or "returned"
          i,         \* loop index of the registering thread
          item,      \* stream -> life of its callback
          status,    \* stream -> argument of notify
          errs,      \* stream -> the code stored for it
          pending,   \* multi_stream_context::pending
          resumes,   \* calls of tbb::task::resume for this suspend point
          result     \* what the call returned

vars == <<api, form, n, task, i, item, status, errs, pending, resumes, result>>

TypeOK == /\ api \in Api \cup {"none"}
          /\ form \in {"single", "all", "range"}
          /\ n \in 0..MaxStreams
          /\ task \in {"running", "asleep", "resumed", "returned"}
          /\ i \in 0..(n + 1)
          /\ item \in [1..n -> ItemState]
          /\ status \in [1..n -> Code]
          /\ errs \in [1..n -> Code]
          /\ pending \in 0..n
          /\ resumes \in Nat

Init == /\ api = "none" /\ form = "single" /\ n = 0
        /\ task = "running" /\ i = 0
        /\ item = <<>> /\ status = <<>> /\ errs = <<>>
        /\ pending = 0 /\ resumes = 0 /\ result = <<>>

-----------------------------------------------------------------------------
(* The task *)

(* The locals are set up; with streams to wait for the task suspends and   *)
(* the suspend callback stores the suspend point and starts to register.   *)
Call(a, f, k) == /\ api = "none"
                 /\ api' = a /\ form' = f /\ n' = k
                 /\ item' = [s \in 1..k |-> "unset"]
                 /\ status' = [s \in 1..k |-> "success"]
                 /\ errs' = [s \in 1..k |-> "success"]
                 /\ pending' = k
                 /\ task' = IF k = 0 THEN "resumed" ELSE "asleep"
                 /\ i' = IF k = 0 THEN 0 ELSE 1
                 /\ UNCHANGED <<resumes, result>>

CudaWaitFor == Call("cuda", "single", 1)
CudaWaitForAll == \E k \in 0..MaxStreams : Call("cuda", "all", k)
CudaWaitForRange == \E k \in 0..MaxStreams : Call("cuda", "range", k)
HipWaitFor == Call("hip", "single", 1)
HipWaitForAll == \E k \in 0..MaxStreams : Call("hip", "all", k)
HipWaitForRange == \E k \in 0..MaxStreams : Call("hip", "range", k)
OnnxWaitForC == Call("onnx_c", "single", 1)
OnnxWaitForCpp == Call("onnx_cpp", "single", 1)
AlpakaWaitFor == Call("alpaka", "single", 1)

(* The resumed task returns the codes, or throws the one of ONNX's C++ API. *)
Return == /\ task = "resumed"
          /\ task' = "returned"
          /\ result' = errs
          /\ UNCHANGED <<api, form, n, i, item, status, errs, pending, resumes>>

-----------------------------------------------------------------------------
(* The thread that runs the suspend callback *)

(* The runtime accepts the callback: from here on it may be called. *)
Accepted == /\ item' = [item EXCEPT ![i] = "queued"]
            /\ UNCHANGED status

(* A mistaken variant: an error of the registration is not notified. *)
Refused_Ignored == /\ item' = [item EXCEPT ![i] = "done"]
                   /\ UNCHANGED status

(* The registration fails and reports it: notify(err) is called here. *)
Refused == /\ item' = [item EXCEPT ![i] = "called"]
           /\ status' = [status EXCEPT ![i] = "setup"]

(* The registration throws: nothing in the code catches the exception, and *)
(* no callback that would resume the task exists.                          *)
Threw == /\ item' = [item EXCEPT ![i] = "threw"]
         /\ UNCHANGED status

Registering(a) == /\ api = a /\ i \in 1..n /\ item[i] = "unset"
                  /\ UNCHANGED <<api, form, n, task, i, errs, pending, resumes, result>>

CudaRegisterCallback == Registering("cuda") /\ (Accepted \/ Refused)
HipRegisterCallback == Registering("hip") /\ (Accepted \/ Refused)
OnnxRunAsyncC == Registering("onnx_c") /\ (Accepted \/ Refused)
OnnxRunAsyncCpp == Registering("onnx_cpp") /\ (Accepted \/ Threw)
AlpakaEnqueue == Registering("alpaka") /\ (Accepted \/ Threw)

(* The registration has returned to the loop, which goes on or ends.  The  *)
(* end of the loop is found without reading the frame (a single call, or   *)
(* the constant N), except in wait_for_range, which compares with the      *)
(* captured `last`: when the task has returned this reads a dead local,    *)
(* and the loop may also run past the range.                               *)
NextStream == /\ i \in 1..n
              /\ item[i] \notin {"unset", "threw"}
              /\ status[i] = "setup" => item[i] = "done"
              /\ \/ i < n /\ i' = i + 1
                 \/ i = n /\ i' = 0
                 \/ i = n /\ form = "range" /\ task = "returned" /\ i' = n + 1
              /\ UNCHANGED <<api, form, n, task, item, status, errs, pending, resumes, result>>

-----------------------------------------------------------------------------
(* The runtime, and notify, which either thread may run *)

(* Only the stream callbacks and that of ONNX are told how the work ended: *)
(* a host function has no such argument.                                   *)
ReportsStatus == {"cuda", "hip", "onnx_c", "onnx_cpp"} \ HostFunc

(* The runtime calls the callback of stream s. *)
RunCallback(s) ==
    /\ item[s] = "queued"
    /\ item' = [item EXCEPT ![s] = "called"]
    /\ \E c \in {"success", "device"} :
         /\ c = "device" => api \in ReportsStatus
         /\ status' = [status EXCEPT ![s] = c]
    /\ UNCHANGED <<api, form, n, task, i, errs, pending, resumes, result>>

(* A host function is not called once the context has failed. *)
DropHostFunc(s) ==
    /\ item[s] = "queued" /\ api \in HostFunc
    /\ item' = [item EXCEPT ![s] = "lost"]
    /\ UNCHANGED <<api, form, n, task, i, status, errs, pending, resumes, result>>

(* notify, first half: err = status, *out = status, ctx->status = status;  *)
(* the lambda of alpaka stores nothing.                                    *)
StoreStatus(s) ==
    /\ item[s] = "called"
    /\ item' = [item EXCEPT ![s] = "stored"]
    /\ errs' = [errs EXCEPT ![s] = status[s]]
    /\ UNCHANGED <<api, form, n, task, i, status, pending, resumes, result>>

Resume == /\ resumes' = resumes + 1
          /\ task' = IF task = "asleep" THEN "resumed" ELSE task

Notified(s) == /\ item[s] = "stored"
               /\ item' = [item EXCEPT ![s] = "done"]
               /\ UNCHANGED <<api, form, n, i, status, errs, result>>

(* notify, second half, of the contexts with a single callback. *)
NotifySingle(s) == /\ form = "single" /\ Notified(s)
                   /\ Resume
                   /\ UNCHANGED pending

(* A mistaken variant: fetch_sub returns the old value, 1 for the last. *)
NotifyOne_OffByOne(s) ==
    /\ form # "single" /\ Notified(s)
    /\ pending' = pending - 1
    /\ IF pending = 2 THEN Resume ELSE UNCHANGED <<task, resumes>>

(* A mistaken variant: the counter is read again after fetch_sub, by which *)
(* time the other callbacks may have counted down too.                     *)
NotifyOne_ReadsAgain(s) ==
    /\ form # "single" /\ Notified(s)
    /\ pending' = pending - 1
    /\ \/ Resume
       \/ pending > 1 /\ UNCHANGED <<task, resumes>>

(* multi_stream_context::notify_one. *)
NotifyOne(s) ==
    /\ form # "single" /\ Notified(s)
    /\ pending' = pending - 1
    /\ IF pending = 1 THEN Resume ELSE UNCHANGED <<task, resumes>>

-----------------------------------------------------------------------------
WaitFor == \/ CudaWaitFor \/ CudaWaitForAll \/ CudaWaitForRange
           \/ HipWaitFor \/ HipWaitForAll \/ HipWaitForRange
           \/ OnnxWaitForC \/ OnnxWaitForCpp \/ AlpakaWaitFor

RegisterNext == \/ CudaRegisterCallback \/ HipRegisterCallback
                \/ OnnxRunAsyncC \/ OnnxRunAsyncCpp \/ AlpakaEnqueue
                \/ NextStream

Notify(s) == StoreStatus(s) \/ NotifySingle(s) \/ NotifyOne(s)

Next == \/ WaitFor \/ Return \/ RegisterNext
        \/ \E s \in 1..n : RunCallback(s) \/ DropHostFunc(s) \/ Notify(s)

(* The task and the registering thread are scheduled by oneTBB, the        *)
(* runtime works its streams off; it is not obliged to drop a callback.    *)
Fairness == /\ WF_vars(Return)
            /\ WF_vars(RegisterNext)
            /\ \A s \in 1..MaxStreams : /\ WF_vars(s <= n /\ RunCallback(s))
                                        /\ WF_vars(s <= n /\ Notify(s))

Spec == Init /\ [][Next]_vars
FairSpec == Spec /\ Fairness

-----------------------------------------------------------------------------
(* What the code relies on without saying so: the counter of a call with   *)
(* several streams counts the callbacks that have not ended, ...           *)
Remaining == {s \in 1..n : item[s] # "done"}
CounterTellsRemaining == form # "single" => pending = Cardinality(Remaining)

(* ... the loop has registered the streams before i and none after, ...    *)
LoopTellsRegistered ==
    /\ api = "none" <=> task = "running"
    /\ task = "running" => n = 0 /\ i = 0 /\ resumes = 0 /\ pending = 0
    /\ i = 0 => \A s \in 1..n : item[s] # "unset"
    /\ i \in 1..n => \A s \in 1..n : /\ s < i => item[s] # "unset"
                                     /\ s > i => item[s] = "unset"
    /\ i > n => form = "range" /\ task = "returned"

(* ... and the task is awake when, and only when, no callback remains.     *)
AwakeTellsDone ==
    /\ form = "single" /\ task # "running" => n = 1
    /\ task = "asleep" => Remaining # {} /\ resumes = 0
    /\ task \in {"resumed", "returned"} => Remaining = {} /\ resumes <= 1

(* tbb::task::resume is called at most once for the suspend point, and     *)
(* only when notify has run for every stream: neither a refused callback   *)
(* nor one that comes early, while others are being registered, resumes    *)
(* the task.                                                               *)
ResumedOnce == /\ resumes <= 1
               /\ resumes = 1 => \A s \in 1..n : item[s] = "done"

(* A suspended task is resumed and returns, unless the runtime dropped one *)
(* of its callbacks, whatever the registrations answer (cuda, hip and the  *)
(* C API of ONNX: an error code) and in whatever order callbacks run; with *)
(* the C++ APIs, which throw instead, once their registration has returned *)
(* (cuda/wait_for.hpp:78-127, 210-254, onnx/wait_for.hpp:97-112, 156-164,  *)
(* alpaka/wait_for.hpp:28-34).                                             *)
RegistrationThrows == api \in {"onnx_cpp", "alpaka"}
AnsweredWaitEnds ==
    /\ task = "asleep"
    /\ RegistrationThrows => \A s \in 1..n : item[s] \notin {"unset", "threw"}
    ~> \/ task = "returned"
       \/ \E s \in 1..n : item[s] = "lost"

(* onnx/wait_for.hpp:143-144, "In case of error during callback setup, the *)
(* task is resumed immediately", and the like at alpaka/wait_for.hpp:19-22 *)
(* and for the C API, of the calls with one callback.                      *)
SetupErrorResumes ==
    form = "single" /\ (\E s \in 1..n : item[s] = "threw" \/ status[s] = "setup")
      ~> task \in {"resumed", "returned"}

Join == INSTANCE AbstractJoin WITH
          phase <- CASE task = "running" -> "before"
                     [] task = "returned" -> "over"
                     [] OTHER -> "waiting",
          open <- {s \in 1..n : item[s] \notin {"stored", "done"}},
          code <- errs

(* The call behaves as a join over its streams: it hands over, for every   *)
(* stream, the code its work settled with, and never before all have.      *)
ImplementsJoin == Join!Spec
===============================================================================
