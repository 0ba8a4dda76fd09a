# A TLA+ verification of coopsync_tbb

coopsync_tbb is a C++ library of synchronization primitives for oneTBB tasks. A
task that has to wait is *suspended* (`tbb::task::suspend`) instead of blocking
its worker thread, and somebody else resumes it (`tbb::task::resume`). Every
primitive is an atomic word plus one or two wait queues; what is hard is the
interleaving of the two, and that is what these modules are about.

## 1. Inventory

| component | state | operations | where |
|---|---|---|---|
| `detail::intrusive_list` | head and tail pointers, `next` of the nodes | `push_back`, `pop_front`, `swap`, move, `empty` | `include/coopsync_tbb/detail/intrusive_list.hpp` |
| `detail::wait_queue` | a list of nodes, each on the stack of a suspended task; a spin mutex | `wait_if(pred)`, `resume_one`, `resume_n`, `resume_all` | `detail/wait_queue.hpp`, `src/wait_queue.cpp` |
| `mutex` | an atomic flag, a queue | `try_lock`, `lock`, `unlock`, `scoped_lock` | `src/mutex.cpp` |
| `shared_mutex` | an atomic int (readers, or writer / transition), a queue of writers, a queue of readers | `lock`, `lock_shared`, their `try_` forms, `unlock`, `unlock_shared`, `scoped_lock` with upgrade and downgrade | `src/shared_mutex.cpp` |
| `counting_semaphore`, `binary_semaphore` | an atomic counter (or flag), a queue | `acquire`, `try_acquire`, `release(n)` | `semaphore.hpp`, `src/semaphore.cpp` |
| `latch` | an atomic counter, a queue | `count_down(n)`, `try_wait`, `wait`, `arrive_and_wait` | `src/latch.cpp` |
| `barrier` | expected counts of this phase and of the next, a one-byte phase, a queue, a completion function | `arrive(n)`, `wait(token)`, `arrive_and_wait`, `arrive_and_drop` | `barrier.hpp` |
| `condition_variable` | a queue | `wait(lock)`, `wait(lock, pred)`, `notify_one`, `notify_all` | `condition_variable.hpp` |
| `atomic_flag`, `atomic_condition`, `atomic_ref_condition` | an atomic value (or a reference to one), a queue | `wait(old)`, `notify_one`, `notify_all` | same-named headers |
| `future`, `shared_future`, `promise`, `packaged_task` | a shared state: status, value or exception, `future_obtained`, a queue | `set_value`, `set_exception`, `wait`, `get`, `share`, `get_future`, call, reset, destruction | `future.hpp` |
| CUDA, HIP, ONNX and alpaka integrations | on the stack of the call: a suspend point, a counter of pending callbacks, error codes | `wait_for`, `wait_for_all`, `wait_for_range` | `cuda/`, `hip/`, `onnx/`, `alpaka/` |
| feature detection, version, umbrella header, C++20 module, build, tests | none at run time | | |

**How they interact.** Primitives call the wait queue; the wait queue calls
oneTBB's suspend and resume. `condition_variable` also calls `lock()` and
`unlock()` of the caller's lock, `scoped_lock` those of its mutex. The integrations
call suspend and resume themselves, resume from a thread of the vendor's runtime.
The callback given to `suspend` runs on the
suspending thread *after* the task's stack is set aside, so another task can run
between the decision to wait and the callback, and a resumed task may run, and
destroy its node, before `resume` returns.

**What is hard.**
* *The window between deciding to sleep and being in the queue.* `wait_if`
  evaluates its predicate twice, the second time under the queue's spin mutex.
  Each primitive must change its word and look at the queue in an order that fits.
* *The window after a resumed task left the queue and before it runs.* The mutex
  and the semaphore let newcomers in (the task retries), `shared_mutex` hands
  over, `latch` and `barrier` trust that nobody resumes too early.
* *Node lifetime.* A node is a local variable of the sleeping task.
* *Counts and phases.* Several permits at once, hand-over through a temporary
  state, a phase number that wraps around.
* *Objects that stand for a state of others.* `scoped_lock` keeps a pointer and a
  mode that must tell the truth through an upgrade, when others own the mutex in
  between; promises and packaged_tasks are moved while others wait for them.
* *Callbacks of a foreign runtime.* They come on any thread, before or after the
  others are registered, are refused, or never come.

**What makes each component correct.**

| component | properties |
|---|---|
| intrusive list | the pointers are those of a sequence, no node is in two lists, a node in no list is reset |
| wait queue | a node is linked once, in one list, exactly while its task is parked; whoever is between the re-check and `push_back` holds the spin mutex |
| mutex | mutual exclusion; no task asleep on a free mutex without a waker; `lock()` returns when newcomers stop; it implements a lock; a `scoped_lock` points to the mutex exactly when its task owns it |
| shared_mutex | the state word tells the owners at every moment of a hand-over; readers are not forgotten; queued writers are served; it implements a reader-writer lock; the members of a `scoped_lock` tell its mode |
| semaphore | permits are conserved within the storage type; no free permit beside a sleeper unattended |
| latch, barrier | nobody stays asleep after the end; nobody leaves a latch early; a barrier's phase is completed by one task with everybody there, and a waiter that leaves early was queued before the `resume_all()` of the phase before |
| condition_variable | it leaves the lock sound; a notified task returns with the lock; a notification is missed in one window only |
| atomic conditions | nobody sleeps on a changed value unattended; a wait on a value that is gone ends |
| futures | a state is settled once, readers find the complete result, a broken promise, a reset or an assigned packaged_task reaches every waiter |
| integrations | one resume, after the last callback; a call whose registrations answered returns, unless a callback was dropped; it implements a join |

## 2. Modules

Every module names its variables and actions after the code. Where a task is in
the code is `pc[t]` (the module's header explains the values); what its suspend
callback is doing is `susp[t]`.

| module | models | instances / proofs |
|---|---|---|
| `IntrusiveList` | `intrusive_list`: several lists over one set of nodes, with the sequences they stand for | proofs in `WaitQueueProofs` |
| `WaitQueue` | `wait_queue` over a list abstracted to a sequence: the steps of `wait_if`, `resume_one`, `resume_n`, `resume_all` as operators | lemmas in `WaitQueueProofs` |
| `Mutex` (extends `WaitQueue`) | `mutex` | proofs in `MutexProofs`; implements `AbstractLock` |
| `ScopedLock` (extends `Mutex`) | `mutex::scoped_lock`, the client of the mutex | `Mutex.cfg`; proofs in `MutexProofs` |
| `SharedMutex` (extends `WaitQueue`) | `shared_mutex` | `SharedMutexStranded.cfg`; proofs in `SharedMutexProofs`; implements `AbstractSharedLock` |
| `SharedScopedLock` (extends `SharedMutex`) | `shared_mutex::scoped_lock` with upgrade and downgrade | `SharedMutex.cfg`; proofs in `SharedMutexProofs` |
| `ConditionVariable` (extends `Mutex`) | `condition_variable` composed with `mutex` as its lock, and clients that guard a flag by it | `MCConditionVariable` adds a history variable; proofs in `MutexProofs` |
| `Semaphore` (extends `WaitQueue`) | both semaphores, the choice of the storage type, and clients that return permits or bring new ones up to `max()` | `Semaphore.cfg`; proofs in `SemaphoreProofs` |
| `Latch` (extends `WaitQueue`) | `latch` | `MCLatch` runs it beside `AtomicCondition`; proofs in `LatchProofs` |
| `Barrier` (extends `WaitQueue`) | `barrier` and its participants, which arrive for nobody, for themselves or for two | `MCBarrier` adds two history variables and a bound; proofs in `BarrierProofs` |
| `AtomicCondition` (extends `WaitQueue`) | `atomic_condition`, `atomic_flag`, `atomic_ref_condition` with copies, and clients that notify after they store | `MCLatch`; proofs in `LatchProofs` |
| `Future` (extends `WaitQueue`) | shared states, promises, futures and shared futures | proofs in `FutureProofs`; implements `AbstractFuture` |
| `PackagedTask` (extends `Future`) | `packaged_task` over the same shared states and futures | `MCFuture` adds a history variable and bounds; proofs in `FutureProofs` |
| `StreamWait` | a call of any `wait_for` of the four integrations, the suspend callback and the runtime's threads | `StreamWait.cfg`; proofs in `StreamWaitProofs`; implements `AbstractJoin` |

**Grain of the steps.** One step holds at most one access to an atomic variable
that another task may change, with two exceptions where a lock makes it safe: the
callback's spin-mutex acquisition with the evaluation of the predicate (one
load, or one compare-and-swap for writers), and `push_back` with the release of
that mutex. `pop_front`, the loop of `resume_n` and the swap of `resume_all` run
under the spin mutex and are one step each; every `tbb::task::resume` is a step
of its own. A compare-and-swap loop is the step in which it succeeds or gives
up; a failed try leaves nothing behind.

**From pointers to sequences.** `WaitQueue` works with sequences; `IntrusiveList`
has the pointers of the code and carries the sequence along. `WaitQueueProofs`
shows that the two always agree, for any nodes and lists, whatever the order of
operations, given that a node is pushed only while it is in no list. That
condition is `NodeLifetime` of `WaitQueue`.

**Memory order.** The models are sequentially consistent, and for the sleeping
protocol that loses nothing: a releaser stores to the word and then acquires the
spin mutex, a waiter acquires the spin mutex and then loads the word. If the
releaser comes first, its release of the spin mutex orders its store before the
waiter's load; if the waiter comes first, the releaser finds the node.

**Assertions.** The code's assertions are `assert`, off in release builds. They
are properties here, never guards, except where they state a precondition of
the caller (`count_down` takes no more than is left, `release` stays within
`max()`, `unlock` is called by an owner, and a promise or packaged_task is moved,
reset or destroyed only while nobody else is in a call on it).

**External code.** `tbb::task::suspend` runs the callback once, after the task
is set aside; `resume` makes the task runnable. The clients of
`ConditionVariable` are external as well: they set and clear a flag under the
lock and notify afterwards, as the tests and examples do. So are the runtimes behind
`StreamWait`: they accept or refuse a callback, call it on a thread of their own
with a success or an error, and drop host functions once the context has failed.

## 3. Runs

All bounds are in the `.cfg` files. Tasks are model values; nothing names one.

| run | instance | question |
|---|---|---|
| `mutex` | 4 tasks with a `scoped_lock` each | safety, progress and refinement of the mutex, pointers of the locks; deadlock checked |
| `shared_mutex` | 3 tasks with a `scoped_lock` each, reader or writer at will, upgrades and downgrades | safety, progress and refinement, members of the locks; deadlock checked |
| `shared_mutex_stranded` | 2 tasks | finding 1 |
| `condition_variable` | 3 clients | the lock under the composition, the only window in which a notification is missed, notified tasks return |
| `condition_variable_missed` | 2 clients | finding 2 |
| `latch` | 4 tasks and a latch with 3 to count down by 0..3; or 3 tasks, 3 values and 2 atomic conditions on one value | latch: no early return, no lost wake-up, waiters return; atomic conditions: lost wake-ups across changes back and forth, waits that end |
| `semaphore` | 4 tasks; the binary semaphore, and capacity 2 in a type that counts to 3; any initial number and distribution of permits | conservation, counted lost wake-up, progress; deadlock checked |
| `barrier` | 3 participants, any number of phases, which may overlap, 3 phase numbers, updates 0, 1 and 2, dropping out; up to the first `wait()` that returns early | completion, who can return early, lost wake-up, progress, the wrap of the phase |
| `barrier_early` | 2 participants, 256 phase numbers | finding 3 |
| `future` | 3 tasks, 2 states, 2 promises of `void` and of other types; or 2 tasks, 2 states, 2 packaged_tasks | written once, complete results, lost wake-ups, orphaned waiters, waits that end |
| `stream_wait` | one call of each function of each API, up to 3 streams; CUDA built with host functions, HIP with stream callbacks | one resume, calls that return, the join |
| `stream_wait_throws` | one call with one callback | finding 4 |

**Why the bounds are enough.** The protocols treat tasks alike and a wrong
interleaving needs at most a releaser, the sleeper it should wake, a newcomer and
one more task to hold the mutex or to be second in the queue: four. The
condition variable needs two sleepers and a notifier. The shared mutex has three:
a task that hands over, the one that gets the mutex and one that comes in between,
each of them in either mode and in the middle of an upgrade if need be.

A barrier's token is at most one phase behind, so three phase numbers tell the
current phase, the one before and any other apart; they also wrap round within a
few phases, as 256 would. Capacity 2 in a type of 3 is a semaphore whose `max()`
exceeds what was asked for.

Shared states have nothing in common but the objects that point to them. One state
in use, a promise of it and an empty one to move to or from, show what moves and
exchanges can do; three tasks are two that race to settle the state and a reader.
For packaged_tasks the second state is the one that `reset()` makes; it costs as
many states of the model as a task, so two tasks take part then (`Active`), which is
one that resets or assigns and one that waits.

The latch and the atomic conditions share a run, as both trust notifications; which of
the two its tasks use is settled at the start (`object`). A store and the notifications
owed for it cost as many states of the model as a task, so three tasks (`Active`) use the
atomic conditions: one that stores back and forth and two that wait.

With three streams one callback can run while another is registered and a third
has not been. For safety and refinement the theorems of section 4 remove the bounds,
for every component; liveness is checked within them.

**Deadlock** is checked where a task can always start a call. The check is off
where the system may stop: a latch that is not counted down to zero, a barrier that
everybody has dropped out of, clients of a condition variable, an atomic condition or a
future that all wait, a `wait_for` that has returned.

**Fairness** is weak and per task: `WF(Step(t))`, `Step(t)` being the steps of
`t` inside a call, or the release that an owner owes. oneTBB's workers execute
every runnable task and callback, and the spin mutex is held for a few
instructions. No fairness is assumed of starting a call, of the scheduler
preferring anybody, or of a loop of retries succeeding: progress of mutex,
semaphore and readers therefore has the proviso that newcomers stop, because a
woken task competes with them and nothing prevents starvation (`mutex.hpp`:
`is_fair_mutex = false`). `ParkedWritersServed` has the proviso that releases
keep reaching the hand-over, because of finding 1. `ChangeEndsWait` has the proviso
that no new calls are made: tasks that are notified without need and park again
could otherwise keep the rest from the spin mutex for ever. In `shared_mutex`
`Release(t)` is fair besides: owners release in the end. In `StreamWait` the
registering thread, the resumed task and the runtime working its streams off are
fair; dropping a callback is possible, never due.

**Where the `barrier` run stops.** A barrier whose phases follow each other may let a
task out of `wait()` in the phase of its token (finding 3). Then that task arrives at
the phase a second time, the counts mean nothing any more, and two completions at a
time or a count overwritten follow. `MCBarrier` records that moment in the history
variable `early`, and the run goes no further behind it. Up to it every interleaving is
explored, that of arrivals at the next phase with a `resume_all()` still to come
included: `CompletedByOne` and `CompletedByAll` say that overlapping phases alone do no
harm, and `EarlyOnlyIfOverlapped`, by the second history variable, that the window of
finding 3 is the only one. `NoLostWakeup` is proved without that bound.

### Findings

1. `shared_mutex`: a writer can be stranded. A release looks at the writers'
   queue, finds it empty, and then stores 0; a writer that parks in between is
   woken by nobody (`src/shared_mutex.cpp:40-45`, `93-98`).
2. `condition_variable`: `wait` releases the lock before the task is in the
   queue (`condition_variable.hpp:72-73`), so a notification can be lost that
   the usual set-under-lock protocol relies on.
3. `barrier`: `resume_all` of a phase may resume tasks that wait in the next one,
   and `wait` does not look again (`barrier.hpp:164-166`, `184-187`). In the trace one
   participant arrives for both and stores the next phase; the other arrives there
   and parks before the `resume_all` of the first.
4. `onnx/wait_for.hpp:143-144` and `alpaka/wait_for.hpp:21-22` promise that an error of
   the registration resumes the task immediately. `RunAsync` of the C++ API and
   `enqueue` report it by an exception, thrown inside the callback of
   `tbb::task::suspend` (`onnx/wait_for.hpp:158-163`, `alpaka/wait_for.hpp:30-33`), and
   nobody resumes the task.

Further observations, which no run is spent on:

* `barrier.hpp:176-181`: the phase is a byte, the previous phase an int, which at
  phase 0 is -1. The token of phase 255, the immediately previous one, which lines
  85-86 allow, is not recognized by the fast path, and the assertion
  `arrival.m_phase == current_phase` after it fails in a debug build. In a release
  build `wait_if` returns at once: the model takes this route at every wrap, and
  `NoLostWakeup` and `WaitersReturn` hold.
* `barrier.hpp:155`: `arrive(0)` while the count is 0 looks like the last arrival.
  The model's clients call it only while their own arrival is still expected; one
  called by an observer between the last arrival and the refill would complete the
  phase twice.
* `mutex.hpp:58-60` says that the task resumed by `unlock` acquires the mutex; in the
  model, as in the code, it competes for it.
* `future.hpp:340`: the defaulted move assignment of `promise` forgets the state the
  promise had, without breaking it. `OrphanedOnlyByMove` shows that this is the only
  way to be left waiting; the assignment of `packaged_task` (1146-1160) breaks it.
* `packaged_task::operator()` invokes the callable before it knows whether the state
  is settled: a second call runs it again and then throws.
* `cuda/wait_for.hpp:247`, `hip/wait_for.hpp:208`: `wait_for_range` compares its
  iterator with `last`, a parameter of the call, after the last callback is registered,
  when the task may have been resumed and have returned. `NextStream` models the read
  with both outcomes; no property is about it.
* `cuda/wait_for.hpp:86`: a host function that the runtime drops leaves the task
  asleep. `AnsweredWaitEnds` shows that, once the registrations have answered, only
  that can.
* `shared_mutex.hpp:156-166`: the comments of `upgrade_to_writer` and
  `downgrade_to_reader` are swapped.
* `src/mutex.cpp:47`: `scoped_lock` sets its pointer before `lock()`; if that threw,
  the destructor would unlock a mutex that is not owned.
* `counting_semaphore<0>` passes its own `static_assert`, and `int_max_value_t<0>` does
  not compile.

## 4. Theorems

Checked by TLAPS. Every invariant and every refinement that a passing run checks is
also a theorem, for any set of tasks (a finite one where a proof counts tasks), any
set of queues, and any values of the other constants that satisfy the assumptions
given below. `NoTask \notin Task` is assumed throughout, and that the queues a
primitive names are in `Queue`; assumptions are stated in the modules that declare
the constants and evaluated by every run.

**`WaitQueueProofs`** proves of each operator of `WaitQueue` that it preserves
`WQInv`: types, `NodeLifetime` (nodes linked once, in one list, exactly while
their task is parked) and `PushingHoldsLock`. The three belong together: that
`push_back` links a node that is linked nowhere follows from `NodeLifetime`,
that nobody else owns the spin mutex from `PushingHoldsLock`. A second group of
lemmas (`PushEffect`, `PopNEffect`, `SwapAllEffect`, `ResumeNextEffect`) says what a
step does to the sets of tasks in queues and batches. The proofs of every primitive
cite both.

Its last part proves, for any sets of nodes and lists, `ListsAreSequences` with the
invariant `ListTypeOK`, `ListsRepresent`, `NoNodeTwice` and `UnlinkedReset`.
`push_back` writes `next` of the old tail: that this changes no other list needs
`NoNodeTwice`, and that the new node ends its list needs `UnlinkedReset`.
`NoListAssertionFails` follows: the assertions of the header hold.

**`MutexProofs`** proves, with the inductive invariant `MutexInv` = `WQInv`,
`TypeOK`, `OwnedExclusively`, `SuspendedInLock` and `NoLostWakeup`:
`MutexTypeOK`, `MutexExclusion`, `MutexNoLostWakeup`, `MutexNodeLifetime`, and
`MutexImplementsLock`, the refinement of `AbstractLock`. `NoLostWakeup` is
inductive only with `SuspendedInLock` and `NodeLifetime`: an `unlock` that pops
a node hands its duty to the batch, whose task is parked, hence in `lock()`,
hence a waker when it runs.

For `scoped_lock` it proves that every step of its clients is a step of `Mutex`
(`ScopedLockUsesMutex`), so that the theorems above hold for them, and that a lock
in no call points to the mutex exactly when its task owns it (`ScopedLockPointer`).
The invariant `LockInv` says for each task what its pointer and its being in
`release()` have to do with where it is in `lock()` or `unlock()`.

For `condition_variable` the invariant is `CvInv` = `WQInv`, `CvTypeOK`,
`CvSleepers` and `LockStillSound`. The mutex's own invariant does not carry over,
because tasks now also sleep elsewhere: `CvSleepers` says in which of the two
queues a suspended task's node is, so that a batch taken by a notification is not
mistaken for one of `unlock()`. `CvLockStillSound` and `CvNodes` follow.
`CvAsleepOnlyIfMissed` is about the history variable of `MCConditionVariable`. Its
invariant `Told` speaks of every task past the `unlock()` of `wait()`, in the
window as well as in the queue, since a task in the queue came from the window.

**`SharedMutexProofs`**: `SharedMutexInv` = `WQInv`, `PCType`, `StateTells`,
`QueuesSorted` and `ReaderNotForgotten`. `StateTells` is `StateMatchesOwners` with the
sets named: the state word says that there is one owner, one task in transition or how
many readers. `QueuesSorted` says that the nodes of the writers' queue belong to tasks
in `lock()` and those of the readers' queue to tasks in `lock_shared()`; without it the
task that a release hands over to might be a reader. That a hand-over doubles no
ownership is `NodeLifetime`. Results: `SharedMutexState`, `SharedMutexReaders`,
`SharedMutexNodes`, the refinement `SharedMutexImplementsLock`, and for the
`scoped_lock` `SharedScopedLockUsesMutex` and `SharedScopedLockMembers`, through
upgrades and downgrades. `Task` is assumed finite, as readers are counted.

**`SemaphoreProofs`**: `SemaphoreInv` = `WQInv`, `TypeOK`, `Places`,
`PermitsConserved` and `EveryPermitHasTaker`. Both properties compare numbers, so the
proofs count sets: held and pending permits are sets of pairs (`Units`), the tasks
about to try are `Contenders`, those about to be resumed are `Called`. A release raises
the counter and `pending` alike; `resume_n` turns pending units into as many called
tasks, or empties the queue, after which nothing is claimed; a resumed task moves from
`Called` to `Contenders`; a task goes on to park only if its re-check read zero.
The binary semaphore's store adds a permit only because the client that releases holds
the one there is, so the flag is clear (`HeldInSum`).
Assumed: a finite `Task`, and that each capacity has a smallest storage type that holds it, which is
what `int_max_value_t` selects.

**`LatchProofs`** proves, with `LatchInv` = `WQInv`, `TypeOK`, `SuspendedInWait`,
`OpenWhenResuming`, `NoEarlyReturn` and `NoLostWakeup`, for any initial count:
`LatchTypeOK`, `LatchNoEarlyReturn`, `LatchNoLostWakeup` and
`LatchNodeLifetime`. A task that parked does not look at the counter again when
it is resumed, so `NoEarlyReturn` needs `OpenWhenResuming`: whoever resumes does
it after zero, and zero is final. That nobody is left behind when the queue is
taken needs the other parts: a sleeper is in this queue or in a batch
(`NodeLifetime`, `SuspendedInWait`), or between its re-check and `push_back`,
and then it holds the spin mutex that `resume_all` needs (`PushingHoldsLock`).

The same argument, for any number of objects on one value, gives
`AcChangeNotMissed` of the atomic conditions. `AcInv` has `AcSleepers` besides: a
sleeper's node goes to the queue of the object it waits on, which is the one that
the client of the store owes a notification.

**`BarrierProofs`** speaks of `MCSpec`, which has every interleaving and goes on after an
early return, for any finite set of participants and any number of phase numbers from
2. The invariant is `AlwaysInv /\ (~early => PhaseInv /\ Overlaps)`. `AlwaysInv`,
which nothing breaks, is `WQInv`, the types, who may sleep, and `NoLostWakeup`. The heart of
`PhaseInv` is `Counted`: `m_expected` is the number of participants that owe the phase an
arrival, plus those about to arrive for another as well, and `m_initial_expected` is
the number of those that stay. So the arrival that takes what is left leaves nobody
behind, be it that some are still in the `resume_all` of the phase before (they owe an
arrival, unless they have dropped out). `Overlaps` (`KeptAsleep`) says that a waiter of
the current phase that was not queued before an earlier phase's `resume_all` is in no
batch, and that no such `resume_all` is to come. Results: `BarrierInvariant`,
`BarrierTypeOK`, `BarrierNoLostWakeup` without proviso, and, up to the first early return,
`BarrierCompletedByOne`, `BarrierCompletedByAll` and `BarrierEarlyOnlyIfOverlapped`.

**`FutureProofs`**: `FutureInv` = `WQInv`, `Fields`, `Apart`, `Settling`, `Results`,
`Holders`, `Sleepers` and `NoLostWakeup`, for any sets of tasks, states, promises and
values, a state having its own queue and the markers for "none" being no values. One
promise refers to a state (`Apart`); one task at a time is between the
compare-and-swap of the status and the end of its call (`Settling`); only a future
that is alone with its state takes the value away (`Holders`, `Results`); who is let
through was let through by a settled state (`Sleepers`). It gives `FutureReaders`,
`FutureNoLostWakeup` and the refinement `FutureImplementsCell`. For `packaged_task`
the invariant gains `Heirs`: the state that `reset()` or an assignment is about to
install belongs to nobody else. `MoveAloneOrphans` is about the history variable of
`MCFuture` (`RecordedSpec`), with `Kept`: an unsettled state with a future is still
referred to, or was dropped by a move assignment.

**`StreamWaitProofs`** proves, for any number of streams, `StreamInvariant`: `TypeOK`,
`CounterTellsRemaining` (the counter is the number of callbacks that have not ended),
`LoopTellsRegistered` (the loop has registered the streams before its index and none
after) and `AwakeTellsDone` (the task is awake when, and only when, none remains). From
it follow `StreamResumedOnce` and `StreamImplementsJoin`.
The counter is what ties the parties together: it starts at the number of streams, so
a callback that ends while others are still being registered cannot bring it to zero.
The assumptions are `MaxStreams \in Nat \ {0}` and that host functions exist for CUDA
and HIP only.

**Only model-checked**: all liveness (`WaitersAcquire`, `ReadersAcquire`,
`ParkedWritersServed`, `NotifiedReturn`, `AcquirersSucceed`, `WaitersReturn`,
`ChangeEndsWait`, `SettledEndsWait`, `AnsweredWaitEnds`), which rests on fairness and
`ENABLED` and is out of this prover's reach, and the four findings.

## 5. Not modelled

* exceptions out of `tbb::task::suspend` itself, and of the locks, predicates and
  completion functions that callers hand in;
* destruction of primitives while in use: every destructor requires that nobody
  waits, and the models stay within that requirement;
* memory orders beyond the argument of section 2, and padding bytes: `atomic_condition` compares
  with a plain `memcmp`, padding included (`atomic_condition.hpp:201-206`, with a TODO), while
  the model's values have none;
* releases beyond `max()`, a second release of an available binary semaphore and
  `arrive(n)` for more than two;
* the vendors' runtimes beyond what `StreamWait` assumes of them;
* feature detection, version, umbrella header, C++20 module, build and tests, which
  do nothing at run time.
