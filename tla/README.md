# A verification project for co_context

co_context is a C++20 coroutine library on top of io_uring: one `io_context`
per thread runs coroutines, submits their I/O and resumes them when it
completes; synchronisation primitives suspend coroutines instead of threads.
This directory holds TLA+ models of its concurrent core, the TLC runs that check
them on small instances, and proofs that TLAPS checks for every instance.

## 1. Inventory

| Part | State | Operations | Interacts with |
|---|---|---|---|
| `io_context`, `worker_meta` | `reap_swap` + `reap_cur`, `requests_to_reap`, `requests_to_submit`, the ring, `co_spawn_queue` + eventfd, `will_stop`; global `create_count`, `ready_count` | `start`, `run` (worker, submission, completion part), `co_spawn*`, `can_stop`, `deinit` | kernel, other contexts |
| lazy I/O awaiters | an sqe, a `task_info` (handle, result) | construct, `co_await`, `&&`, `timeout`, `detach`, `yield`, `resume_on` | the worker of the current thread |
| `mutex` | the word `awaiting`, the list `to_resume`, `lock_awaiter`s in coroutine frames | `lock`, `try_lock`, `unlock` | resumes through `co_spawn_auto` |
| `counting_semaphore` | `counter`, `awaiting`, `to_resume`, `notifier_mtx` | `acquire`, `try_acquire`, `release`, `release(n)` | same |
| `condition_variable` | `awaiting`, `to_resume_head/tail`, `notifier_mtx` | `wait`, `notify_one`, `notify_all` | `mutex` (an awaiter is both) |
| `channel` | ring buffer, mutex, two condition variables | `acquire`, `release`, `drop` | `mutex`, `condition_variable` |
| `all`, `any`, `some` | a counter and a result buffer in the parent's frame | await, child completion | `co_spawn` |
| `shared_task` | a tagged waiter stack, a reference count | await, final suspend, copy, destroy | `co_spawn_auto` |
| `stop_source`, `stop_token`, `stop_callback` | a state word (count of sources, locked, requested), a count of owners, a list of callbacks | `request_stop`, register, remove, copy, move, destroy | threads |
| `task`, `trival_task` | a promise: parent handle, result or exception, detached flag | call, await, `when_ready`, detach, return, destroy | `co_spawn`, each other |
| `generator` | a promise: `_Top`, `_Ptr`, `_Info`; a frame in allocated blocks | `begin`, `++`, `co_yield`, `elements_of`, destroy | its consumer, nested generators |
| `spsc_cursor` | two wrapping indices | `push`, `pop`, `size` | `reap_swap` |
| `net`, `mpl`, `log`, `utility`, `config` | none of their own | | |

What is hard here, and where the properties come from:

* atomic accesses of coroutines on different threads to the same intrusive
  list (mutex, semaphore, condition variable), with the awaiters living in
  coroutine frames that go away as soon as they are resumed;
* two-step operations with a gap: the semaphore's count and link, the condition
  variable's push and unlock, the awaiter's construction and `co_await`;
* a coroutine on its way between contexts: queue and eventfd, or a message
  posted to another ring that the sender counts and the receiver does not;
* the decision of a context to block or to stop, taken from counters;
* callbacks that are run without the lock while they, or others, are removed;
* coroutine frames whose destruction is owed by different parties at different
  times, and control and exceptions that pass between frames;
* requests that post no cqe, unless they fail.

The hazards, each at its line, are in `PROJECT.json`.

## 2. Modules

**CoMutex** (with **FifoLock**, **CoMutexFifo**, **MC_CoMutex**) models `mutex`
at the level of its pointers. One action per atomic access: `TryLock`; `Lock`
(the load in `register_awaiting`), `RegisterRetry` (a failed CAS),
`RegisterAcquire`, `RegisterPush`; `Unlock` (the read of `to_resume`),
`UnlockCas`, `UnlockExchange`, `UnlockReverse` (one round of the loop),
`UnlockPop`, `UnlockSpawn`; `Resume` by the worker. `next[c]` is the link field
of the awaiter in c's frame; it keeps its value when the frame is reused, so ABA
on the stack happens in the model as it does in the code. **FifoLock** is the
promise: an owner and a queue in order of arrival. **CoMutexFifo** reads that queue
off the pointers (`ArrivalOrder`), wherever `unlock` has got to in taking over,
reversing and popping the stack.

**Semaphore** models `counting_semaphore`. Pushing on and taking the `awaiting`
stack are single atomic operations in the code, so the lists are sequences. The
gap between `await_ready` and `await_suspend` is a program counter value, and
so is the time a releaser holds `notifier_mtx`. `co_spawn()` on the null pointer
that `try_release()` may return sets `halted` and ends the behaviour.

**CondVar** models `condition_variable` over the mutex in its FifoLock form (the
refinement above justifies that). Its lists are pointers again, because two
notifiers splice them: `local[n]` holds `head`, `succ`, `pred` and `tail` of
`notify_one`, and `Reverse` is one round of its loop, including the assignment it
does not make. `notify_all` registers an awaiter in one step and reads its
`next` in a later one, as the code does. `stale` records that an awaiter was
registered on the mutex that was not waiting on the condition variable.

In both, a choice made in the initial state says which coroutines share an
io_context: a coroutine in the middle of an operation is not interleaved with
others of its own thread. `spinlock` sections are single steps in CondVar and a
held/free flag in Semaphore; only the holder can proceed either way.

**IoContext** models `io_context`, `worker_meta` and the awaiters that drive
them. `worker`, `inbox`, `ring`, `loop` are per context; `coro` is the coroutine
frames; `meta` the global counters. The thread goes through the phases of `run()`:

    created -> barrier -> run -> work* -> (submit_wait) -> peek -> poll
                                  ^                          |
                                  |                       bad_peek -> (bad_wait) -> bad_poll -> over
                                  +---------------------------------------------------------------+--> deinit -> stopped

`WorkOnce` resumes the head of `reap_swap` (a sequence here; SpscCursor justifies
that); the coroutine then performs up to `fuel` operations (`AwaitIo`, `AwaitLink`, `AwaitTimeout`, `PrepareIo` and
`AwaitPrepared`, `Detach`, `Yield`, `CoSpawn`, `ResumeOn`, `StopContext`) until
it suspends or returns. A thread's steps are merged up to the next point at
which another thread or the kernel can notice: pushing on another context's
queue and writing its eventfd are two steps, reading `ready_count` for the stop
decision is a step after the poll. The awaiters of lazy_io whose request posts one
cqe differ in the payload of the sqe only and are all `AwaitIo` (or `PrepareIo`, if the
coroutine does something else before it awaits them); those whose request posts
several, multishot and zero-copy sends, are not modelled. The history variable
`failed` says that a detached request has failed, after which the loop's accounts no
longer hold. A program is a member of `Setups`: the
contexts, what is spawned before start(), the operations its coroutines may
perform and how many, and the build (eventfd or msg_ring). The kernel is external:
completions in any order (a linked request after its predecessor), no cqe for a
successful request with CQE_SKIP_SUCCESS, messages delivered on submission,
waits interrupted by signals if the setup has `signals`.

**SpscCursor** models `spsc_cursor` and the slots it
indexes. `Word` is the number of values of the index type, so every addition
and subtraction is modulo `Word` and `& mask` is `% capacity`. A wait that finds
no room or no item puts its side to sleep on the other's index (`SleepOnHead`,
`SleepOnTail`), a notification after the store wakes it. `queue` is a history
variable: what was published and not given up.

**Channel** models the three `channel` templates. Mutexes are FifoLocks. The body of
an operation between two suspensions is one step, because it holds the mutex; the
notification after the unlock is not, because several coroutines on different
contexts may be inside `notify_one` of one condition variable: `TakeHead` looks at
`to_resume`, `Exchange` takes `awaiting`, `Splice` and `SpliceBehind` put the rest of the
batch back (the latter behind what another notifier put there meanwhile),
`RegisterHead` moves one waiter to the mutex. A condition variable is its two
lists (`arrivals`, `to_resume`, oldest first) and what each notifier has in its
hands (`taken`); the links are in CondVar. That the batch is reversed is part of
`Exchange`, since no other thread sees it, and that its head is not linked to the rest
is `severed`: what is appended behind such a list is not reached. `home` says which
coroutines share a context, and `Alone` that those do not interleave within a
notification. `wait()` is one step: a notifier that takes the awaiter between its push
and the unlock queues it on the mutex, as it does afterwards. `drop()` is `acquire()`
without the value.

**SharedTask** models `shared_task`: one action per access to `waiters_`, with
its three special values; `walk` is `final_awaiter`'s loop, in which handing a
waiter to its context and reading its `m_next` are two steps. Every awaiter has
its own copy of the shared_task, made from another's. With `reuse` in the setup,
a coroutine past its `co_await` may use the memory of the awaiter again.

**Combinators** models `all`, `any` and `some` with `safety::safe`. A child's life is
queued, awaiting its node, then (where it ends) storing, counting, waking;
`any` is `some` with one result. The counters are atomic, but `fetch_sub` is relaxed
and `fetch_add` acquires: nothing orders what a child wrote to the buffer before the
reads of a parent that another context resumes. `ResumeParent` therefore may miss
whatever was written on another context than that of `waker`, the child that
resumed the parent (`Unordered`).

**StopToken** models `stop_token.hpp`. The state word is a record (sources, locked,
stop). A thread has two program counters, one in `request_stop()` and one in the
constructor or destructor of a callback, because a callback may register and
destroy others, and itself, while `request_stop()` runs it. The spinlock's CAS
loop is one step that needs the lock bit clear; the look at the bits and the CAS
in `register_callback` are one step too, since the CAS fails when any bit changed.
`run()` and what follows it (`m_destroyed`, `m_done`) are separate steps. The callback
body itself is whatever the thread does between `RunCallback` and `FinishRun`.

**Task** models `task<T>`, `task<void>` and `trival_task` on one context: `cur` runs,
the others are suspended where `st` says. `owner` is the coroutine that has the
task object as a local or (`param`) as a parameter: locals go when the body is left,
parameters with the frame. `Spawn` is what `co_spawn` does to a `task<void>`, its
`detach()` included; a program that calls `detach()` itself is outside the model: for a
`task<T>` it only forgets the handle (task.hpp:358-363), and nobody destroys the frame. `outcome` is the promise's union, so the detached flag
and the exception of `task<void>` exclude each other as they do in memory.
`ended` stands for `std::terminate()`, and for the crash that the assignment to an
unconstructed `exception_ptr` in `task<T>` may be (task.hpp:128). What goes with a
frame (its locals' frames, theirs, and so on) is `WithOwned`, stated as the least set
closed under ownership; `NestedIn` does the same for generators.

**Generator** models `generator`: each frame's promise (`top`, `ptr`, `info`) and the
`_Nested_awaitable` of its `co_yield elements_of` (`nested`, `root`, `except`). `last` is a
history variable. **FrameAlloc** is the arithmetic of `_Promise_allocator`; of an
alignment and the block size, one divides the other (both are powers of two).
**Coroutines** composes the three: one task has a generator variable, which runs
inside it, throws into it, and goes when the task's body is left.

`<Component>Proofs` holds the theorems about a component. **ChannelProofs** extends Channel and
CondVar, on which the channel waits, and **RuntimeProofs** SpscCursor and IoContext, whose `reap_swap`
is such a ring; the two modules of a pair share no constant, variable or definition. `MC_<Component>` has the
constants of a component's runs.

Each property's mutant, a plausible slip in one definition, stands before the
definition it mutates and is marked as such; nothing else uses it.

## 3. Runs

| Run | Instance | Properties | Result |
|---|---|---|---|
| `mutex` | 3 coroutines on 3 threads, 17 385 states | `MutualExclusion`, `WaiterLinkedOnce`, `ImplementsFifoLock`, `WaiterEventuallyOwns` | hold |
| `semaphore` | 4 coroutines, one thread or four, 1 initial and up to 3 units, `release`, `release(1)`, `release(2)` | `PermitsRespected`, `NoLostPermit`, `OneThreadFindsAwaiter`, `WaiterEventuallyHolds` | hold |
| `semaphore_race` | 2 coroutines on 2 threads | `ReleaseFindsAwaiter` | violated |
| `cv` | 4 waiters; 2 notifiers on the same thread, or 1 or 2 on their own | `OneNotifierLosesNone`, `NoStaleAwaiter`, `LockHeldOnResume` | hold |
| `cv_append` | 4 waiters, 2 notifiers, own threads | `NoWaiterLost` | violated |
| `io` | 9 programs of 1 or 2 contexts, 2 coroutines with 2 or 3 operations each, both builds; 141 075 states | `HandleInOnePlace`, `ReapAccounting`, `StopsOnlyWhenDrained`, `EmptyOnlyIfCareless`, `EveryTaskFinishes`, `ContextStops` | hold |
| `cursor` | indices of 3 bits, 4 slots, 2 items; 117 648 states | `SizeIsExact`, `SlotsInOrder`, `NoMissedWakeup` | hold |
| `channel` | 2 senders, 3 receivers, 4 items, capacity 0, 1, 2; the senders or the receivers or both on one context, the others on their own; 492 851 states | `ItemsInOrder`, `NoLostWakeup`, `EveryOperationCompletes` | hold |
| `shared_task` | awaiters on one thread or their own; 14 886 states | `ReadersSeeResult`, `NotDestroyedMidway`, `NoWaiterForgotten`, `AwaitCompletes` | hold |
| `combinators` | `all`, `any`, `some` of 4 children on one thread or their own; 25 726 states | `ParentResumedOnce`, `ResultCompleteUnlessApart`, `NoChildTouchesDeadMeta`, `ParentResumes` | hold |
| `stop_token` | 2 threads; 1 source and 3 callbacks, or 2 sources and 1 callback; 245 712 states | `ListSound`, `NoDanglingUse`, `StopRunsAll`, `CallsReturn` | hold |
| `coroutines` | 3 tasks and 1 generator; 1 task and 3 generators; every layout of small frames; 306 656 states | `FramesOwned`, `ResumesTheRight`, `TopIsInnermost`, `FrameBlocksFit`, `GenExceptionKept` | hold |

In every model one of these invariants begins with the type invariant `TypeOK`
(`CvTypeOK` in CondVar; in CoMutex and, as `CursorTypeOK`, in SpscCursor it is a
theorem instead). Those whose names do not
say it, in short:

* `ListSound`: `cb == m_head` and `m_prev` tell whether a callback is on the list.
* `NoDanglingUse`: the state is deleted with the last handle and not before;
  no destructor of a callback returns while `request_stop()` will touch it.
* `StopRunsAll`: a stop reaches each registered callback once, and a callback is
  turned away only when no source is left. After a move assignment of a
  `stop_source` (defaulted, without `sub_ssrc()`) the count stays too high:
  `stop_possible()` then never becomes false, against the comment at
  stop_token.hpp:132. For such programs the property asks for no more than
  that the count is not too low.
* `NoLostWakeup`: if those who notify a condition share a context, each of its waiters
  that could go on is matched by a notification to come or by somebody of its
  side who is awake. `EveryOperationCompletes`: every operation returns, if the
  channel is unbuffered, or the senders share a context and the receivers do.
* `EmptyOnlyIfCareless`: `forward_task` is given an empty handle only for an awaiter
  that was constructed and is not awaited yet, or after a detached request failed.
* `ResultCompleteUnlessApart`: `any` returns its result, and `all` and `some` return theirs if
  the children end on one context.
* `CallsReturn`: `request_stop()` and `~stop_callback()` come to an end.
* `FramesOwned`: every frame has one party that will destroy it, and no task
  object refers to a frame that is gone. `ResumesTheRight`: control goes back to
  the coroutine that awaits, which still exists.
* `TopIsInnermost`: `++` resumes the innermost coroutine and `*` reads what was
  yielded last. `GenExceptionKept`: an exception between nested generators is
  neither lost nor doubled. `FrameBlocksFit`: frame, function pointer and
  allocator fit in the blocks, and `operator delete` computes what `operator new` did.
* `ContextStops` covers programs of several contexts too: the two ways in which
  a context stays blocked are `Stranded` (its last requests post no cqe) and
  `LeftWaiting` (it waits although the others have stopped, with no work left).

What the violated ones show:

* `semaphore_race`: `acquire()` on one thread decrements the counter, `release()`
  on another sees it negative, finds no awaiter linked yet and calls
  `co_spawn()` on a null pointer. On a single context this cannot happen
  (`OneThreadFindsAwaiter`), nor do units get lost or doubled anywhere.
* `cv_append`: `notify_one` reverses a batch `head->succ->...->tail` without
  linking `head` to `succ`. In the common case it does not matter (`head` is
  notified, `succ..tail` kept); when another notifier has refilled `to_resume`
  in between, only `head` is appended and the others are never woken.

Cases the passing runs leave out because the property fails there, each listed
under the hazards with its line:

* `cv` has `notify_all` on one context only. With waiters on contexts of their
  own, `notify_all` reads `head->next` after `head` may have run and waited
  again (`NoStaleAwaiter`).
* `io` has the stopping program in the msg_ring build only. In the eventfd build
  a context that passes the start barrier after another one has finished sees
  `create_count` = 1, does not listen on its eventfd, and stops with a task in
  its queue (`StopsOnlyWhenDrained`). It has no signals either: a wait cut short
  by one lets a message arrive between the poll and the stop decision.
* An awaiter takes its sqe when it is constructed. If the coroutine suspends on
  something else before it awaits it, the request is submitted and completed, and its cqe
  reaped without a handle to resume, although README.md:343 says that the constructor
  does nothing. A detached request that fails posts a cqe that refers to the
  `task_info` of a destroyed temporary. `io` has programs that do either (`Careless`), and shows
  that an empty handle has no other cause; the other properties hold until the assertion
  on the handle or a detached request fails (`Broken`).
* `shared_task` does not combine contexts of their own with `reuse`. With both
  (`Setups <- Reused`), `final_awaiter` reads `waiter->m_next` after the waiter was
  handed to its context; if that coroutine awaits something else in the same
  place by then, the rest of the list is never resumed (`NoWaiterForgotten`).
* A buffered channel whose senders (or receivers) notify on several contexts is in the run
  `channel`, but `NoLostWakeup` says nothing of the condition they notify, and
  `EveryOperationCompletes` nothing of such a channel, because there
  `EveryOperationReturns` is false. With two senders and two receivers on four
  contexts, one item each and capacity 1, TLC finds: both receivers are asleep when
  one sender, in `notify_one`, takes the list `awaiting` and has both in its hands; the
  other sender finds `to_resume` empty (condition_variable.cpp:40), then `awaiting`
  (49-52), and returns. The first wakes one receiver and puts the other on `to_resume`:
  it sleeps there although an item is left, and every notification has been given.
  (doc/README_en.md:18 promises thread safety for `channel`.) An unbuffered channel does
  not have this: `m_acquire_mtx` and `m_release_mtx` let in one receiver and one sender,
  and these notify in turn. `ItemsInOrder` has no restriction. A list that is `severed` and
  not empty needs more waiters than the run has; `cv_append` has it, with the pointers.
* `ResultCompleteUnlessApart` excepts `all` and `some` of several results whose children
  end on different contexts: nothing orders the writes of `all`'s earlier children
  before the parent's reads, and the child with the last rank of `some` may wake the
  parent before a lower rank has written its slot. The code says so: "NOT thread-safe!
  If `resume_on` is used, race condition may happen!" (when_all.hpp:21-22,
  when_any.hpp:34-35 and 194-195). With `any`, where that note stands too, the child
  that writes is the one that resumes the parent, so its result is complete on any context.

### Bounds

Three coroutines on the mutex give a holder, a batch in `to_resume` and a later
arrival on `awaiting`, and a stack of two to reverse; with four the same
properties hold on 133 335 states up to symmetry, and the theorems cover every
number. Four waiters on the condition variable are the least that let two
notifiers hold batches of two. `fuel` bounds a coroutine's operations; three
let it spawn, wait for an I/O and do something else. `SwapCapacity` is 2,
which two coroutines fill exactly (with 1, `forward_task` overwrites a handle). Capacities 0, 1 and 2 instantiate the three
channel templates, and with four items every slot is used twice; three receivers let
a notifier put two back, and `Homes` has each side on one context or apart, but not
both apart. As many items are sent as received, so that every operation can complete. Three bits over
four slots let both indices wrap within a batch; the theorems cover every other
size. Three callbacks make a list with a first, a middle and a last; `MaxCount` bounds
the sources that are counted. Three generators are the least nesting in which the
parent of a frame is not the root; with three tasks one can be a parameter of
another. Frames are used once, so the behaviours are finite. Frame sizes up to
two blocks, with allocators aligned to 1 byte, half a block and two blocks at
addresses of either parity, give every case of the rounding.
Four children let `some` have early, last and late ones. `MaxPermits` bounds the units that
`release(n)` adds. `Updates` leaves out 0: with a waiter present `release(0)`
resumes it without a unit, because the do-while tests at the end.
CHECK_DEADLOCK is off where the program may stop (contexts and operations end,
or wait for a notification that need not come) and on for `mutex`, `cv` and
`cursor`.

### Fairness

`mutex`: weak fairness of each coroutine's own steps: a thread inside an
operation goes on, a context resumes what was co_spawned on it, a holder
eventually unlocks. New `lock()` calls are never forced. `semaphore`: the same,
and strong fairness for the resumption and the release of a coroutine that
shares its thread with others, because `reap_swap` is first in first out.
`io`: weak fairness of each thread and of the kernel's completions; none
for signals or for the start-up timeout. `channel`, `combinators`: weak fairness
of each coroutine (contexts run what is ready, awaited nodes complete).
`shared_task`: weak fairness of the coroutine and of awaiters inside `co_await`;
nobody is obliged to copy, await or destroy. `stop_token`: weak fairness of a thread
inside a call (a callback returns, the spinlock is taken in the end: each
callback needs it a bounded number of times, so nobody can be passed over for
ever); no call is owed.

## 4. Proofs

### Mutex

`CoMutexProofs` proves, for every set of coroutines,

* `TypeCorrect`: `Spec => []TypeOK`,
* `MutexExclusive`: `Spec => []MutualExclusion`,
* `MutexLosesNoWaiter`: `Spec => []WaiterLinkedOnce`,

from the assumption that `nullptr` and `not_locked` are two values different
from every awaiter's address (`CoroAssumption`).

Neither property is inductive alone. That `unlock` takes over a proper stack
needs to know that the word is an awaiter between its failed CAS and its
exchange; that the popped awaiter is suspended needs the structure; that
the structure is undisturbed needs exclusion, since only the owner touches
`to_resume`. `IndInv` is their conjunction with `LocalsOK`, which says what the
locals of `unlock` hold at each of its points. The structural part is stated
without paths or reachability: every suspended awaiter is named by exactly one
anchor (`awaiting`, `to_resume`, a local of `unlock`) or one link, and nothing
else is named. That is weaker than "the lists are acyclic and complete" and
still inductive, because every step moves at most one name. `IndInvStep` has one
step per action and one under it per conjunct.

### spsc_cursor

`RuntimeProofs` proves, for every width `Word` of the indices, every capacity
that divides it at least twice (both are powers of two in the code) and any
items (`CursorAssumption`),

* `CursorTypeCorrect`: `CursorSpec => []CursorTypeOK`,
* `CursorSizeExact`: `CursorSpec => []SizeIsExact`,
* `CursorKeepsOrder`: `CursorSpec => []SlotsInOrder`,
* `CursorMissesNoWakeup`: `CursorSpec => []NoMissedWakeup`.

`IndInv` adds `LocalsOK` (the room a producer has found is still there, since only
the consumer can change it and only for the better; likewise for the consumer)
and `FilledInOrder` (slots behind the published ones hold what comes next). The
arithmetic is in lemmas: `SizeAfterPush` and `SizeAfterPop` (the difference of the
indices follows a step although either may wrap), `SlotShift` (slots are the same
counted from either index), `SlotsDiffer` (two slots less than a capacity apart
are different; here it is used that the capacity divides `Word`).

### The mutex is a first-come first-served lock

`MutexImplementsFifoLock`: `Spec => ImplementsFifoLock`, for every finite set of
coroutines (`Walk` counts them to be total). `OrderInv` is `IndInv`
with two more parts: `NoCycle` (every set of waiters has one that no link of
another in the set names) and `FreeIsEmpty` (a free lock has no batch left). That a
list read along the links has the elements it should, each once, follows from
these by induction over the length of the walk; since induction with an operator
parameter is out of the provers' reach, it is done on sets of numbers,
from the least element of their complement. `QueueShape` says what the
queue is at each point of `unlock`, `Frame` and `SameQueue` that links outside the
part a step touches do not matter; then there is one `...Refines` lemma per action:
`RegisterPush` appends, `UnlockSpawn` hands over to the first, a successful CAS
takes or frees the lock, everything else leaves owner and queue alone, each round
of the reversal included.

### Semaphore

`SemaphoreProofs`, for any coroutines on any contexts, any initial value and any
arguments of `release` but 0 (with which the properties are false, see Bounds):
`SemaphorePermitsRespected`, `SemaphoreLosesNoPermit`, `SemaphoreOneThread`.
The accounting needs a count of what the releases under way still owe. The
provers have no sums over sets, so a debt is a pair of a releaser and a number up to
what it owes, and `CountOK` relates `counter` to the cardinalities of three sets:
claimants, owners and `Debts`. `ListOK`, `SpawnOK` and `Covered` (a suspended coroutine is
on a list, once, or in the hands of one release) tie the counts to the lists, and
with `OneBusy` (a thread is inside one operation at a time) give the third theorem.

### shared_task

`SharedTaskProofs`, for any awaiters on any contexts: `SharedReadersSafe`,
`SharedNotDestroyedMidway` (an action property) and `SharedForgetsNoWaiter`. The
invariant says that the reference count is the number of holders and that the
awaiter that started the coroutine is one of them until it is done. For the last
theorem: the list of waiters has no cycle and every suspended awaiter is
named by the word, by the walk or by one link. `Careful` excludes programs that
use an awaiter's memory again on another context during the walk, in which
`NoWaiterForgotten` is false (see Runs).

### all, any, some

`CombinatorsProofs`, for any number of children, of results and any contexts:
`ParentWokenOnce`, `ResultsComplete`, `MetaOutlivesChildren`. The invariant relates the
count to the children that have not counted, the rank each has drawn to the count
(no two the same), each slot to its rank, and the context on which the parent goes on
to the last child (`WakerOK`). `ResultsComplete` is stated for `any` on all contexts and for
`all` and `some` on one, like the property.

### Stop tokens

`StopTokenProofs`, for any threads, sources, tokens and callbacks: `StopListSound`,
`StopNoDanglingUse`, `StopReachesAll`. The invariant `IndInv` has the exact counts
(`CountsOK`), one thread in `request_stop()` (`RequestOK`), one holder of the lock
bit (`LockOK`), constructors and destructors that have their callback to themselves
(`CallOK`), and the relation between running and destroying a callback (`RunOK`:
nobody passes the destructor of a callback that is being run, but the thread that
runs it). `ListOK` states the doubly linked list locally: the callbacks that are
registered, not taken out and not on their way out are those whose `prev` and
`next` agree, and `NoCycle` adds that the list ends. `ListSound` speaks of what is
reached from `m_head` in as many steps as there are callbacks; that this is all of
them follows since the set reached grows in every step until it is complete.

### Coroutines

`CoroutinesProofs` is about tasks, generators and their composition, for any
frames and any program in `Setups`.

* `TaskFramesOwned` and `TaskResumesTheRight` follow from `TaskInv`, which adds
  `TaskLinks`: for each frame, who may own it, who awaits it and whom it awaits,
  by the place it is suspended at. A destruction takes the least set closed
  under ownership; the argument is that the frames that are not active (`Idle`) are
  closed under ownership, so a destruction never reaches a frame that runs or
  is awaited.
* `GeneratorTopIsInnermost` and `GeneratorExceptionsKept` (an action property) follow
  from `GenInv`: the frames that exist form a chain from the consumer's generator
  (`ChainedOK`, `NestAcyclic`), all but its end wait in `co_yield elements_of`, the
  end is what runs or has yielded (`EndOK`), `root` of every awaitable is the
  consumer's generator, and an exception is in flight at the end, or kept in the frame
  just before one that finishes, never both (`ExceptOK`). That the
  destruction of the root destroys the whole chain, and `NestedResume` one
  frame only, is `NestedInIs`.
* `GeneratorFrameFits`: the arithmetic of the blocks for every size and alignment,
  from lemmas on rounding up (`Quotient`, `Multiple`, `AlignUpLeast`).

### Channel

`ChannelProofs`, for the three templates, any capacity, senders, receivers and items:
`ChannelKeepsOrder`, `ChannelMissesNoWakeup` and `ChannelSectionsExclusive` (at most one
coroutine is in a section under `m_mtx`, which is why such a section may be one
step). The invariant has the mutexes (`LocksOK`: who is between lock and unlock owns
the mutex or is queued for it, once), who sleeps where (`SleepersOK`), the lists (`ListsOK`:
an awaiter is on one of them, or in the hands of one notifier, at one place, and
asleep), what a notifier holds at each of its steps (`HandsOK`), which points
an operation passes (`PathsOK`), what the unbuffered channel hands over
(`HandOverOK`) and the indices (`RingOK`). `ChannelKeepsOrder` and
`ChannelSectionsExclusive` hold on any contexts. `ChannelMissesNoWakeup` is about conditions whose
notifiers share a thread: then at most one of them is inside `notify_one`
(`NotifiersOK`), no list is severed, and whoever sleeps is on a list or in its hands
(`ReachOK`), so a notification that finds both lists empty finds nobody asleep. From
that, every way of entering, going to sleep, leaving and
notifying keeps the notifications under way and the operations awake as many as the
items (or free slots) that a sleeper would find (`Covered`).

### Condition variable

`ChannelProofs` again. `CvLockHeld`, for any waiters, notifiers and contexts, follows from the mutex part of
the invariant (`CvLock`), the types of the pointers (`CvLists`) and the point that a notifier
that reverses, registers or advances has an awaiter in hand (`CvHands`).

`CvNoStaleAwaiter` and `CvOneNotifierLosesNone` need the lists. `CvNoStale` says that there
is a naming `on` of lists such that every awaiter that waits belongs to one of
`awaiting`, `to_resume`, the part that notifier k has taken and the part that k has reversed;
that pointers and links stay within a list; and that at most one link leads to an awaiter,
and none to one that a pointer leads to. So a notifier that has an awaiter in hand has it alone,
and no one else registers it before it waits again; the link that `notify_one` leaves
stale (the `head` it pops keeps its `next`) is not counted, because nobody
follows it (`CvLoose`). The naming is quantified, not part of the state: each step gives the
next one, `Reverse` by moving one awaiter, the splice by renaming a list.
That nobody is lost takes two more parts, kept with one notification at a time:
whoever waits is the target of a pointer or of a link (`CvCovered`), and the links do
not go round (`CvNoCycle`). From these the set reached from the pointers grows in every round
until it has all who wait (`CvFound`). With two notifiers `CvCovered` is what `cv_append` breaks.

The assumption `CvAlone` restricts `notify_all` to setups in which all share one
io_context; elsewhere both properties are false (see Runs).

### Event loop

`RuntimeProofs`, for any contexts, coroutines and programs (`Setups`):

* `IoTypeCorrect` and `IoReapAccounting` from `IoBase`. A request is told from an
  equal one by a serial number (its maker's remaining fuel), so that what a
  ring owes is a set and `requests_to_reap` its cardinality; `RingsOK` says that no request is in a
  ring twice, `MetaOK` that the global counters count contexts. A detached request
  that fails posts a cqe nobody counted: the account, like the next two properties, is
  stated until that happens (`failed`), for every program.
* `IoHandleInOnePlace` from `PlacesOK`: the places (running, `reap_swap`,
  `co_spawn_queue`, messages in a submission and in a completion queue, of each context)
  partition the live coroutines that are not awaiting I/O; those that await or have prepared a
  request are partitioned by the rings; and each queue has its elements once. Moves
  between two places, departures and arrivals are lemmas on partitions. Hypothesis:
  `Roomy` (at most `swap_capacity` coroutines), because `forward_task` overwrites a
  slot when `reap_swap` is full.
* `IoEmptyOnlyIfCareless` from the same: a cqe that is in a ring is that of a request its
  coroutine awaits, and then has the handle, or has prepared. Programs are not
  restricted: those that yield between the two are covered, and so are those with detached
  requests that fail, up to the failure.
* `IoStopsOnlyWhenDrained` from `DrainOK`: messages are submitted before the loop leaves the
  work phase, and a message in a completion queue is for that context (`MailOK`); no
  context passes the barrier before all have been created (`BarrierOK`); where nobody
  calls `io_context_stop()`, only a context that is the only one ends (`KeepOK`); and the last part of
  the loop is left with a cqe handled or nothing to run and nobody left to send
  anything (`OverOK`). Hypothesis `Orderly`: either no program stops a context or messages
  go by msg_ring and no signal interrupts a wait. What it excludes is the eventfd and signal cases under Runs.

The hypotheses are conditions on a setup; the programs of the run satisfy them, the
programs named under Runs as excluded do not.

All of these hold for every value of the constants that satisfies the assumption
named in the component's module (`SemAssumption`, `CvAssumption`, `IoAssumption`, ...), which
TLC evaluates for the constants of the run.

Only model-checked: liveness under fairness (`WaiterEventuallyOwns`,
`WaiterEventuallyHolds`, `EveryTaskFinishes`, `ContextStops`, `EveryOperationCompletes`,
`AwaitCompletes`, `ParentResumes`, `CallsReturn`), which is out of the prover's reach.
Every safety property of a passing run is stated by a theorem.

## 5. Not modelled, and the plan

Not modelled: `net`, `mpl`, `log`, `utility`, `config` (no protocol of their own);
the payload of requests; requests that post several cqes (`multishot_accept`,
`multishot_accept_direct`, `recv_multishot`, `recvmsg_multishot`, `poll_multishot`, `send_zc`,
`send_zc_fixed`, `sendmsg_zc`), for which `handle_cq_entry` has no provision; a program's own
`msg_ring` and `msg_ring_cqe_flags`; `detach()` of a task other than by `co_spawn`; contexts constructed after others
have started and spawning from foreign threads; memory orders weaker than
sequential consistency, but for the results of Combinators; exceptions in the synchronisation primitives; generators
that were begun before they are nested (the proposal the code implements
excludes them), and awaiting a moved-from task (asserted against).

What could come next: requests with several cqes in IoContext.
