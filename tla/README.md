# A verification project for hermesconcurrencyengine

`hce` is a C++20 library: coroutines are executed by schedulers, one thread
each, and communicate through awaitables, channels, timers and a service for
blocking calls. This directory holds TLA+ models of its protocols, the TLC
configurations that check them on small instances, and theorems about them
that TLAPS checks for every instance.

    tlc -workers 2 -config MCScheduler.cfg MCScheduler.tla      # model-check one run
    tlapm SchedulerProofs.tla                                   # check the proofs of one module

`PROJECT.json` lists the runs, the mutants (one plausible bug per property,
kept in the modules as `Mut_...` operators, that the run must notice), the
source lines each definition translates, the hazards and the findings.

Contents: 1 inventory, 2 modules, 3 runs, 4 proofs, 5 disagreements between the
code and its documentation, 6 what is not modelled, 7 plan.

## 1. Inventory

Sources are under `src/inc` and `src/src`; `tst` holds tests, `loguru` and
`tst/googletest` are vendored.

| component | state | operations | who it talks to |
| --- | --- | --- | --- |
| scheduler (`scheduler.hpp`) | `state_`, main queue, `batch_size_`, two waiting flags and condition variables under one spinlock; a local queue, `count` and `co` of the thread in `run()` | `schedule`, `run`, `suspend_`, `resume_`, `halt_`, `scheduled_count`, join, migrate | pushes come from coroutines, threads, and every awaitable that is resumed |
| coroutine (`coroutine.hpp`) | a handle with one owner, cleanup handlers of the promise, thread-local "this coroutine" | `resume`, `release`, `reset`, `yield`, `co_return`, exceptions | executed by `run()`; destruction runs joiners |
| awaitable (`coroutine.hpp`) | the suspended handle, or a blocked `this_thread`; awaited/resumed flags; lock and resume policies | `await_ready`, `await_suspend`, `resume`, `wait`, the destructor's checks | channels, timers, joins, migration and `block()` are all awaitables |
| channels (`channel.hpp`) | `closed_flag_`, a buffer, lists of parked senders and receivers, one lock | `send`, `recv`, `try_send`, `try_recv`, `close` for unbuffered, buffered, unlimited | park and resume awaitables of coroutines and threads |
| timer service (`timer.hpp`) | list sorted by timeout, `running_`, `waiting_`, a thread launched lazily, a spinlock and condition variable | `start`, `cancel`, the thread's loop, the destructor | resumes awaitables outside the lock |
| blocking service (`blocking.hpp`) | cache of worker threads, `worker_count_`, per-worker `synchronized_list` | `block`, worker checkout and checkin, cache clearing | a coroutine's awaitable is resumed by a worker thread |
| synchronized_list | list, `waiting_`, `closed_` | `push`, `pop`, `close` | blocking workers are its only users |
| scope (`scope.hpp`) | an unlimited channel of awaitables, a root awaiter coroutine and its awaitable | the constructor, `add`, `await`, the destructor | schedules its awaiter, sends on its channel; the awaiter joins what it receives |
| threadpool (`threadpool.hpp`) | vector of schedulers, a thread-local start index | `schedule`, `get`, `lightest` | reads `scheduled_count` of each scheduler, then schedules on one |
| lifecycle (`lifecycle.hpp`, and `scheduler::lifecycle` with its registry) | the members, in order of construction; a map of the threads' memory caches; the registry's state, list of schedulers and lock; per scheduler a thread | initialize and its end, register, suspend, resume, `get` of a thread's cache | suspends, resumes, halts and joins all schedulers; every thread that allocates has a pointer into the map |
| memory cache, allocators | thread-local and global buckets of free blocks per size | `allocate`, `deallocate`, pool allocation | every list node and coroutine frame |
| list, circular_buffer | nodes; an array with a read and a write index | push, pop, front, concatenate, sort | the queues of all of the above |
| spinlock, lockfree (`atomic.hpp`) | one atomic flag | `lock`, `try_lock`, `unlock` | all of the above |
| mutex, condition_variable | | | included by no other file and compiled by no target |
| ids, chrono, thread, config, logging | values, output | | |

How a coroutine travels: `schedule()` gives its handle to a scheduler's queue;
`run()` swaps the queue for its local one, pops handles one at a time into `co`
and resumes them without the lock. Inside the body, a `yield` puts the handle
back in the local queue; an await that is not ready moves it into an awaitable,
together with the scheduler it must come back to; whoever resumes the awaitable
(another coroutine, a thread, the timer's thread) pushes it onto that
scheduler. A body that returns leaves a done handle in `co`, and destroying it
resumes the coroutine that joins it.

What is hard, and what makes each component correct:

* scheduler: pushes, waits and control operations race; the thread releases its
  lock for a whole batch. Correct when a handle is in one place at a time, no
  push or control operation is slept through, a batch cannot be extended from
  inside (so control operations are seen), a destroyed coroutine's joiner is
  woken, and every queued coroutine runs.
* awaitables: resuming happens once, before the awaitable's memory is gone, and
  takes the coroutine back to its own scheduler.
* channels: values leave in the order they entered, exactly once; results are
  truthful; nobody waits for what is there; close releases everybody.
* timers: each awaitable is resumed once among expiry, cancel and shutdown,
  never early, and never slept through, though the thread waits in three ways.
* halting: `schedule_()` throws on a halted scheduler, after the handle was
  taken from its owner; every caller is a place where a step fails half-way.
* blocking: a worker resumes the caller, possibly before it has suspended, and
  the caller may give the worker back while that is still inside the operation.
  Correct when a worker has one owner, a callable runs once, and destroying
  workers, which joins threads and may happen under a spinlock, ends.
* synchronized_list: one flag and a notification after the unlock must be enough
  for the thread that sleeps.
* data structures: nodes and blocks travel between lists, pools and caches of
  threads. Correct when each has one owner and fits it.
* scope: a channel and a coroutine in place of a list and a lock. Correct when
  everything an `add()` has accepted is awaited before the await of the scope ends,
  that await ends, and coroutines can do all of it. The first and the last fail
  (section 5).
* threadpool: counts are read one after the other while they change. Correct when
  the choice is the best of what was read, enough was read, and nothing is indexed
  beyond the end.
* lifecycle: schedulers are registered while all of them are suspended or resumed,
  and destroyed while threads still hold pointers. Correct when a registered
  scheduler is in the registry's state, destruction returns whatever was suspended,
  and no thread of the library outlives its memory cache.

## 2. Modules

| module | models | shape |
| --- | --- | --- |
| `Scheduler` | `scheduler.hpp`, handles and yields of `coroutine.hpp` | state machine |
| `Executor` | what schedulers promise of coroutines | abstract specification |
| `ChannelCalls` | callers, parked lists, `close()`, the parts the channels share | definitions |
| `Unbuffered`, `Buffered`, `Unlimited` | the three implementations of `channel::interface` | state machines over the variables of `ChannelCalls` |
| `Chan` | `chan<T>`: one of the three, chosen at construction | composition by `INSTANCE` |
| `FifoChannel` | what a channel promises | abstract specification |
| `Timer` | `timer::service`, its thread and its default timeout algorithm | state machine |
| `Alarms` | what the service promises of timers | abstract specification |
| `Awaitable` | `awaitable::interface` and `this_thread`: how anybody waits and is resumed | state machine |
| `OneShot` | what an await promises | abstract specification |
| `Blocking` | `blocking::service`, its workers, the awaitable of `block()` | state machine |
| `Delegation` | what `block()` promises its caller | abstract specification |
| `SynchronizedList` | the list that workers consume | state machine |
| `ClosableQueue` | what that list promises a single consumer | abstract specification |
| `List` | `list` and `pool_allocator` | state machine |
| `CircularBuffer` | `circular_buffer` | state machine |
| `SequenceContract` | what the two promise | abstract specification |
| `MemoryCache` | `memory::cache` and its buckets | state machine |
| `Containers` | the four structures above, one at a time | composition by `INSTANCE` |
| `PoolBounds`, `Threadpool` | `threadpool::service` and `lightest()` | state machine, its parameters apart |
| `Scope` | `scope` and its root awaiter | state machine over an instance of `Unlimited` |
| `LifecycleThreads`, `Lifecycle` | `lifecycle`, the registry of schedulers, the memory caches of threads | state machine, its parameters apart |
| `Services` | `Timer`, `Threadpool`, `Scope` and `Lifecycle`, one at a time | composition by `INSTANCE` |
| `MCAwaitChan`, `MCBlockingContainers` | `Awaitable` or `Chan`, `Blocking` or `Containers`, for TLC | compositions, one part at a time |
| `MCScheduler`, `MCChan`, `MCTimer`, `MCScope`, `MCServices`, `MCSynchronizedList` | instances for TLC, symmetry | |
| `SchedulerProofs`, `ChanProofs`, `AwaitableProofs`, `BlockingProofs`, `ContainersProofs`, `ServicesProofs`, `LifecycleProofs` | theorems | proofs |
| `ListFacts` | sequences without repetitions, the lemmas the above share | definitions and proofs |

### Scheduler

Variables carry the names of the members; `local`, `count` and `co` are the
locals of `run()`, `pc` is where its thread stands, `running` is the coroutine
whose body it is inside of. One action is one critical section of the
scheduler's spinlock or one step of the running coroutine: `run()` shares
nothing between them. `Evaluate` is what the thread does under the lock, until
it waits on a condition variable (`WaitForResume`, `WaitForCoroutines`), takes a
batch or returns, and `CleanupBatch` enters it with the main queue and the rest
of the local queue concatenated. Waiting is the point of `pc` at which a
notification, or a spurious wakeup, moves it to `woken`.

A coroutine's body is any sequence of what the library offers: `Spawn`, `Yield`,
`Block` (an await of anything), `Join`, `Migrate`, `Wake`, `Return` and `Throw`.
The one thing asked of bodies is what the library asks, that the awt returned
by `schedule()` is awaited. A frame is destroyed by `DestroyDone`, a step of its
own between `co_return` and whatever `run()` does next, because the code
destroys it there; in the same step it wakes the joiner. An action whose name
ends in `Throws` is the same call with the target scheduler halted: it follows
the exception through the code, to a lost handle, a thread blocked in `~awt`
(`hung`) or `std::terminate` (`aborted`).

### Channels

An operation takes the channel's lock and keeps it until it has completed,
parked, or resumed its peer, so one operation is one action. `call` is each
caller's awaitable. Values are numbered in the order of the sends, which is all
that order and identity need. Three things in the code leave the defined
protocol, and `broken` is set where they bite: a sender resumed twice, a
destroyed sender resumed, and a receiver resumed with the address of the buffer
where it expects a transfer. `Chan` stops there, since what follows is
undefined.

### Timer

One action is one critical section of the service's spinlock, or one step
without it; the rest of a `cancel()` after its unlock (`ResumeCanceled`) and each
resumption of a timed-out awaitable are actions of their own, and other threads
act in between. Time is a clock that ticks independently. `stuck` is a
`cancel()` that spins with the lock held: from there on no action that needs the
lock is enabled. `empty_front` is the busy-wait's read of the front of an empty list.

### Awaitable

Every channel, timer, join and `block()` rests on one protocol, which the modules
above take as single steps; here it is taken apart. An awaiter constructs an
awaitable, asks `await_ready` with the lock held, and suspends: a coroutine stores
its handle and releases the lock, a thread stores itself and sleeps on its
condition variable. `family` is the pair of policies: `own` for an awaitable with a
lock of its own, which a resumer takes whenever it likes, and `shared` for one that
uses the channel's lock, which the resumer already holds. `resume()` releases the
lock before it pushes the handle (`to_destination`) or notifies the thread
(`NotifyOne`), and these are steps of their own: the awaiter may have returned and
be gone by then. The thread's flag `ready` survives the awaitable, and so is the
thread's own variable here.

### Blocking and SynchronizedList

`Blocking` follows a call through `checkout_worker_()`, the launch of a thread that
may fail, the push to the worker's list, the await, and `~async`, which checks the
worker in or joins it. The worker's thread pops, executes, resumes and pops again.
`clear_worker_cache()` pops and joins with the spinlock held, so `Unlocked` guards
everything else that needs it, reading `worker_count` included: the calls that are
counted and the cached workers. Of the worker's list the contract is used, and
`SynchronizedList` is shown to implement that contract for one consumer; of the
awaitable, the steps that `Awaitable` shows to be safe. `aborted` is the end of the
process when a worker resumes a coroutine whose scheduler is halted.

In `SynchronizedList` one action is one critical section or one notification, and
a popper is outside, in its loop, or asleep.

### Containers

`List` has the pointers: `next`, `head_`, `tail_`, and for each list the pool of nodes
its allocator keeps, which after a `concatenate()` may have come from another list.
`Content` follows the pointers. `CircularBuffer` has the array with its two indices
and an element or none at each place. `SequenceContract` has a step for each thing
that can be done to sequences, and `Promised`, in either module, says which of them an
operation takes: a push at the back is not one at the front, and `pop()` takes the
front; a buffer holds no more than its size. `MemoryCache` gives each thread its buckets; a
block carries its index and is given back by any thread. `Containers` picks one
structure in its initial state. Copying a list is a sequence of `emplace_back` and
no action of its own.

### Services

`Threadpool`: `scheduled_count()` takes one scheduler's lock, so that each reading of
`lightest()` is a step, and between two of them `CountChanges` stands for everything
other threads and coroutines do. `seen` remembers what a call has read. `Restart` is
the framework shut down and initialized again with another count, which leaves
`tl_rotatable_start_index` as it was; `overrun` is a call that then indexes beyond
the end.

`Scope` is an instance of `Unlimited` whose n-th value is the n-th awaitable. `add()`
is a check, sends, and a return, each a step of its own, and so are what the root
awaiter receives, joins and destroys. A coroutine's `add()` ends the process
(`AddInCoroutine`): `add_()` drops the awaitable of `send()`, which a coroutine must
await. The owner is a thread or a coroutine. `refused` are the awaitables that were
released to a channel which `await()` had closed since the check of `closed()`;
`added` are those of an `add()` that answered true, whichever they are.

`Lifecycle`: `members` counts the members that exist, up at construction and down at
destruction. Schedulers are reduced to their control state and where their threads
are. Registering, suspending and resuming hold the registry's lock over a loop, and
`Synchronize` is one turn of it: schedulers run between two turns, and holders of a
lifecycle that is not registered control theirs. Of the memory caches there is the map
(`memory_caches_`), the threads that have a pointer into it (`scoped`), those that
still had one when it was freed (`outlived`), and those that then used it
(`dangling`).

## 3. Runs

All bounds are in the `.cfg` files. `CHECK_DEADLOCK FALSE` everywhere: a system
whose schedulers have halted, whose values are all sent, or whose service or
framework was destroyed stops, and does so properly. `MCTimer` has an instance of
its own, with the property that is violated, and so have `MCScope` and
`MCSynchronizedList`; the passing properties of these modules are in `services` and
`blocking_containers`. A composite run picks one part in its initial state.

| run | instance | distinct states | shows |
| --- | --- | --- | --- |
| `scheduler` | 2 schedulers, 3 coroutines, 1 thread, symmetry | 623,347 | `OnePlace`, `NoLostWakeup`, `BatchCovered`, `BatchIsFixed`, `JoinPending`, `LossNeedsHalt`, `CountSeesWork`, `Consistent`, `TypeOK` |
| `scheduler_live` | 2 schedulers, 2 coroutines, 1 thread | 72,892 | the schedulers implement `Executor`; `QueuedRuns`, `JoinerResumes`, `HaltedReturns` |
| `scheduler_halt` | 1 scheduler, 2 coroutines, 1 thread | violation | `halt_()` leaves scheduled coroutines behind |
| `awaitable_chan` | await protocol: 1 coroutine, 2 threads, 2 resumers; channels: 3 callers, capacity 2, 4 values, all implementations | 352,129 | `NoDangling`, `FlagIsFresh`, `NoLostResume`, the protocol implements `OneShot`; `ResultIsTruth`, `WaitersListed`, `NoIdlePair`, `Typed`, every implementation implements `FifoChannel` |
| `chan_twice` | 3 callers, 3 values, symmetry | violation | a value is received twice after `unbuffered::try_recv()` |
| `chan_stranded` | 3 callers, capacity 1, 3 values, symmetry | violation | a send on a closed buffered channel is never resumed |
| `services` | 2 timers, timeouts 0 to 5, thresholds 1, 2, 3; pools of 1 to 3, loads to 2, 1 caller; scope: 2 threads, 1 coroutine, 2 awaitables; lifecycle: 2 schedulers, 2 users, a pool of 1, 2 initializations | 250,637 | `ResumedOnce`, `NoOversleep`, `EveryTimerEnds`, the service implements `Alarms`; `ChosenIsLightest`, `IndexInRange`; `TakenAreAwaited`, `ScopeEnds`; `RegisteredFollow`, `CachesOutliveThreads`, `TeardownReturns` |
| `timer_cancel` | 2 timers | violation | a `cancel()` of a later timer never returns |
| `blocking_containers` | blocking: 2 coroutines, 3 workers, a cache of 1, 1 failing launch; shared list: 2 callers, 1 consumer, 2 values, lists of 3; 2 lists, 3 nodes, pools of 1; 2 buffers of 0, 2 or 3; 2 threads, 3 blocks, 2 buckets | 114,876 | `OneOwner`, `CountDriftsByFailures`, the service implements `Delegation`, `CallsReturn`; `MemoryOwned`, the shared list implements `ClosableQueue` (`SharedListIsQueue`), every operation of `List` and `CircularBuffer` is its step of `SequenceContract` (`AreSequences`) |
| `synchronized_list_two` | 2 callers, 2 consumers | violation | a consumer sleeps forever on a closed list |
| `scope_add` | a thread as owner, another thread, a coroutine, 2 awaitables | violation | `add()` answers true for an awaitable that `await()` does not cover |
| `scope_coroutine` | a coroutine as owner, 2 threads, 2 awaitables | violation | a scope that is constructed in a coroutine terminates the process |

Why the bounds are enough. Two schedulers give every pairing of a caller inside
and outside a scheduler, and a migration; three coroutines give a joiner, the
coroutine it joins and a third that yields, wakes or pushes meanwhile, and a
batch with a middle. The queue is bounded by the coroutines, the counters by the
queue. For liveness, two coroutines suffice to starve one by the other. A
capacity of 2 with 3 callers and 4 values gives a buffer that is full with a
sender parked, and one whose front is not its back; parked lists of two
senders. `MaxSends` bounds the values. Five ticks of time with thresholds 1, 2
and 3 reach every branch of the timeout algorithm and the busy-wait, before and
after each timeout; two timers have one that is first and one that is not.
Awaiters await again and again, so one after the other is covered with one
awaitable each; the second thread is what a late notification can go astray to,
and the second resumer what races the first. Two callers with a cache of one fill
the cache, overflow it and find it empty; the third worker is one that is still
ending when its caller starts another. Three nodes in two lists make lists of two
and one to concatenate, and nodes that are freed into the pool of the other list;
a buffer of 3 goes round; sizes 1, 2 and 3 with two buckets fall into the first,
the second and none, and the threads' limits are one block and several. A pool of
three has a scheduler before and one after the start index, and shrinks to two and
one; loads of 0, 1 and 2 are idle, lighter and heavier; callers share nothing but the
counts, which `CountChanges` changes in every way another caller would. Two
awaitables in a scope are one that is awaited while the other is added, and two
threads are an `add()` that races the owner's `await()`. In the lifecycle, the second
scheduler is one that a user makes, holds, and registers while the other user
suspends or resumes; two initializations show what survives the first; one scheduler,
one service thread and one user allocate, a thread of each kind. `MaxSends`,
`MaxLoad`, `MaxWorkers`, `MaxCycles` and `Allocating` are bounds of the instance.

Fairness. `Scheduler`: weak fairness of every scheduler's thread, since the
operating system runs it, and of the running body reaching a suspension point,
which cooperative scheduling asks of every coroutine. Nothing is assumed of
other threads, of control operations or of spurious wakeups. Spinlocks are
modelled by atomic steps: that a thread spinning for one eventually gets it is
part of the threads' fairness. `Awaitable` and `Blocking`: weak fairness of
whoever is inside an await, a resume, a call or an operation, since the operating
system runs it, and of callables, which return; strong fairness where a thread
needs a lock that others take again and again (`Relock`, the two checkins), which
is the same assumption on spinlocks. `SynchronizedList`: weak fairness of the
notification a caller owes and of a consumer that is awake. `Timer`: weak fairness of the service's thread,
of a `cancel()` or destructor that has begun, and of time; nobody has to start,
cancel or stop. `Scope`: weak fairness of the root awaiter, which its scheduler runs, of
the operations that were added, which complete, and of an owner that has begun to
wait; nobody has to add. `ScopeEnds` is about scopes that only threads use, which its
premise says: no coroutine is ever inside an `add()`. `Lifecycle`: weak fairness of the thread that destroys the
framework, of the service threads it has told to stop, and of every scheduler's thread.
A part of `Services`, `MCAwaitChan` or `MCBlockingContainers` that was not chosen has nothing enabled, so its fairness asks
nothing. `QueuedRuns` supposes that the scheduler executes from some time
on; `EveryTimerEnds` allows for a `cancel()` that spins.

Refinement. `Scheduler` implements `Executor` by reading a coroutine's stage and
site off the queues, `co`, `running` and the awaitables (`Stage`, `Site`): it runs
in one place at a time, it goes back to the scheduler it suspended on, a joiner
continues in the same step that destroys what it joins, and only a halted
scheduler costs a handle. A channel implements `FifoChannel` with the buffer
followed by what the senders that still wait have to offer (`Offers`) as the line of
values. The data structures
implement their contracts by what following the pointers or the indices gives.
`Timer` implements `Alarms`: where an alarm stands is read off the list, the hands of the
service's thread and those of a `cancel()`, and it ends by going off no earlier than its time, by
being called off, or by the shutdown. `Blocking` implements `Delegation` by hiding lists,
cache and handshake: a call has a thread of its own, which executes its callable once and
is given back. `Awaitable` implements `OneShot` by the stage of each awaiter's present
awaitable (`StageOf`); of the three this is the one whose contract has fairness, that an
await whose operation is complete returns.

## 4. Proofs

For all sets of schedulers, coroutines, threads and callers, every capacity, number
of values and size of a pool. The assumptions are the named ones of the modules:
`NullAssumption` (NULL is no scheduler or coroutine), `CapacityAssumption` (a buffer
holds at least one value), `MaxSendsAssumption`, `ThresholdAssumption` (the
timer's thresholds are naturals), `ScopeAssumption` (the root awaiter is none of those
who add, the owner may be), `AwaitersAssumption` (coroutines and threads differ), `BlockingAssumption` (workers and launches are bounded by naturals,
callers are finitely many, which the counts of workers need), `PoolAssumption`,
`ThreadsAssumption` (the kinds of threads differ), and those of `Containers`
(`BoundsAssumption`: sizes and limits are naturals, the nodes are finitely many).

`SchedulerProofs`: `TypeCorrect`, `WakeupsNotLost`, `BatchesCovered`,
`HandlesConsistent`, `CountNeverMissesWork`. The type invariant is not inductive:
popping the local queue keeps its type only if the queue is not empty
(`BatchCovered`), and queueing or parking the running coroutine only if there is
one (`Consistent`). `IInv` is the conjunction of these with `NoLostWakeup`, whose
own steps need the type of what they change. `CountSeesWork` needs, in addition,
that `batch_size_` stays positive until the batch is over (`BatchCounted`). The
proof has one lemma per action, and under it one step per conjunct.

`BatchesAreFixed`, an action property, adds what the local queue can be after each
action: the rest of a batch, or the batch that was taken when it was empty.

Its second half is about handles: `HandlesAreOwned` (`OnePlace`), `JoinersArePending`,
`LossFollowsHalt`, `SchedulersImplementContract`. `OnePlace` says that the places a
handle can be in are disjoint and none is listed twice; `OwnInv` is its inductive form,
which names, for a coroutine and a scheduler, the place (`At`) and says that no
coroutine has two (`Placed`, `Distinct`): each action takes a handle out of one place
and puts it into another, and needs only those two. `JoinInv` adds to it that a joiner
waits for one coroutine (`OneJoiner`), or completing one would leave a second behind,
and `LossInv` that a handle in no place (`Unowned`) is one that a halted scheduler
refused. The refinement is by steps: every action of `Scheduler` is an action of
`Executor` under the mapping, or leaves it as it is, and which of the two follows from
where the invariant says the handle is. Neither specification's fairness takes part.

Two action properties say what this comes to for a coroutine. `SuspendedComeBack`: who is
parked stays so on the same thing, until the handle goes into the queue of the scheduler
it suspended on, a joiner's in the step that destroys what it joined; it is lost only to a
halted one. `EveryBatchTakesAll`: who is queued is executed next or stays queued, is not
taken out of a batch, and is in the batch that begins next (`TurnsCome`). That is the safety half of
`QueuedRuns`, the bound on what can go before; that batches begin and end is fairness.

`ChanProofs`: `ChannelTyped`, `NobodyWaitsInVain`, `SuspendedAreListed`, for the
three implementations together. `NoIdlePair` is what lets the code hand a value
to a parked receiver without looking at the buffer, and it holds because a
sender parks only on a full buffer and a receiver only on an empty one, so its
halves need each other and the shape of each implementation (`Shape`). That the
awaitable that is resumed belongs to the caller that waits needs every value to
have one sender (`OneSender`) and, for the buffered channel, the parked senders
to be waiting and listed once (`NoStaleSender`). The second is false of the
unbuffered channel, where `try_recv()` leaves its sender behind, and the proof
goes by cases there on whether the sender still waits. The steps from which the
operations of the implementations are made are proved once (`HandOverStep`,
`StoreStep`, `TakeStep`, ...) and shared.

`ResultsAreTrue` and `ChannelsAreFifo` follow from a larger invariant. The answer of an
operation stays true while others operate (`Truthful`) because a value that is yet to
be sent is in nobody's hands. That a channel implements `FifoChannel` needs the line of
values to be the buffer followed by what waiting senders offer, in the order in which
they parked (`InLine`): parked senders are listed once and all of them wait, except
that the first of an unbuffered channel may have been left behind by `try_recv()`. Each
implementation's lemma proves that a step keeps the invariant and is a step of the
contract or none (`Proceeds`).

For users, from the contract's steps: `ValuesKeepTheirOrder` (what was received
followed by the line of values, `Stream`, only gets longer at its end, until `close()` withdraws
offers), `DeliveredOnce` (a value is received at most once, except by an unbuffered channel
that has resumed a sender twice), `MisuseIsConfined` (an unlimited channel never misuses
an awaitable, a buffered one only where a receiver is parked) and `OnlySendersAreStranded`
(who waits on a closed channel that was not misused is in `send()` on a buffered one). They give the two violating runs
their limits: what `chan_twice` and `chan_stranded` show happens nowhere else.

`AwaitableProofs`: `FlagsAreFresh`, `ResumeNotLost`, `NothingDangles`. The three need
each other: a flag is fresh because whoever would set it late still refers to an
awaitable, a resume is not lost because its resumer is between the unlock and the
notification, and nothing dangles because an awaiter leaves only when the flag says so
or a spurious wakeup let it go, which `NoDangling` names. From the same invariant,
`AwaitsAreOneShot`: every step is a step of `OneShot` or unseen. A resumer that is
between its steps is what the mapping needs it for: the awaiter it refers to is at the
stage from which the contract lets it go on.

`BlockingProofs`: `WorkersAreOwned`, `CountIsKnown`, `CallablesRunOnce`. What a
worker's thread may be doing follows from who owns the worker: a caller, the cache,
the thread that clears it, or nobody. `CountIsKnown` is about what `worker_count()`
returns, the counted calls and the used cache together. The invariant counts the first
over callers (`ActiveCounted`); that every worker has one owner makes the workers that
exist the disjoint union of those that calls hold and those that are cached, whose
cardinalities add up (`HeldWorkers`, `CachedWorkers`, `Sums`). The refinement,
`CallsAreDelegated`, needs that an idle worker is nobody's and that the callable a worker
executes is that of the call which owns it. `JoinsWaitForNobody` is the safety half
of `CallsReturn`: the thread that a destroyed worker joins, also with the spinlock held,
has nothing left to execute, so it needs no lock and nobody's scheduler to end.

`ServicesProofs`: `LightestIsChosen`, `StartIndexFits`, `TimersResumeOnce`,
`TimersAreNotEarly`, `TimeoutsAreNotSlept`, `TimersAreAlarms`, `ScopeAwaitsAll`. The first is the
invariant of the two loops (`Scanning`): what has been read is the range from the start
index to the index, going round, and the candidate is its lightest. It needs the pool
not to change during a call. A timer is resumed once because it is in the list, with
whoever took it out, or resumed, and in one of these places only (`Placed`). The thread
does not sleep past a timeout because the list is sorted (`Sorted`), so that its front
is what to wait for, and because it says that it waits whenever it does (`Watched`), so
that every change notifies it. That the service implements `Alarms`
needs the order too: what a check of the timeouts takes off the front of the list is all
that is overdue and nothing else, and is resumed in the order of the timeouts. What the scope has sent and not yet
awaited is in its channel or with the root awaiter (`Accounted`, `RootAt`), unless the
channel was closed when it was sent, and that channel is closed only by the owner's
`await()`: `ScopeAwaitsAll` is about what the open channel took, and not about all for which
`add()` answered true, since that is false (`scope_add`).

`LifecycleProofs`: `RegistryFollows`, `CachesAreOutlived`, `LibraryThreadsAreJoined`,
`DestructionIsComplete`. A registered scheduler is in
the registry's state, or still to come in the loop of whoever holds the lock
(`Following`), because registered schedulers and held ones are disjoint and none is
listed twice (`Owned`), so that nobody else controls them. That no library thread
outlives its cache is the order of destruction: which threads can still exist at each
number of members (`Staged`). The same stages give that no thread runs without the member
that joins it, and that a framework which is down has left nothing of its own: no
thread, registration, lock or cache (`NothingLeft`).

`ContainersProofs`: `MemoryHasOneOwner` (`MemoryOwned`), `StructuresAreSequences`
(`AreSequences`), `SharedListIsAtomic`, `OneConsumerIsNoticed`.

* A buffer's array, two indices and count agree (`Fits`); the remainders of the code
  are replaced by a subtraction (`Wrap`), which is the same for indices in range.
* A block is in the one bucket its header names, with its user, or not allocated
  (`Bucketed`, `Found`), and its bytes are those of its bucket (`Sized`). That a
  bucket's blocks are large enough for what `indexer()` sends there needs powers of two
  for every index: that they are positive, grow and exceed any size is argued from a
  least index at which it fails, since induction is out of reach.
* The nodes of a list are a chain of pointers (`Linked`). `ListInv` says which list or
  pool owns each node; that following the pointers gives the chain (`Walk`) is again
  an argument from a least counterexample. The lemma of each operation proves at once that
  `ListInv` is kept and that the step is the one of `SequenceContract` which `Promised`
  names for it. `StructuresAreSequences` has, besides, that a buffer holds at most its size.
* Each step of the shared list is one of `ClosableQueue`'s or a stutter, for any number
  of consumers. What two consumers lose is a notification: for one, a sleeper over a
  value or a closed list is owed one, which is the state the fairness needs.

The type invariants of `Timer`, `Awaitable`, `Blocking`, `Threadpool` and of the
structures in `Containers` are no properties of the runs; they are conjuncts of the
invariants above.

Only model-checked: liveness under fairness, which is beyond the prover (`QueuedRuns`,
`JoinerResumes`, `HaltedReturns`, `EveryTimerEnds`, `ScopeEnds`, `TeardownReturns`,
`CallsReturn`), and with it the fairness halves of the refinements of `ClosableQueue`
(`SharedListIsQueue`) and of `OneShot` (`ImplementsOneShot`), whose safety halves are
`SharedListIsAtomic` and `AwaitsAreOneShot`.

## 5. Where the code and its documentation disagree

Shown by a run:

* `unbuffered::try_recv()` (`channel.hpp:349`) resumes the front sender and does
  not pop it. The next receive resumes it again, or resumes freed memory.
* `buffered`'s `send()` on a closed channel (`channel.hpp:616`) answers "not ready"
  and parks nowhere: the caller never continues.
* `timer::service::cancel()` (`timer.hpp:182`) never advances its iterator: it
  spins with the lock held unless the timer is the first.
* `halt_()` (`scheduler.hpp:977`) does not let scheduled coroutines complete.
* `synchronized_list` has one flag for all consumers (`synchronized_list.hpp:126`):
  with two of them, a push takes the flag that `close()` looks at, and one sleeps
  on a closed list. The library's workers are single consumers, for which the run
  `blocking_containers` shows that it cannot happen.
* `scope::add()` checks `closed()` and sends in two steps (`scope.hpp:101`): when another
  thread's `await()` comes between, `add()` returns "`true` if successfully added" and not
  the failure promised once `await()` was called (`scope.hpp:91-95`), and nobody awaits
  the awaitable.
* `scope::add_()` drops the awaitable of `send()` (`scope.hpp:132`), which `awt::wait()`
  answers in a coroutine with `std::terminate()` (`coroutine.hpp:1047-1057`): the examples
  of `scope.hpp:28-37`, which are coroutines, terminate the process.

Contradicted by a property that passes, which says by how much: `worker_count()` is "the
total count of worker threads spawned for blocking operations in the entire process"
(`blocking.hpp:199`), part of it the "count of threads executing blocking operations"
(`blocking.hpp:512`). After every launch that fails it is one too high and stays so,
since `checkout_worker_()` counts before it launches (`blocking.hpp:406`), and while a
worker is destroyed it leaves that thread out. `CountDriftsByFailures` states exactly this.

Part of the models, without a sentence of documentation they contradict:
`buffered::try_send_()` resumes a receiver with the buffer's address
(`channel.hpp:694`); the timer's busy-wait reads the front of a list that a
`cancel()` may have emptied (`timer.hpp:509`); `schedule()` on a halted scheduler
blocks a thread forever and terminates a coroutine; `migrate()` to one loses the
coroutine at its next suspension; completing a coroutine whose joiner's scheduler
is halted terminates the process (`scheduler.hpp:225`), and so does a worker that
resumes such a caller of `block()`; notifying a thread after the unlock may touch a thread that has ended, but only
one that a spurious wakeup let go (`coroutine.hpp:489`, `NoDangling`).
`clear_worker_cache()` joins threads under a spinlock (`blocking.hpp:219`), and
`CallsReturn` shows that it ends.

Of the services: `lightest()` indexes
beyond the end after the framework was initialized again with a smaller pool
(`threadpool.cpp:39`, `overrun`); and a thread of the program that outlives a framework
keeps a pointer to a freed cache, which it follows when it allocates again or exits
while the next one ends (`memory.cpp:10`, `lifecycle.hpp:401`, `dangling`).

Seen while reading, and in no model: the comment on `scheduler::make()`
(`scheduler.hpp:688`) says that it registers, which it leaves to its caller; assigning
to a scope that is in use frees the channel under its root awaiter.

## 6. What is not modelled

* Of the scope, moving and assignment. Of the lifecycle, the configuration it copies, a
  second `initialize()`, which terminates, and coroutines that use a service while the
  framework is destroyed: the program must have let go of them. The destruction of the
  blocking service, which joins its cached workers while schedulers still run, is in
  `Lifecycle`, with one worker.
* Of the awaitables, the adopt policy, which nothing in the library uses. Of the
  scheduler, system threads that block on a join: `Awaitable` has them for any
  awaitable. Of the coroutines, nested resumption by hand, and typed results.
* Not at all: logging, identifiers, configuration and time conversions, which
  have no protocol; `mutex` and `condition_variable`, whose sources and includes are
  commented out and no longer match the awaitables; `experimental`, which nothing
  builds. The spinlock is taken at its word: the atomicity of actions rests on it.
* Vendored code, googletest and loguru, which is most of the repository's lines: what
  the models cover is a small share of all lines and most of the library's own.
* Data: values, coroutine results and timestamps are reduced to what the
  properties compare. Exceptions are modelled where they change state.

## 7. Plan

Stage 1, done: scheduler and its contract, channels and their contract, timer,
with the theorems above.

Stage 2, done: `Awaitable`; `SynchronizedList` and `Blocking`; `List`,
`CircularBuffer` and `MemoryCache`, composed in `Containers`; `Threadpool`, `Scope`
and `Lifecycle`, composed with the timer in `Services`.

Stage 3, done: proofs for `Scheduler` with its refinement, the channels with theirs,
`Timer`, `Awaitable`, `Blocking`, `Threadpool`, `Scope`, `Lifecycle` and the structures
of `Containers` with their contracts. Every safety property of the passing runs is
a theorem.

Stage 4, begun: contracts for the services that had none, `Alarms`, `Delegation` and
`OneShot`, with their refinements; theorems on what the invariants come to for those who
use a scheduler, a channel, `block()` or the framework.

Left: the composition of the services, one beside the other instead of one at a time,
where a timer resumes a coroutine of a scheduler that the registry suspends; and moving
a scope.
