------------------------------ MODULE Scheduler ------------------------------
(***************************************************************************)
(* hce::scheduler: every scheduler owns one thread that executes run(), a  *)
(* lock-protected queue that any thread may push onto, and a local queue   *)
(* that only code executing inside run() touches.                          *)
(*                                                                         *)
(* One action is one critical section of the scheduler's spinlock, or one  *)
(* step of the coroutine that run() is executing.  A coroutine's body is   *)
(* any sequence of the operations the library offers it.  The single       *)
(* obligation put on bodies is the library's own: an awt returned by       *)
(* schedule() is awaited before the coroutine that holds it returns.       *)
(***************************************************************************)
EXTENDS Integers, Sequences, FiniteSets, SequencesExt

CONSTANTS
  Schedulers,   \* the hce::scheduler objects
  Coros,        \* coroutine handles that may ever be scheduled
  Threads,      \* system threads that are no scheduler's thread
  NULL          \* the empty handle, or the absence of a scheduler

ASSUME NullAssumption == NULL \notin Schedulers \cup Coros

VARIABLES
  state,                  \* scheduler::state_
  queue,                  \* scheduler::coroutine_queue_
  batch_size,             \* scheduler::batch_size_
  waiting_for_resume,     \* scheduler::waiting_for_resume_
  waiting_for_coroutines, \* scheduler::waiting_for_coroutines_
  pc,                     \* where the thread in run() stands
  local,                  \* run()'s local_queue
  count,                  \* run()'s count, what is left of the batch
  co,                     \* run()'s co, the handle it owns
  running,                \* the coroutine whose body run() is inside of
  scheduled,              \* coroutines passed to schedule() so far
  holder,                 \* the coroutine that has yet to await k's awt
  parked,                 \* coroutines whose handle an awaitable holds
  awaiting,               \* the coroutine a parked coroutine joins, if any
  destination,            \* reschedule::destination_ of that awaitable
  destroyed,              \* coroutines whose frame is destroyed
  lost,                   \* handles that nothing owns any more
  hung,                   \* threads blocked in ~awt for a lost coroutine
  aborted                 \* std::terminate was called

flags == <<waiting_for_resume, waiting_for_coroutines>>
thread == <<pc, local, count, co, running>>
joins == <<scheduled, holder, parked, awaiting, destination>>
ends == <<destroyed, lost, hung, aborted>>
vars == <<state, queue, batch_size, flags, thread, joins, ends>>

States == {"executing", "suspended", "halted"}
Points == {"start", "waitResume", "waitCoros", "woken", "batch", "running", "exited"}

TypeOK ==
  /\ state \in [Schedulers -> States]
  /\ queue \in [Schedulers -> Seq(Coros)]
  /\ batch_size \in [Schedulers -> Nat]
  /\ waiting_for_resume \in [Schedulers -> BOOLEAN]
  /\ waiting_for_coroutines \in [Schedulers -> BOOLEAN]
  /\ pc \in [Schedulers -> Points]
  /\ local \in [Schedulers -> Seq(Coros)]
  /\ count \in [Schedulers -> Nat]
  /\ co \in [Schedulers -> Coros \cup {NULL}]
  /\ running \in [Schedulers -> Coros \cup {NULL}]
  /\ scheduled \in SUBSET Coros
  /\ holder \in [Coros -> Coros \cup {NULL}]
  /\ parked \in SUBSET Coros
  /\ awaiting \in [Coros -> Coros \cup {NULL}]
  /\ destination \in [Coros -> Schedulers \cup {NULL}]
  /\ destroyed \in SUBSET Coros
  /\ lost \in SUBSET Coros
  /\ hung \in SUBSET Threads
  /\ aborted \in BOOLEAN

Init ==
  /\ state = [s \in Schedulers |-> "executing"]
  /\ queue = [s \in Schedulers |-> <<>>]
  /\ batch_size = [s \in Schedulers |-> 0]
  /\ waiting_for_resume = [s \in Schedulers |-> FALSE]
  /\ waiting_for_coroutines = [s \in Schedulers |-> FALSE]
  /\ pc = [s \in Schedulers |-> "start"]
  /\ local = [s \in Schedulers |-> <<>>]
  /\ count = [s \in Schedulers |-> 0]
  /\ co = [s \in Schedulers |-> NULL]
  /\ running = [s \in Schedulers |-> NULL]
  /\ scheduled = {}
  /\ holder = [c \in Coros |-> NULL]
  /\ parked = {}
  /\ awaiting = [c \in Coros |-> NULL]
  /\ destination = [c \in Coros |-> NULL]
  /\ destroyed = {}
  /\ lost = {}
  /\ hung = {}
  /\ aborted = FALSE

-----------------------------------------------------------------------------
(* schedule_() and the two notifications.  `points' is pc after the        *)
(* caller's own step; a notified thread leaves its condition variable.     *)

\* Mutant: the flag is cleared but nobody is notified.
Mut_NotifyDropped(d, points) ==
  /\ waiting_for_coroutines' = [waiting_for_coroutines EXCEPT ![d] = FALSE]
  /\ pc' = points

CoroutinesNotify(d, points) ==
  /\ waiting_for_coroutines' = [waiting_for_coroutines EXCEPT ![d] = FALSE]
  /\ pc' = IF waiting_for_coroutines[d] /\ points[d] = "waitCoros"
           THEN [points EXCEPT ![d] = "woken"]
           ELSE points

\* `caller' is the scheduler whose run() the calling thread is in, or NULL.
Schedule_(caller, c, d, points) ==
  \/ /\ caller = d
     /\ local' = [local EXCEPT ![d] = Append(@, c)]
     /\ pc' = points
     /\ UNCHANGED <<queue, waiting_for_coroutines>>
  \/ /\ caller # d
     /\ state[d] # "halted"
     /\ queue' = [queue EXCEPT ![d] = Append(@, c)]
     /\ CoroutinesNotify(d, points)
     /\ UNCHANGED local

\* Mutant: a suspended scheduler refuses coroutines as well.
Mut_RejectsSuspended(caller, d) == caller # d /\ state[d] # "executing"

\* The call throws scheduler_halted_exception.
Rejects(caller, d) == caller # d /\ state[d] = "halted"

\* interface::resume() takes the handle out of the awaitable, whose life ends
\* when the coroutine it is handed to continues.
Unpark(c) ==
  /\ parked' = parked \ {c}
  /\ awaiting' = [awaiting EXCEPT ![c] = NULL]
  /\ destination' = [destination EXCEPT ![c] = NULL]

-----------------------------------------------------------------------------
(* The control operations a lifecycle calls from any thread.               *)

\* Mutant: suspend_() without its coroutines_notify_().
Mut_SuspendSilent(s) ==
  /\ state[s] # "halted"
  /\ state' = [state EXCEPT ![s] = "suspended"]
  /\ UNCHANGED <<queue, batch_size, flags, thread, joins, ends>>

Suspend_(s) ==
  /\ state[s] # "halted"
  /\ state' = [state EXCEPT ![s] = "suspended"]
  /\ CoroutinesNotify(s, pc)
  /\ UNCHANGED <<queue, batch_size, waiting_for_resume, local, count, co, running, joins, ends>>

Resume_(s) ==
  /\ state[s] = "suspended"
  /\ state' = [state EXCEPT ![s] = "executing"]
  /\ waiting_for_resume' = [waiting_for_resume EXCEPT ![s] = FALSE]
  /\ pc' = IF waiting_for_resume[s] /\ pc[s] = "waitResume"
           THEN [pc EXCEPT ![s] = "woken"]
           ELSE pc
  /\ UNCHANGED <<queue, batch_size, waiting_for_coroutines, local, count, co, running, joins, ends>>

\* Mutant: halt_() without its resume_notify_().
Mut_HaltSilent(s) ==
  /\ state[s] # "halted"
  /\ state' = [state EXCEPT ![s] = "halted"]
  /\ CoroutinesNotify(s, pc)
  /\ UNCHANGED <<queue, batch_size, waiting_for_resume, local, count, co, running, joins, ends>>

Halt_(s) ==
  /\ state[s] # "halted"
  /\ state' = [state EXCEPT ![s] = "halted"]
  /\ waiting_for_resume' = [waiting_for_resume EXCEPT ![s] = FALSE]
  /\ CoroutinesNotify(s, IF waiting_for_resume[s] /\ pc[s] = "waitResume"
                         THEN [pc EXCEPT ![s] = "woken"]
                         ELSE pc)
  /\ UNCHANGED <<queue, batch_size, local, count, co, running, joins, ends>>

-----------------------------------------------------------------------------
(* run(): what the thread does with the lock held, until it waits on a     *)
(* condition variable, leaves the lock to execute a batch, or returns.     *)
(* `q' is the queue as the thread finds it, its local queue being empty.   *)

LeaveHalted(s, q) ==
  /\ state[s] = "halted"
  /\ pc' = [pc EXCEPT ![s] = "exited"]
  /\ queue' = [queue EXCEPT ![s] = q]
  /\ batch_size' = [batch_size EXCEPT ![s] = 0]
  /\ waiting_for_resume' = [waiting_for_resume EXCEPT ![s] = FALSE]
  /\ waiting_for_coroutines' = [waiting_for_coroutines EXCEPT ![s] = FALSE]
  /\ local' = [local EXCEPT ![s] = <<>>]
  /\ UNCHANGED <<count, co>>

WaitForResume(s, q) ==
  /\ state[s] = "suspended"
  /\ pc' = [pc EXCEPT ![s] = "waitResume"]
  /\ queue' = [queue EXCEPT ![s] = q]
  /\ batch_size' = [batch_size EXCEPT ![s] = 0]
  /\ waiting_for_resume' = [waiting_for_resume EXCEPT ![s] = TRUE]
  /\ waiting_for_coroutines' = [waiting_for_coroutines EXCEPT ![s] = FALSE]
  /\ local' = [local EXCEPT ![s] = <<>>]
  /\ UNCHANGED <<count, co>>

\* Mutant: batch_size_ is not updated when a batch is taken.
Mut_TakeBatchUncounted(s, q) ==
  /\ state[s] = "executing"
  /\ q # <<>>
  /\ pc' = [pc EXCEPT ![s] = "batch"]
  /\ local' = [local EXCEPT ![s] = q]
  /\ queue' = [queue EXCEPT ![s] = <<>>]
  /\ count' = [count EXCEPT ![s] = Len(q)]
  /\ co' = [co EXCEPT ![s] = NULL]
  /\ UNCHANGED <<batch_size, flags>>

TakeBatch(s, q) ==
  /\ state[s] = "executing"
  /\ q # <<>>
  /\ pc' = [pc EXCEPT ![s] = "batch"]
  /\ local' = [local EXCEPT ![s] = q]
  /\ queue' = [queue EXCEPT ![s] = <<>>]
  /\ batch_size' = [batch_size EXCEPT ![s] = Len(q)]
  /\ count' = [count EXCEPT ![s] = Len(q)]
  /\ co' = [co EXCEPT ![s] = NULL]
  /\ UNCHANGED flags

WaitForCoroutines(s, q) ==
  /\ state[s] = "executing"
  /\ q = <<>>
  /\ pc' = [pc EXCEPT ![s] = "waitCoros"]
  /\ queue' = [queue EXCEPT ![s] = q]
  /\ batch_size' = [batch_size EXCEPT ![s] = 0]
  /\ waiting_for_coroutines' = [waiting_for_coroutines EXCEPT ![s] = TRUE]
  /\ local' = [local EXCEPT ![s] = <<>>]
  /\ UNCHANGED <<waiting_for_resume, count, co>>

Evaluate(s, q) ==
  /\ \/ LeaveHalted(s, q)
     \/ WaitForResume(s, q)
     \/ TakeBatch(s, q)
     \/ WaitForCoroutines(s, q)
  /\ UNCHANGED <<state, running, joins, ends>>

\* The thread holds the lock at the top of run(), or back from a wait.
Locked(s) == pc[s] \in {"start", "woken"} /\ Evaluate(s, queue[s])

\* A condition variable wait may return though nobody notified it.
SpuriousWakeup(s) ==
  /\ pc[s] \in {"waitResume", "waitCoros"}
  /\ pc' = [pc EXCEPT ![s] = "woken"]
  /\ UNCHANGED <<state, queue, batch_size, flags, local, count, co, running, joins, ends>>

-----------------------------------------------------------------------------
(* run(): the batch, executed without the lock.                            *)

\* Mutant: co outlives the batch, and only the next reset destroys.
Mut_DestroyOnReset(s) ==
  /\ pc[s] = "batch"
  /\ co[s] # NULL /\ count[s] > 0
  /\ destroyed' = destroyed \cup {co[s]}
  /\ co' = [co EXCEPT ![s] = NULL]
  /\ \/ /\ \A c \in parked : awaiting[c] # co[s]
        /\ UNCHANGED <<queue, waiting_for_coroutines, pc, local, parked, awaiting, destination>>
     \/ \E c \in parked :
          /\ awaiting[c] = co[s]
          /\ Schedule_(s, c, destination[c], pc)
          /\ Unpark(c)
  /\ UNCHANGED <<state, batch_size, waiting_for_resume, count, running, scheduled, holder,
                 lost, hung, aborted>>

\* co.reset(), or co going out of scope, destroys a coroutine that is done.
\* The promise's cleanup handler resumes the joiner: the coroutine waiting
\* for it, if any, is pushed onto the scheduler it was suspended on.
DestroyDone(s) ==
  /\ pc[s] = "batch"
  /\ co[s] # NULL
  /\ destroyed' = destroyed \cup {co[s]}
  /\ co' = [co EXCEPT ![s] = NULL]
  /\ \/ /\ \A c \in parked : awaiting[c] # co[s]
        /\ UNCHANGED <<queue, waiting_for_coroutines, pc, local, parked, awaiting, destination>>
     \/ \E c \in parked :
          /\ awaiting[c] = co[s]
          /\ Schedule_(s, c, destination[c], pc)
          /\ Unpark(c)
  /\ UNCHANGED <<state, batch_size, waiting_for_resume, count, running, scheduled, holder,
                 lost, hung, aborted>>

\* The same, but the joining coroutine's scheduler is halted: schedule_()
\* throws inside the promise's destructor and the process terminates.
DestroyThrows(s) ==
  /\ pc[s] = "batch"
  /\ co[s] # NULL
  /\ \E c \in parked : awaiting[c] = co[s] /\ Rejects(s, destination[c])
  /\ aborted' = TRUE
  /\ UNCHANGED <<state, queue, batch_size, flags, thread, joins, destroyed, lost, hung>>

\* Mutant: the loop runs until the local queue is empty.
Mut_ResumeUntilEmpty(s) ==
  /\ pc[s] = "batch"
  /\ co[s] = NULL
  /\ local[s] # <<>>
  /\ count' = [count EXCEPT ![s] = @ - 1]
  /\ co' = [co EXCEPT ![s] = Head(local[s])]
  /\ running' = [running EXCEPT ![s] = Head(local[s])]
  /\ local' = [local EXCEPT ![s] = Tail(@)]
  /\ pc' = [pc EXCEPT ![s] = "running"]
  /\ UNCHANGED <<state, queue, batch_size, flags, joins, ends>>

\* Mutant: the batch count is not decremented.
Mut_ResumeUncounted(s) ==
  /\ pc[s] = "batch"
  /\ co[s] = NULL
  /\ count[s] > 0 /\ local[s] # <<>>
  /\ co' = [co EXCEPT ![s] = Head(local[s])]
  /\ running' = [running EXCEPT ![s] = Head(local[s])]
  /\ local' = [local EXCEPT ![s] = Tail(@)]
  /\ pc' = [pc EXCEPT ![s] = "running"]
  /\ UNCHANGED <<state, queue, batch_size, flags, count, joins, ends>>

\* --count; co.reset(local_queue->front()); local_queue->pop(); co.resume()
ResumeNext(s) ==
  /\ pc[s] = "batch"
  /\ co[s] = NULL
  /\ count[s] > 0
  /\ count' = [count EXCEPT ![s] = @ - 1]
  /\ co' = [co EXCEPT ![s] = Head(local[s])]
  /\ running' = [running EXCEPT ![s] = Head(local[s])]
  /\ local' = [local EXCEPT ![s] = Tail(@)]
  /\ pc' = [pc EXCEPT ![s] = "running"]
  /\ UNCHANGED <<state, queue, batch_size, flags, joins, ends>>

\* Mutant: co is declared outside the scope that ends before the lock.
Mut_CleanupBeforeDestroy(s) ==
  /\ pc[s] = "batch"
  /\ count[s] = 0
  /\ Evaluate(s, queue[s] \o local[s])

\* The batch is over: lk.lock(), cleanup_batch(), and round the loop again.
CleanupBatch(s) ==
  /\ pc[s] = "batch"
  /\ co[s] = NULL
  /\ count[s] = 0
  /\ Evaluate(s, queue[s] \o local[s])

-----------------------------------------------------------------------------
(* What the running coroutine does.  It is still running afterwards, or    *)
(* has left run()'s co and the call of resume() returns.                   *)

Running(s) == pc[s] = "running"
Left(s) == [pc EXCEPT ![s] = "batch"]
LeaveResume(s) ==
  /\ running' = [running EXCEPT ![s] = NULL]
  /\ co' = [co EXCEPT ![s] = NULL]

\* hce::schedule() of another coroutine; the caller holds its awt.
Spawn(s, k, d) ==
  /\ Running(s)
  /\ k \notin scheduled
  /\ scheduled' = scheduled \cup {k}
  /\ Schedule_(s, k, d, pc)
  /\ holder' = [holder EXCEPT ![k] = running[s]]
  /\ UNCHANGED <<state, batch_size, waiting_for_resume, count, co, running, parked, awaiting,
                 destination, ends>>

\* The target is halted: the awt is destroyed unawaited by the exception,
\* which terminates the process when it happens inside a coroutine.
SpawnThrows(s, k, d) ==
  /\ Running(s)
  /\ k \notin scheduled
  /\ Rejects(s, d)
  /\ aborted' = TRUE
  /\ UNCHANGED <<state, queue, batch_size, flags, thread, joins, destroyed, lost, hung>>

\* Resuming an awaitable another coroutine is parked on, from a coroutine.
Wake(s, c) ==
  /\ Running(s)
  /\ c \in parked /\ awaiting[c] = NULL
  /\ Schedule_(s, c, destination[c], pc)
  /\ Unpark(c)
  /\ UNCHANGED <<state, batch_size, waiting_for_resume, count, co, running, scheduled, holder,
                 ends>>

\* Mutant: the yielding coroutine is queued again but co keeps its handle.
Mut_YieldUnreleased(s) ==
  /\ Running(s)
  /\ running' = [running EXCEPT ![s] = NULL]
  /\ pc' = Left(s)
  /\ local' = [local EXCEPT ![s] = Append(@, running[s])]
  /\ UNCHANGED <<state, queue, batch_size, flags, count, co, joins, ends>>

\* Mutant: the yielding coroutine goes to the front of the local queue.
Mut_YieldFront(s) ==
  /\ Running(s)
  /\ LeaveResume(s)
  /\ pc' = Left(s)
  /\ local' = [local EXCEPT ![s] = <<running[s]>> \o @]
  /\ UNCHANGED <<state, queue, batch_size, flags, count, joins, ends>>

\* co_await hce::yield: the handle stays in co and is queued locally again.
\* A coroutine that co no longer owns is dropped.
Yield(s) ==
  /\ Running(s)
  /\ LeaveResume(s)
  /\ pc' = Left(s)
  /\ \/ /\ co[s] = running[s]
        /\ local' = [local EXCEPT ![s] = Append(@, running[s])]
        /\ UNCHANGED lost
     \/ /\ co[s] = NULL
        /\ lost' = lost \cup {running[s]}
        /\ UNCHANGED local
  /\ UNCHANGED <<state, queue, batch_size, flags, count, joins, destroyed, hung, aborted>>

\* Mutant: the awaitable is bound to a scheduler chosen before it suspends.
Mut_ParkElsewhere(s, c, k) ==
  /\ LeaveResume(s)
  /\ pc' = Left(s)
  /\ parked' = parked \cup {c}
  /\ awaiting' = [awaiting EXCEPT ![c] = k]
  /\ destination' = [destination EXCEPT ![c] = CHOOSE d \in Schedulers : TRUE]
  /\ UNCHANGED <<state, queue, batch_size, flags, local, count, scheduled, ends>>

\* co_await of an awaitable that is not ready: the awaitable takes the handle.
Park(s, c, k) ==
  /\ LeaveResume(s)
  /\ pc' = Left(s)
  /\ parked' = parked \cup {c}
  /\ awaiting' = [awaiting EXCEPT ![c] = k]
  /\ destination' = [destination EXCEPT ![c] = s]
  /\ UNCHANGED <<state, queue, batch_size, flags, local, count, scheduled, ends>>

Block(s) ==
  /\ Running(s)
  /\ Park(s, running[s], NULL)
  /\ UNCHANGED holder

\* Mutant: the joiner is not asked whether it is ready before suspending.
Mut_JoinUnchecked(s, k) ==
  /\ Running(s)
  /\ holder[k] = running[s]
  /\ holder' = [holder EXCEPT ![k] = NULL]
  /\ Park(s, running[s], k)

\* co_await of k's joiner; it is ready once k's frame is destroyed.
Join(s, k) ==
  /\ Running(s)
  /\ holder[k] = running[s]
  /\ k \notin destroyed
  /\ holder' = [holder EXCEPT ![k] = NULL]
  /\ Park(s, running[s], k)

JoinReady(s, k) ==
  /\ Running(s)
  /\ holder[k] = running[s]
  /\ k \in destroyed
  /\ holder' = [holder EXCEPT ![k] = NULL]
  /\ UNCHANGED <<state, queue, batch_size, flags, thread, scheduled, parked, awaiting,
                 destination, ends>>

\* co_await migrate(): co gives the handle up, then it is pushed onto d.
Migrate(s, d) ==
  /\ Running(s)
  /\ LeaveResume(s)
  /\ Schedule_(s, running[s], d, Left(s))
  /\ UNCHANGED <<state, batch_size, waiting_for_resume, count, joins, ends>>

\* d is halted: the exception returns to the coroutine, which keeps running
\* though co has already given its handle up.
MigrateThrows(s, d) ==
  /\ Running(s)
  /\ Rejects(s, d)
  /\ co' = [co EXCEPT ![s] = NULL]
  /\ UNCHANGED <<state, queue, batch_size, flags, pc, local, count, running, joins, ends>>

\* co_return.  The handle stays in co, done, until co is reset.
Return(s) ==
  /\ Running(s)
  /\ \A k \in Coros : holder[k] # running[s]
  /\ pc' = Left(s)
  /\ running' = [running EXCEPT ![s] = NULL]
  /\ lost' = IF co[s] = NULL THEN lost \cup {running[s]} ELSE lost
  /\ UNCHANGED <<state, queue, batch_size, flags, local, count, co, joins, destroyed, hung,
                 aborted>>

\* An exception leaves the body: resume() rethrows it through run(), whose
\* thread has nothing to catch it.
Throw(s) ==
  /\ Running(s)
  /\ co[s] = running[s]
  /\ aborted' = TRUE
  /\ UNCHANGED <<state, queue, batch_size, flags, thread, joins, destroyed, lost, hung>>

-----------------------------------------------------------------------------
(* System threads that are no scheduler's.                                 *)

ThreadSchedule(t, c, d) ==
  /\ t \notin hung
  /\ c \notin scheduled
  /\ scheduled' = scheduled \cup {c}
  /\ Schedule_(NULL, c, d, pc)
  /\ UNCHANGED <<state, batch_size, waiting_for_resume, count, co, running, holder, parked,
                 awaiting, destination, ends>>

\* schedule_() throws after co.release(): the handle is gone, and unwinding
\* destroys the awt, which blocks the thread until a coroutine completes
\* that nothing will ever execute.
ThreadScheduleThrows(t, c, d) ==
  /\ t \notin hung
  /\ c \notin scheduled
  /\ Rejects(NULL, d)
  /\ scheduled' = scheduled \cup {c}
  /\ lost' = lost \cup {c}
  /\ hung' = hung \cup {t}
  /\ UNCHANGED <<state, queue, batch_size, flags, thread, holder, parked, awaiting, destination,
                 destroyed, aborted>>

ThreadWake(t, c) ==
  /\ t \notin hung
  /\ c \in parked /\ awaiting[c] = NULL
  /\ Schedule_(NULL, c, destination[c], pc)
  /\ Unpark(c)
  /\ UNCHANGED <<state, batch_size, waiting_for_resume, count, co, running, scheduled, holder,
                 ends>>

\* Whoever resumes an awaitable whose coroutine belongs to a halted scheduler
\* gets the exception, after the awaitable has given the handle up.
WakeThrows(caller, c) ==
  /\ caller = NULL \/ (caller \in Schedulers /\ Running(caller))
  /\ c \in parked /\ awaiting[c] = NULL
  /\ Rejects(caller, destination[c])
  /\ Unpark(c)
  /\ lost' = lost \cup {c}
  /\ UNCHANGED <<state, queue, batch_size, flags, thread, scheduled, holder, destroyed, hung,
                 aborted>>

-----------------------------------------------------------------------------

RunThread(s) ==
  \/ Locked(s) \/ DestroyDone(s) \/ DestroyThrows(s) \/ ResumeNext(s) \/ CleanupBatch(s)

\* Steps with which the running coroutine gives the thread back.
Relinquish(s) ==
  \/ Yield(s) \/ Block(s) \/ Return(s)
  \/ \E k \in Coros : Join(s, k)
  \/ \E d \in Schedulers : Migrate(s, d)

CoroutineStep(s) ==
  \/ Relinquish(s)
  \/ Throw(s)
  \/ \E k \in Coros : JoinReady(s, k) \/ Wake(s, k) \/ WakeThrows(s, k)
  \/ \E k \in Coros, d \in Schedulers : Spawn(s, k, d) \/ SpawnThrows(s, k, d)
  \/ \E d \in Schedulers : MigrateThrows(s, d)

ThreadStep(t) ==
  \/ \E c \in Coros, d \in Schedulers : ThreadSchedule(t, c, d) \/ ThreadScheduleThrows(t, c, d)
  \/ \E c \in Coros : ThreadWake(t, c) \/ (t \notin hung /\ WakeThrows(NULL, c))

Control(s) == Suspend_(s) \/ Resume_(s) \/ Halt_(s)

Next ==
  /\ ~aborted
  /\ \/ \E s \in Schedulers : RunThread(s) \/ SpuriousWakeup(s) \/ CoroutineStep(s) \/ Control(s)
     \/ \E t \in Threads : ThreadStep(t)

Spec == Init /\ [][Next]_vars

(***************************************************************************)
(* The operating system keeps running every scheduler's thread, and a      *)
(* coroutine's body reaches its next suspension point.  Nothing is assumed *)
(* of the threads, of lifecycles or of spurious wakeups.                   *)
(***************************************************************************)
Fairness ==
  \A s \in Schedulers :
    /\ WF_vars(~aborted /\ RunThread(s))
    /\ WF_vars(~aborted /\ Relinquish(s))

FairSpec == Spec /\ Fairness

-----------------------------------------------------------------------------
(* The states a coroutine can be in, read off the schedulers' state.       *)

Queued(c, s) == c \in ToSet(queue[s]) \/ c \in ToSet(local[s])
RunningOn(c, s) == running[s] = c
Owned(c, s) == co[s] = c

\* Every place that may hold c's handle, each once for every time it holds it.
Places(c) ==
  (UNION {{<<"queue", s, i>> : i \in {i \in DOMAIN queue[s] : queue[s][i] = c}} : s \in Schedulers})
  \cup (UNION {{<<"local", s, i>> : i \in {i \in DOMAIN local[s] : local[s][i] = c}} : s \in Schedulers})
  \cup { <<"co", s, 0>> : s \in {s \in Schedulers : co[s] = c \/ running[s] = c} }
  \cup { <<"awaitable", NULL, 0>> : x \in parked \cap {c} }
  \cup { <<"lost", NULL, 0>> : x \in lost \cap {c} }
  \cup { <<"destroyed", NULL, 0>> : x \in destroyed \cap {c} }

\* scheduled_count()
scheduled_count(s) == batch_size[s] + Len(queue[s])

(***************************************************************************)
(* Properties.                                                             *)
(***************************************************************************)

\* A handle that was scheduled is in exactly one place: one slot of one
\* queue, the run() that executes it, one awaitable, or it is destroyed or
\* lost; one that was not scheduled is nowhere.  The queue swap, the local
\* re-enqueue and the concatenation of cleanup_batch() neither drop nor
\* duplicate a handle (resuming a handle twice is undefined behaviour).
OnePlace ==
  \A c \in Coros :
    IF c \in scheduled THEN \E p \in Places(c) : Places(c) = {p} ELSE Places(c) = {}

\* No lost wakeup: a thread that nobody has notified waits for coroutines
\* only while it executes, its queue is empty and the flag that makes the
\* next push notify it is set; and waits for resume() only while suspended
\* with that flag set.
NoLostWakeup ==
  \A s \in Schedulers :
    /\ pc[s] = "waitCoros" =>
         state[s] = "executing" /\ queue[s] = <<>> /\ waiting_for_coroutines[s]
    /\ pc[s] = "waitResume" => state[s] = "suspended" /\ waiting_for_resume[s]

\* run() calls front() and pop() `count' more times in this batch: the local
\* queue always has that many handles, and outside a batch it is empty, so
\* that swapping it with the main queue loses nothing.
BatchCovered ==
  \A s \in Schedulers :
    IF pc[s] \in {"batch", "running"} THEN count[s] <= Len(local[s]) ELSE local[s] = <<>>

\* run() is inside a body exactly while it is inside co.resume(), and co owns
\* that coroutine's handle or, after a refused migration, none; the frame of
\* the last coroutine of a batch is destroyed before run() takes the lock;
\* and a parked coroutine has a scheduler to return to (to_destination()
\* dereferences destination_ without a check).
Consistent ==
  /\ \A s \in Schedulers :
       /\ running[s] # NULL <=> pc[s] = "running"
       /\ pc[s] = "running" => co[s] \in {NULL, running[s]}
       /\ pc[s] \notin {"batch", "running"} => co[s] = NULL /\ count[s] = 0
  /\ \A c \in parked : destination[c] \in Schedulers

\* threadpool::lightest takes a scheduled_count() of 0 for an idle worker: a
\* scheduler that has a coroutine queued, executing or not yet destroyed
\* never reports 0.
CountSeesWork ==
  \A s \in Schedulers :
    scheduled_count(s) = 0 => co[s] = NULL /\ running[s] = NULL /\ \A c \in Coros : ~Queued(c, s)

\* A coroutine parked on a join waits for a coroutine that is still to be
\* destroyed: destroying a frame and resuming its joiner leave no window in
\* which a joiner parks too late to be resumed.
JoinPending ==
  \A c \in parked : awaiting[c] # NULL => awaiting[c] \in scheduled \ destroyed

\* A handle is lost, and a thread hangs in the destructor of the awt that
\* schedule() made, only after some scheduler was halted.
LossNeedsHalt ==
  lost # {} \/ hung # {} => \E s \in Schedulers : state[s] = "halted"

\* The coroutines that run() has yet to resume in its current batch.
Batch(s) == SubSeq(local[s], 1, count[s])

\* A batch is fixed when it begins and shrinks from its front: nothing that
\* yields, is scheduled or is unblocked while it executes joins it or
\* overtakes one of its coroutines.  A batch begins only when the last one is
\* over and the scheduler is executing: after suspend_() or halt_() nothing
\* runs but the rest of the batch that was executing.
BatchIsFixed ==
  [][\A s \in Schedulers :
       \/ Batch(s)' = Batch(s)
       \/ Batch(s) # <<>> /\ Batch(s)' = Tail(Batch(s))
       \/ Batch(s) = <<>> /\ state[s] = "executing"]_vars

(***************************************************************************)
(* The scheduler implements the contract of module Executor.               *)
(***************************************************************************)
Stage(c) ==
  IF c \in destroyed THEN "destroyed"
  ELSE IF c \in lost THEN "lost"
  ELSE IF c \in parked THEN "blocked"
  ELSE IF \E s \in Schedulers : RunningOn(c, s) THEN "running"
  ELSE IF \E s \in Schedulers : Owned(c, s) THEN "done"
  ELSE IF c \in scheduled THEN "ready"
  ELSE "new"

Site(c) ==
  CASE Stage(c) = "blocked" -> destination[c]
    [] Stage(c) = "running" -> CHOOSE s \in Schedulers : RunningOn(c, s)
    [] Stage(c) = "done" -> CHOOSE s \in Schedulers : Owned(c, s)
    [] Stage(c) = "ready" -> CHOOSE s \in Schedulers : Queued(c, s)
    [] OTHER -> NULL

Contract == INSTANCE Executor WITH
  stage <- [c \in Coros |-> Stage(c)],
  site <- [c \in Coros |-> Site(c)],
  joining <- awaiting,
  refusing <- {s \in Schedulers : state[s] = "halted"}

\* Every behaviour of the schedulers is one the contract allows.
ImplementsContract == Contract!Spec

(***************************************************************************)
(* Liveness, under Fairness.                                               *)
(***************************************************************************)

\* No starvation: on a scheduler that is executing from some time on, every
\* queued coroutine is eventually resumed, however many coroutines yield,
\* are pushed by other threads or are pushed locally meanwhile.
QueuedRuns ==
  \A s \in Schedulers, c \in Coros :
    <>[](state[s] = "executing") => (Queued(c, s) ~> (RunningOn(c, s) \/ aborted))

\* A coroutine that joins one that has returned is eventually unparked: the
\* frame run() still holds is destroyed without waiting for more work.
JoinerResumes ==
  \A s \in Schedulers, k, c \in Coros :
    (awaiting[c] = k /\ c \in parked /\ Owned(k, s) /\ ~RunningOn(k, s)) ~> (c \notin parked \/ aborted)

\* The thread of a halted scheduler returns from run(), so that the join in
\* ~lifecycle returns.
HaltedReturns ==
  \A s \in Schedulers : state[s] = "halted" ~> (pc[s] = "exited" \/ aborted)

\* What the comment of halt_() says (scheduler.hpp:977-979): it ends
\* coroutine execution, but not before all previously scheduled coroutines
\* are completed.  Read generously, of the moment run() returns.
HaltCompletesScheduled ==
  \A s \in Schedulers : pc[s] = "exited" => queue[s] = <<>>
=============================================================================
