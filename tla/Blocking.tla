------------------------------- MODULE Blocking -------------------------------
(***************************************************************************)
(* hce::blocking::service: block() called by a coroutine checks out a      *)
(* worker, which is a thread and a list of operations, sends it the        *)
(* callable and awaits; the worker executes it and resumes the awaitable;  *)
(* the awaitable's destructor checks the worker in, to the cache or to be  *)
(* destroyed.  A thread, and a worker that calls block() again, execute    *)
(* the callable themselves: that changes nothing here.                     *)
(*                                                                         *)
(* One action is one critical section of the service's spinlock, of the    *)
(* awaitable's or of a worker's list, or one step without a lock.  Of the  *)
(* list the contract is used (ClosableQueue), of the awaitable the steps   *)
(* that module Awaitable shows to be atomic.                               *)
(***************************************************************************)
EXTENDS Integers, Sequences, FiniteSets, SequencesExt

CONSTANTS
  Coroutines,   \* callers, each on a scheduler of its own
  Workers,      \* the worker objects that may exist at a time
  CacheSize,    \* worker_cache_.size()
  MaxFailures,  \* bound: the thread launches that fail
  NULL

ASSUME BlockingAssumption ==
  /\ {CacheSize, MaxFailures} \subseteq Nat
  /\ NULL \notin Workers \cup Coroutines
  /\ IsFiniteSet(Coroutines)

VARIABLES
  worker_active_count_,
  worker_cache_,
  pc,          \* where a caller stands between block() and the end of ~async
  wkr_,        \* async::wkr_ of each caller
  operations_, \* the list of each worker, an operation being its caller
  closed_,     \* workers whose list is closed
  thread,      \* where a worker's thread stands, "none" if there is no such worker
  operation,   \* run_()'s operation
  ready_,      \* callers whose async is ready_
  handle_,     \* callers whose async holds their handle
  runs,        \* how often the callable of a caller's present call was executed
  clearer,     \* clear_worker_cache(): not called, or it holds the spinlock
  clearing,    \* the worker it is destroying
  failures,    \* launches that have failed
  halted,      \* callers whose scheduler is halted
  aborted      \* an exception left a worker's thread: std::terminate()

service == <<worker_active_count_, worker_cache_, clearer, clearing, failures>>
worker == <<operations_, closed_, thread, operation>>
async == <<ready_, handle_, runs>>
ends == <<halted, aborted>>
vars == <<service, pc, wkr_, worker, async, ends>>

Points ==
  {"idle", "launch", "schedule", "await", "suspended", "queued", "resumed", "discard", "join"}

TypeOK ==
  /\ worker_active_count_ \in Nat
  /\ worker_cache_ \in Seq(Workers) /\ Len(worker_cache_) <= CacheSize
  /\ pc \in [Coroutines -> Points]
  /\ wkr_ \in [Coroutines -> Workers \cup {NULL}]
  /\ operations_ \in [Workers -> Seq(Coroutines)]
  /\ closed_ \in SUBSET Workers
  /\ thread \in [Workers -> {"none", "pop", "execute", "resume", "schedule", "finish", "exited"}]
  /\ operation \in [Workers -> Coroutines \cup {NULL}]
  /\ {ready_, handle_, halted} \subseteq SUBSET Coroutines
  /\ runs \in [Coroutines -> Nat]
  /\ {clearer, aborted} \subseteq BOOLEAN
  /\ clearing \in Workers \cup {NULL}
  /\ failures \in 0 .. MaxFailures

Init ==
  /\ worker_active_count_ = 0
  /\ worker_cache_ = <<>>
  /\ pc = [c \in Coroutines |-> "idle"]
  /\ wkr_ = [c \in Coroutines |-> NULL]
  /\ operations_ = [w \in Workers |-> <<>>]
  /\ closed_ = {}
  /\ thread = [w \in Workers |-> "none"]
  /\ operation = [w \in Workers |-> NULL]
  /\ ready_ = {} /\ handle_ = {} /\ halted = {}
  /\ runs = [c \in Coroutines |-> 0]
  /\ clearer = FALSE /\ aborted = FALSE
  /\ clearing = NULL
  /\ failures = 0

Unlocked == ~clearer

\* worker_count(), for whoever has the spinlock.
worker_count == worker_active_count_ + Len(worker_cache_)

Go(c, point) == pc' = [pc EXCEPT ![c] = point]
Step(w, point) == thread' = [thread EXCEPT ![w] = point]

-----------------------------------------------------------------------------
(* Callers: block_() and async.                                            *)

\* async(): a new awaitable, for which checkout_worker_() counts a worker,
\* and takes it from the cache or leaves the lock to launch one.
Checkout(c) ==
  /\ pc[c] = "idle"
  /\ Unlocked
  /\ worker_active_count_' = worker_active_count_ + 1
  /\ ready_' = ready_ \ {c}
  /\ runs' = [runs EXCEPT ![c] = 0]

CheckoutNew(c) ==
  /\ worker_cache_ = <<>>
  /\ Checkout(c)
  /\ Go(c, "launch")
  /\ UNCHANGED <<worker_cache_, clearer, clearing, failures, wkr_, worker, handle_, ends>>

Mut_CheckoutCached(c) ==
  /\ worker_cache_ # <<>>
  /\ Checkout(c)
  /\ wkr_' = [wkr_ EXCEPT ![c] = Head(worker_cache_)]
  /\ Go(c, "schedule")
  /\ UNCHANGED <<worker_cache_, clearer, clearing, failures, worker, handle_, ends>>

CheckoutCached(c) ==
  /\ worker_cache_ # <<>>
  /\ Checkout(c)
  /\ wkr_' = [wkr_ EXCEPT ![c] = Head(worker_cache_)]
  /\ worker_cache_' = Tail(worker_cache_)
  /\ Go(c, "schedule")
  /\ UNCHANGED <<clearer, clearing, failures, worker, handle_, ends>>

\* worker(): an open list and a thread in run_().
Launch(c, w) ==
  /\ pc[c] = "launch"
  /\ thread[w] = "none"
  /\ wkr_' = [wkr_ EXCEPT ![c] = w]
  /\ Step(w, "pop")
  /\ Go(c, "schedule")
  /\ UNCHANGED <<service, operations_, closed_, operation, async, ends>>

Mut_LaunchFails(c) ==
  /\ pc[c] = "launch"
  /\ failures < MaxFailures
  /\ worker_active_count_' = worker_active_count_ - 1
  /\ failures' = failures + 1
  /\ Go(c, "idle")
  /\ UNCHANGED <<worker_cache_, clearer, clearing, wkr_, worker, async, ends>>

\* The operating system refuses a thread: the exception leaves block(), and
\* nothing takes back the count.
LaunchFails(c) ==
  /\ pc[c] = "launch"
  /\ failures < MaxFailures
  /\ failures' = failures + 1
  /\ Go(c, "idle")
  /\ UNCHANGED <<worker_active_count_, worker_cache_, clearer, clearing, wkr_, worker, async, ends>>

\* worker::schedule(): a closed list would drop the operation silently.
Schedule(c) ==
  /\ pc[c] = "schedule"
  /\ operations_' = IF wkr_[c] \in closed_ THEN operations_
                    ELSE [operations_ EXCEPT ![wkr_[c]] = Append(@, c)]
  /\ Go(c, "await")
  /\ UNCHANGED <<service, wkr_, closed_, thread, operation, async, ends>>

\* co_await, under the awaitable's lock.
Await(c) ==
  /\ pc[c] = "await"
  /\ IF c \in ready_
       THEN Go(c, "resumed") /\ UNCHANGED handle_
       ELSE Go(c, "suspended") /\ handle_' = handle_ \cup {c}
  /\ UNCHANGED <<service, wkr_, worker, ready_, runs, ends>>

\* The caller's scheduler executes it again.
Continue(c) ==
  /\ pc[c] = "queued" /\ c \notin halted
  /\ Go(c, "resumed")
  /\ UNCHANGED <<service, wkr_, worker, async, ends>>

\* ~async(): checkin_worker_() to a full cache leaves the worker to wkr_.
CheckinFull(c) ==
  /\ pc[c] = "resumed"
  /\ Unlocked
  /\ Len(worker_cache_) = CacheSize
  /\ worker_active_count_' = worker_active_count_ - 1
  /\ Go(c, "discard")
  /\ UNCHANGED <<worker_cache_, clearer, clearing, failures, wkr_, worker, async, ends>>

CheckinCached(c) ==
  /\ pc[c] = "resumed"
  /\ Unlocked
  /\ Len(worker_cache_) < CacheSize
  /\ worker_active_count_' = worker_active_count_ - 1
  /\ worker_cache_' = Append(worker_cache_, wkr_[c])
  /\ wkr_' = [wkr_ EXCEPT ![c] = NULL]
  /\ Go(c, "idle")
  /\ UNCHANGED <<clearer, clearing, failures, worker, async, ends>>

\* ~worker(): the list is closed, and the thread joined.
Discard(c) ==
  /\ pc[c] = "discard"
  /\ closed_' = closed_ \cup {wkr_[c]}
  /\ Go(c, "join")
  /\ UNCHANGED <<service, wkr_, operations_, thread, operation, async, ends>>

\* The thread has ended, and the worker is deleted.
Joined(w) ==
  /\ thread[w] = "exited"
  /\ Step(w, "none")
  /\ closed_' = closed_ \ {w}
  /\ UNCHANGED <<operations_, operation>>

Join(c) ==
  /\ pc[c] = "join"
  /\ Joined(wkr_[c])
  /\ wkr_' = [wkr_ EXCEPT ![c] = NULL]
  /\ Go(c, "idle")
  /\ UNCHANGED <<service, async, ends>>

-----------------------------------------------------------------------------
(* Workers: run_() and the operation it executes.                          *)

Mut_Pop(w) ==
  /\ thread[w] = "pop"
  /\ operations_[w] # <<>>
  /\ operation' = [operation EXCEPT ![w] = Head(operations_[w])]
  /\ Step(w, "execute")
  /\ UNCHANGED <<service, pc, wkr_, operations_, closed_, async, ends>>

Pop(w) ==
  /\ thread[w] = "pop"
  /\ operations_[w] # <<>>
  /\ operation' = [operation EXCEPT ![w] = Head(operations_[w])]
  /\ operations_' = [operations_ EXCEPT ![w] = Tail(@)]
  /\ Step(w, "execute")
  /\ UNCHANGED <<service, pc, wkr_, closed_, async, ends>>

PopFails(w) ==
  /\ thread[w] = "pop"
  /\ operations_[w] = <<>> /\ w \in closed_
  /\ Step(w, "exited")
  /\ UNCHANGED <<service, pc, wkr_, operations_, closed_, operation, async, ends>>

\* The callable is executed.
Execute(w) ==
  /\ thread[w] = "execute"
  /\ runs' = [runs EXCEPT ![operation[w]] = @ + 1]
  /\ Step(w, "resume")
  /\ UNCHANGED <<service, pc, wkr_, operations_, closed_, operation, ready_, handle_, ends>>

Mut_Resume(w) ==
  /\ thread[w] = "resume"
  /\ LET c == operation[w] IN
       IF c \in handle_
         THEN handle_' = handle_ \ {c} /\ ready_' = ready_ \cup {c} /\ Step(w, "schedule")
         ELSE Step(w, "finish") /\ UNCHANGED <<handle_, ready_>>
  /\ UNCHANGED <<service, pc, wkr_, operations_, closed_, operation, runs, ends>>

\* resume(), under the awaitable's lock: the result is there, and a handle,
\* if the caller is suspended already, leaves the awaitable.
Resume(w) ==
  /\ thread[w] = "resume"
  /\ LET c == operation[w] IN
       /\ ready_' = ready_ \cup {c}
       /\ handle_' = handle_ \ {c}
       /\ Step(w, IF c \in handle_ THEN "schedule" ELSE "finish")
  /\ UNCHANGED <<service, pc, wkr_, operations_, closed_, operation, runs, ends>>

\* to_destination(): schedule_() throws on a halted scheduler.
ToDestination(w) ==
  /\ thread[w] = "schedule"
  /\ LET c == operation[w] IN
       IF c \in halted
         THEN aborted' = TRUE /\ UNCHANGED <<pc, thread>>
         ELSE Go(c, "queued") /\ Step(w, "finish") /\ UNCHANGED aborted
  /\ UNCHANGED <<service, wkr_, operations_, closed_, operation, async, halted>>

\* The rest of the operation, by when the caller may have gone on.
Finish(w) ==
  /\ thread[w] = "finish"
  /\ Step(w, "pop")
  /\ operation' = [operation EXCEPT ![w] = NULL]
  /\ UNCHANGED <<service, pc, wkr_, operations_, closed_, async, ends>>

-----------------------------------------------------------------------------
(* clear_worker_cache() by any thread, and schedulers that are halted.     *)

ClearBegin ==
  /\ Unlocked
  /\ clearer' = TRUE
  /\ UNCHANGED <<worker_active_count_, worker_cache_, clearing, failures, pc, wkr_, worker, async, ends>>

\* worker_cache_.pop() destroys the worker in place, with the lock held.
ClearPop ==
  /\ clearer /\ clearing = NULL
  /\ worker_cache_ # <<>>
  /\ clearing' = Head(worker_cache_)
  /\ worker_cache_' = Tail(worker_cache_)
  /\ closed_' = closed_ \cup {Head(worker_cache_)}
  /\ UNCHANGED <<worker_active_count_, clearer, failures, pc, wkr_, operations_, thread, operation, async, ends>>

ClearJoin ==
  /\ clearing # NULL
  /\ Joined(clearing)
  /\ clearing' = NULL
  /\ UNCHANGED <<worker_active_count_, worker_cache_, clearer, failures, pc, wkr_, async, ends>>

ClearEnd ==
  /\ clearer /\ clearing = NULL
  /\ worker_cache_ = <<>>
  /\ clearer' = FALSE
  /\ UNCHANGED <<worker_active_count_, worker_cache_, clearing, failures, pc, wkr_, worker, async, ends>>

Halt(c) ==
  /\ halted' = halted \cup {c}
  /\ UNCHANGED <<service, pc, wkr_, worker, async, aborted>>

-----------------------------------------------------------------------------
\* What needs the service's spinlock, and what does not.
CallerLocks(c) == CheckoutCached(c) \/ CheckoutNew(c) \/ CheckinCached(c) \/ CheckinFull(c)

CallerRuns(c) ==
  \/ \E w \in Workers : Launch(c, w)
  \/ LaunchFails(c) \/ Schedule(c) \/ Await(c) \/ Continue(c) \/ Discard(c) \/ Join(c)

WorkerRuns(w) ==
  Pop(w) \/ PopFails(w) \/ Execute(w) \/ Resume(w) \/ ToDestination(w) \/ Finish(w)

Clear == ClearPop \/ ClearJoin \/ ClearEnd

Next ==
  /\ ~aborted
  /\ \/ \E c \in Coroutines : CallerLocks(c) \/ CallerRuns(c) \/ Halt(c)
     \/ \E w \in Workers : WorkerRuns(w)
     \/ ClearBegin \/ Clear

Spec == Init /\ [][Next]_vars

(***************************************************************************)
(* The operating system runs workers, callers and clear_worker_cache(), a  *)
(* thread that spins for the spinlock gets it in the end, and callables    *)
(* return.  Nobody has to call block().                                    *)
(***************************************************************************)
Fairness ==
  /\ \A c \in Coroutines :
       /\ WF_vars(~aborted /\ CallerRuns(c))
       /\ SF_vars(~aborted /\ (CheckinCached(c) \/ CheckinFull(c)))
  /\ \A w \in Workers : WF_vars(~aborted /\ WorkerRuns(w))
  /\ WF_vars(~aborted /\ Clear)

FairSpec == Spec /\ Fairness

-----------------------------------------------------------------------------
(* Properties.                                                             *)

\* The places where a worker is owned.
Owners(w) ==
  {<<"caller", c>> : c \in {c \in Coroutines : wkr_[c] = w}}
  \cup {<<"cache", i>> : i \in {i \in DOMAIN worker_cache_ : worker_cache_[i] = w}}
  \cup {<<"clear", 0>> : v \in {clearing} \cap {w}}

\* Every worker whose thread was launched and not joined has one owner, and no
\* owner has a worker that is gone: none is leaked, shared or joined twice.
\* A worker in the cache or about to be given an operation takes it and does it
\* next: its list is open and empty, and its thread is at most at the end of
\* an operation whose caller has gone on.
OneOwner ==
  /\ \A w \in Workers :
       IF thread[w] = "none" THEN Owners(w) = {} ELSE \E o \in Owners(w) : Owners(w) = {o}
  /\ \A w \in ToSet(worker_cache_) \cup {wkr_[c] : c \in {c \in Coroutines : pc[c] = "schedule"}} :
       /\ w \notin closed_
       /\ operations_[w] = <<>>
       /\ thread[w] \in {"pop", "finish"}

\* Whoever reads worker_count() gets the worker threads that exist and those that
\* are being launched, less those that are being destroyed, and one more for
\* every launch that has ever failed: checkout_worker_() counts before it
\* launches, and checkin_worker_() before it destroys.
CountDriftsByFailures ==
  Unlocked =>
    worker_count + Cardinality({c \in Coroutines : pc[c] \in {"discard", "join"}}) =
      Cardinality({w \in Workers : thread[w] # "none"})
        + Cardinality({c \in Coroutines : pc[c] = "launch"}) + failures

\* The await of a call returns when its callable was executed, exactly once.
ExecutedOnce ==
  \A c \in Coroutines :
    /\ runs[c] <= 1
    /\ pc[c] \in {"queued", "resumed", "discard", "join"} => runs[c] = 1

\* How far a call is, as its caller may see it.
PlaceOf(c) ==
  CASE pc[c] = "idle" -> "out"
    [] pc[c] = "launch" -> "asking"
    [] pc[c] \in {"schedule", "await", "suspended", "queued"} -> IF runs[c] = 0 THEN "served" ELSE "done"
    [] OTHER -> "returning"

Contract ==
  INSTANCE Delegation WITH
    Callers <- Coroutines, Hands <- Workers, Nobody <- NULL,
    place <- [c \in Coroutines |-> PlaceOf(c)],
    hand <- wkr_,
    hired <- {w \in Workers : thread[w] # "none"},
    doing <- [w \in Workers |-> IF thread[w] = "execute" THEN operation[w] ELSE NULL]

\* Calls are delegated to threads of their own: the lists of the workers, the cache
\* and the handshake of the awaitable are not to be seen.
ImplementsDelegation == Contract!Spec

\* What is under way on the service ends.  A call that has a worker returns to
\* its coroutine and gives the worker back, unless the scheduler of the caller is
\* halted; clear_worker_cache(), which joins threads with the spinlock held,
\* returns: no worker in the cache needs the lock any more.
CallsReturn ==
  /\ \A c \in Coroutines : pc[c] = "schedule" ~> (pc[c] = "idle" \/ c \in halted \/ aborted)
  /\ clearer ~> (~clearer \/ aborted)
=============================================================================
