------------------------------ MODULE Lifecycle ------------------------------
(***************************************************************************)
(* hce::lifecycle: the members that make up the framework are constructed  *)
(* one after the other and destroyed in reverse, while threads of the      *)
(* program keep memory caches in it; and the registry of schedulers,       *)
(* scheduler::lifecycle::service, which suspends and resumes all of them   *)
(* and halts and joins them in the end.                                    *)
(*                                                                         *)
(* A scheduler is reduced to its control state and where its thread is;    *)
(* module Scheduler has the rest.                                          *)
(***************************************************************************)
EXTENDS Naturals, Sequences, LifecycleThreads

CONSTANTS
  Main,        \* the user that initializes the framework and destroys it
  PoolSize,    \* schedulers of the threadpool, the global one included
  Allocating,  \* bound: the threads, of any kind, that use a memory cache
  MaxCycles    \* bound: how often the framework is initialized

VARIABLES
  members,     \* how many members are constructed
  phase, cycles,
  instance_,   \* lifecycle::instance_ is set
  memory_caches_,      \* threads with a cache in the map
  scoped,      \* threads with a scoped_cache, a pointer to their cache
  outlived,    \* those whose scoped_cache was there when the map was freed
  dangling,    \* threads that used a cache or a map that was freed
  state_, lifecycle_pointers_, lk_,    \* of the registry
  held,        \* the lifecycle a user has made and not registered
  sch_state, run_thread,   \* of each scheduler
  service_thread

framework == <<members, phase, cycles, instance_>>
caches == <<memory_caches_, scoped, outlived, dangling>>
registry == <<state_, lifecycle_pointers_, lk_>>
schedulers == <<held, sch_state, run_thread>>
vars == <<framework, caches, registry, schedulers, service_thread>>

ServiceThreads == {TimerThread, WorkerThread}
Free == [user |-> None, op |-> "none", rest |-> <<>>]

\* The members of lifecycle that have a part in this, in their order: members = i
\* says that those up to the i-th exist.
self_init_ == 1
memory_caches_member == 2
scheduler_lifecycle_service_ == 3
scheduler_global_service_ == 4
threadpool_service_ == 5
blocking_service_ == 6
timer_service_ == 7

Init ==
  /\ members = 0 /\ phase = "down" /\ cycles = 0 /\ instance_ = FALSE
  /\ memory_caches_ = {} /\ scoped = {} /\ outlived = {} /\ dangling = {}
  /\ state_ = "executing" /\ lifecycle_pointers_ = <<>> /\ lk_ = Free
  /\ held = [u \in Users |-> None]
  /\ sch_state = [s \in Schedulers |-> "none"]
  /\ run_thread = [s \in Schedulers |-> "none"]
  /\ service_thread = [t \in ServiceThreads |-> "none"]

-----------------------------------------------------------------------------
(* A scheduler, under its own lock.                                        *)

\* scheduler::make(): its thread runs at once.
Make(s) ==
  /\ run_thread[s] = "none"
  /\ sch_state' = [sch_state EXCEPT ![s] = "executing"]
  /\ run_thread' = [run_thread EXCEPT ![s] = "runs"]

Notify(s, where) == run_thread' = [run_thread EXCEPT ![s] = IF @ \in where THEN "runs" ELSE @]

suspend_(s) ==
  IF sch_state[s] # "halted"
    THEN sch_state' = [sch_state EXCEPT ![s] = "suspended"] /\ Notify(s, {"waits_coroutines"})
    ELSE UNCHANGED <<sch_state, run_thread>>

resume_(s) ==
  IF sch_state[s] = "suspended"
    THEN sch_state' = [sch_state EXCEPT ![s] = "executing"] /\ Notify(s, {"waits_resume"})
    ELSE UNCHANGED <<sch_state, run_thread>>

Mut_halt_(s) ==
  /\ sch_state[s] # "halted"
  /\ sch_state' = [sch_state EXCEPT ![s] = "halted"]
  /\ Notify(s, {"waits_coroutines"})

halt_(s) ==
  /\ sch_state[s] # "halted"
  /\ sch_state' = [sch_state EXCEPT ![s] = "halted"]
  /\ Notify(s, {"waits_resume", "waits_coroutines"})

\* thd_.join(), and the end of the lifecycle.
Join(s) ==
  /\ sch_state[s] = "halted" /\ run_thread[s] = "exited"
  /\ sch_state' = [sch_state EXCEPT ![s] = "none"]
  /\ run_thread' = [run_thread EXCEPT ![s] = "none"]

-----------------------------------------------------------------------------
(* The memory caches.  A use of one is a step of its thread, under slk_ if *)
(* the scoped_cache is constructed or destroyed.                           *)

\* ~scoped_cache: erase_cache_() unless there is no lifecycle.  A key that is not
\* in the map is ignored; the map itself may be gone while instance_ is set.
EraseCache(t) ==
  /\ IF members >= memory_caches_member
       THEN memory_caches_' = memory_caches_ \ {t} /\ UNCHANGED dangling
       ELSE dangling' = dangling \cup (IF instance_ THEN {t} ELSE {}) /\ UNCHANGED memory_caches_
  /\ scoped' = scoped \ {t}
  /\ outlived' = IF dangling' = {} THEN outlived \ {t} ELSE outlived

ExitThread(t) == IF t \in scoped THEN EraseCache(t) ELSE UNCHANGED caches

Running(t) ==
  \/ t \in Schedulers /\ run_thread[t] = "runs"
  \/ t \in ServiceThreads /\ service_thread[t] = "runs"
  \/ t \in Users /\ (phase = "up" \/ (t = Main /\ members >= scheduler_lifecycle_service_))

\* cache::get(): the first one of a thread inserts its cache, a later one follows
\* the pointer.
Allocate(t) ==
  /\ Running(t)
  /\ \/ /\ t \notin scoped
        /\ memory_caches_' = memory_caches_ \cup {t}
        /\ scoped' = scoped \cup {t}
        /\ UNCHANGED dangling
     \/ /\ t \in scoped \ memory_caches_
        /\ dangling' = dangling \cup {t}
        /\ UNCHANGED <<memory_caches_, scoped>>
  /\ UNCHANGED <<framework, outlived, registry, schedulers, service_thread>>

\* A thread of the program ends, at any time; another may get its id.
ProgramExits(u) ==
  /\ u \in scoped
  /\ u # Main \/ phase = "down"
  /\ held[u] = None /\ lk_.user # u
  /\ EraseCache(u)
  /\ UNCHANGED <<framework, registry, schedulers, service_thread>>

-----------------------------------------------------------------------------
(* The threads of the library.                                             *)

\* run(): wait while suspended, wait for coroutines, return when halted.
SchedulerRuns(s) ==
  /\ run_thread[s] = "runs"
  /\ \/ /\ sch_state[s] = "suspended"
        /\ run_thread' = [run_thread EXCEPT ![s] = "waits_resume"]
        /\ UNCHANGED caches
     \/ /\ sch_state[s] = "executing"
        /\ run_thread' = [run_thread EXCEPT ![s] = "waits_coroutines"]
        /\ UNCHANGED caches
     \/ /\ sch_state[s] = "halted"
        /\ run_thread' = [run_thread EXCEPT ![s] = "exited"]
        /\ ExitThread(s)
  /\ UNCHANGED <<framework, registry, held, sch_state, service_thread>>

\* A coroutine is scheduled.
Scheduled(s) ==
  /\ run_thread[s] = "waits_coroutines" /\ sch_state[s] # "halted"
  /\ Notify(s, {"waits_coroutines"})
  /\ UNCHANGED <<framework, caches, registry, held, sch_state, service_thread>>

Member(t) == IF t = TimerThread THEN timer_service_ ELSE blocking_service_

\* The first timer starts the thread of its service; a worker is checked in.
ServiceStarts(t) ==
  /\ phase = "up"
  /\ service_thread[t] = "none"
  /\ service_thread' = [service_thread EXCEPT ![t] = "runs"]
  /\ UNCHANGED <<framework, caches, registry, schedulers>>

ServiceExits(t) ==
  /\ service_thread[t] = "stopping"
  /\ service_thread' = [service_thread EXCEPT ![t] = "exited"]
  /\ ExitThread(t)
  /\ UNCHANGED <<framework, registry, schedulers>>

-----------------------------------------------------------------------------
(* The registry, by users that hold lk_ over the whole of a loop.          *)

Lock(u, op, rest) ==
  /\ lk_ = Free
  /\ lk_' = [user |-> u, op |-> op, rest |-> rest]

make(u) ==
  /\ phase = "up" /\ held[u] = None /\ lk_.user # u
  /\ \E s \in Schedulers : Make(s) /\ held' = [held EXCEPT ![u] = s]
  /\ UNCHANGED <<framework, caches, registry, service_thread>>

\* What the holder of a lifecycle does with it: suspend, resume, halt, join.
UserControls(u) ==
  /\ held[u] # None /\ lk_.user # u
  /\ \/ (suspend_(held[u]) \/ resume_(held[u]) \/ halt_(held[u])) /\ UNCHANGED held
     \/ Join(held[u]) /\ held' = [held EXCEPT ![u] = None]
  /\ UNCHANGED <<framework, caches, registry, service_thread>>

Mut_registration(u) ==
  /\ phase = "up" /\ held[u] # None
  /\ sch_state[held[u]] # "halted"
  /\ Lock(u, "registration", IF state_ = "suspended" THEN <<held[u]>> ELSE <<>>)
  /\ UNCHANGED <<framework, caches, state_, lifecycle_pointers_, schedulers, service_thread>>

registration(u) ==
  /\ phase = "up" /\ held[u] # None
  /\ sch_state[held[u]] # "halted"
  /\ Lock(u, "registration", <<held[u]>>)
  /\ UNCHANGED <<framework, caches, state_, lifecycle_pointers_, schedulers, service_thread>>

suspend(u) ==
  /\ phase = "up"
  /\ Lock(u, "suspend", lifecycle_pointers_)
  /\ state_' = "suspended"
  /\ UNCHANGED <<framework, caches, lifecycle_pointers_, schedulers, service_thread>>

resume(u) ==
  /\ phase = "up"
  /\ state_ = "suspended"
  /\ Lock(u, "resume", lifecycle_pointers_)
  /\ state_' = "executing"
  /\ UNCHANGED <<framework, caches, lifecycle_pointers_, schedulers, service_thread>>

\* The next lifecycle gets the state of the registry; under lk_ that is the one
\* suspend() or resume() has just set.
Synchronize ==
  /\ lk_.rest # <<>>
  /\ IF state_ = "executing" THEN resume_(Head(lk_.rest)) ELSE suspend_(Head(lk_.rest))
  /\ lk_' = [lk_ EXCEPT !.rest = Tail(@)]
  /\ UNCHANGED <<framework, caches, state_, lifecycle_pointers_, held, service_thread>>

\* push_back(), if it was a registration, and the end of the lock_guard.
Unlock ==
  /\ lk_ # Free /\ lk_.rest = <<>>
  /\ IF lk_.op = "registration"
       THEN /\ lifecycle_pointers_' = Append(lifecycle_pointers_, held[lk_.user])
            /\ held' = [held EXCEPT ![lk_.user] = None]
       ELSE UNCHANGED <<lifecycle_pointers_, held>>
  /\ lk_' = Free
  /\ UNCHANGED <<framework, caches, state_, sch_state, run_thread, service_thread>>

-----------------------------------------------------------------------------
(* Construction and destruction of the framework.                          *)

Initialize ==
  /\ phase = "down" /\ cycles < MaxCycles
  /\ phase' = "constructing" /\ cycles' = cycles + 1
  /\ members' = self_init_ /\ instance_' = TRUE
  /\ UNCHANGED <<caches, registry, schedulers, service_thread>>

\* The next member.  The global service registers one scheduler, the threadpool
\* one after the other until there are PoolSize.
Construct ==
  /\ phase = "constructing"
  /\ \/ /\ members \notin {scheduler_lifecycle_service_, scheduler_global_service_}
        /\ members' = members + 1
        /\ state_' = IF members' = scheduler_lifecycle_service_ THEN "executing" ELSE state_
        /\ UNCHANGED <<lifecycle_pointers_, schedulers>>
     \/ /\ members \in {scheduler_lifecycle_service_, scheduler_global_service_}
        /\ \E s \in Schedulers :
             Make(s) /\ lifecycle_pointers_' = Append(lifecycle_pointers_, s)
        /\ members' = scheduler_global_service_
        /\ Len(lifecycle_pointers_) < PoolSize
        /\ UNCHANGED <<state_, held>>
     \/ /\ members = scheduler_global_service_
        /\ Len(lifecycle_pointers_) = PoolSize
        /\ members' = threadpool_service_
        /\ UNCHANGED <<state_, lifecycle_pointers_, schedulers>>
  /\ phase' = IF members' = timer_service_ THEN "up" ELSE phase
  /\ UNCHANGED <<cycles, instance_, caches, lk_, service_thread>>

\* The program has let go of the registry and of the lifecycles it made.
Destroy ==
  /\ phase = "up"
  /\ lk_ = Free /\ \A u \in Users : held[u] = None
  /\ phase' = "destroying"
  /\ UNCHANGED <<members, cycles, instance_, caches, registry, schedulers, service_thread>>

\* ~service of the timer and of the blocking calls: stop the thread, join it.
DestroyService(t) ==
  /\ phase = "destroying" /\ members = Member(t)
  /\ \/ /\ service_thread[t] = "runs"
        /\ service_thread' = [service_thread EXCEPT ![t] = "stopping"]
        /\ UNCHANGED members
     \/ /\ service_thread[t] \in {"none", "exited"}
        /\ service_thread' = [service_thread EXCEPT ![t] = "none"]
        /\ members' = members - 1
  /\ UNCHANGED <<phase, cycles, instance_, caches, registry, schedulers>>

\* Only the pointers to the threadpool and to the global service are cleared.
DestroyPointer ==
  /\ phase = "destroying" /\ members \in {scheduler_global_service_, threadpool_service_}
  /\ members' = members - 1
  /\ UNCHANGED <<phase, cycles, instance_, caches, registry, schedulers, service_thread>>

Mut_DestroyRegistry ==
  /\ phase = "destroying" /\ members = scheduler_lifecycle_service_
  /\ \/ /\ lifecycle_pointers_ # <<>>
        /\ halt_(Head(lifecycle_pointers_))
        /\ lifecycle_pointers_' = Tail(lifecycle_pointers_)
        /\ UNCHANGED members
     \/ /\ lifecycle_pointers_ = <<>>
        /\ members' = members - 1
        /\ UNCHANGED <<lifecycle_pointers_, sch_state, run_thread>>
  /\ UNCHANGED <<phase, cycles, instance_, caches, state_, lk_, held, service_thread>>

\* The registered lifecycles, front to back: halt_(), then join.
DestroyRegistry ==
  /\ phase = "destroying" /\ members = scheduler_lifecycle_service_
  /\ \/ /\ lifecycle_pointers_ # <<>>
        /\ \/ halt_(Head(lifecycle_pointers_)) /\ UNCHANGED lifecycle_pointers_
           \/ /\ Join(Head(lifecycle_pointers_))
              /\ lifecycle_pointers_' = Tail(lifecycle_pointers_)
        /\ UNCHANGED members
     \/ /\ lifecycle_pointers_ = <<>>
        /\ members' = members - 1
        /\ UNCHANGED <<lifecycle_pointers_, sch_state, run_thread>>
  /\ UNCHANGED <<phase, cycles, instance_, caches, state_, lk_, held, service_thread>>

\* The map goes without slk_, and instance_ is cleared later.
DestroyCaches ==
  /\ phase = "destroying" /\ members = memory_caches_member
  /\ members' = self_init_
  /\ memory_caches_' = {}
  /\ outlived' = outlived \cup scoped
  /\ UNCHANGED <<phase, cycles, instance_, scoped, dangling, registry, schedulers, service_thread>>

ClearInstance ==
  /\ phase = "destroying" /\ members = self_init_
  /\ members' = 0 /\ phase' = "down" /\ instance_' = FALSE
  /\ UNCHANGED <<cycles, caches, registry, schedulers, service_thread>>

-----------------------------------------------------------------------------
Teardown ==
  \/ \E t \in ServiceThreads : DestroyService(t)
  \/ DestroyPointer \/ DestroyRegistry \/ DestroyCaches \/ ClearInstance

UserStep(u) ==
  make(u) \/ UserControls(u) \/ registration(u) \/ suspend(u) \/ resume(u) \/ ProgramExits(u)

\* What happens after a thread has used what was freed is not modelled.
Next ==
  /\ dangling = {}
  /\ \/ Initialize \/ Construct \/ Destroy \/ Teardown
     \/ \E u \in Users : UserStep(u)
     \/ Synchronize \/ Unlock
     \/ \E s \in Schedulers : SchedulerRuns(s) \/ Scheduled(s)
     \/ \E t \in ServiceThreads : ServiceStarts(t) \/ ServiceExits(t)
     \/ \E t \in Allocating : Allocate(t)

\* The destroying thread, and with it the threads it joins, and the schedulers
\* get to run.
Fairness ==
  /\ WF_vars(dangling = {} /\ (Teardown \/ \E t \in ServiceThreads : ServiceExits(t)))
  /\ \A s \in Schedulers : WF_vars(dangling = {} /\ SchedulerRuns(s))

Spec == Init /\ [][Next]_vars /\ Fairness

-----------------------------------------------------------------------------
(* Properties.                                                             *)

\* Whenever the registry is unlocked, every scheduler in it is in the state of
\* the registry, whichever state it was registered in and whatever was locked,
\* suspended and resumed in between.
RegisteredFollow ==
  phase # "destroying" /\ lk_ = Free =>
    \A i \in DOMAIN lifecycle_pointers_ : sch_state[lifecycle_pointers_[i]] = state_

\* The map has a cache for exactly the running threads that have a pointer to
\* one, unless they are threads of the program that were there when a framework
\* was destroyed.  Only those ever follow a pointer to a freed cache, or find the
\* map gone when they exit; no thread of the library does.
CachesOutliveThreads ==
  /\ memory_caches_ = scoped \ outlived
  /\ outlived \cup dangling \subseteq Users
  /\ dangling \subseteq outlived

\* The destruction of the framework returns, whatever was suspended before.
TeardownReturns == phase = "destroying" ~> phase = "down" \/ dangling # {}
=============================================================================
