------------------------------- MODULE Services -------------------------------
(***************************************************************************)
(* What the framework offers on top of its schedulers, one at a time: the  *)
(* timer service, the threadpool's choice of a scheduler, the scope, and   *)
(* the lifecycle that constructs and destroys them all.  Those that are not *)
(* chosen stay as they begin.                                              *)
(***************************************************************************)
EXTENDS Timer, PoolBounds, LifecycleThreads

CONSTANTS
  Callers,  \* threadpool
  Threads, Coroutines, Owner, Root, MaxSends,  \* scope
  Main, PoolSize, Allocating, MaxCycles  \* lifecycle

\* The root awaiter adds nothing, and the scope's owner may.
ASSUME ScopeAssumption ==
  /\ Root \notin Threads \cup Coroutines
  /\ Owner \in Threads \cup Coroutines
  /\ MaxSends \in Nat

VARIABLES
  part,
  worker_count, scheduled_count, tl_rotatable_start_index, pass, starting_index, index,
  lightest_scheduler, lightest_workload, seen, shrunk, overrun,
  closed_flag, buf, parked_send, parked_recv, call, sends, received, broken,
  adding, adopted, added, refused, root, joined, complete, owner, terminated,
  members, phase, cycles, instance_, memory_caches_, scoped, outlived, dangling,
  state_, lifecycle_pointers_, lk_, held, sch_state, run_thread, service_thread

T == INSTANCE Threadpool
S == INSTANCE Scope
L == INSTANCE Lifecycle

poolVars ==
  <<worker_count, scheduled_count, tl_rotatable_start_index, pass, starting_index, index,
    lightest_scheduler, lightest_workload, seen, shrunk, overrun>>
scopeVars ==
  <<closed_flag, buf, parked_send, parked_recv, call, sends, received, broken,
    adding, adopted, added, refused, root, joined, complete, owner, terminated>>
lifecycleVars ==
  <<members, phase, cycles, instance_, memory_caches_, scoped, outlived, dangling,
    state_, lifecycle_pointers_, lk_, held, sch_state, run_thread, service_thread>>
servicesVars == <<part, vars, poolVars, scopeVars, lifecycleVars>>

ServicesInit ==
  /\ part \in {"timer", "threadpool", "scope", "lifecycle"}
  /\ Init /\ T!Init /\ S!Init /\ L!Init
  /\ part # "threadpool" => worker_count = 1

ServicesNext ==
  /\ \/ part = "timer" /\ Next /\ UNCHANGED <<poolVars, scopeVars, lifecycleVars>>
     \/ part = "threadpool" /\ T!Next /\ UNCHANGED <<vars, scopeVars, lifecycleVars>>
     \/ part = "scope" /\ S!Next /\ UNCHANGED <<vars, poolVars, lifecycleVars>>
     \/ part = "lifecycle" /\ L!Next /\ UNCHANGED <<vars, poolVars, scopeVars>>
  /\ UNCHANGED part

\* What is fair is disabled where a part begins, so it asks nothing of a part
\* that is not chosen.
ServicesSpec ==
  ServicesInit /\ [][ServicesNext]_servicesVars /\ Fairness /\ S!Fairness /\ L!Fairness

-----------------------------------------------------------------------------
(* Properties, where the parts state them: those of Timer as they are.     *)

\* threadpool: lightest() picks the best of what it has read, and has read
\* enough.
ChosenIsLightest == T!ChosenIsLightest

\* threadpool: a thread's start index fits the pool, unless a smaller one has
\* replaced it.
IndexInRange == T!IndexInRange

\* scope: what its channel took while it was open is awaited before the await of the
\* scope ends.
TakenAreAwaited == S!TakenAreAwaited

\* scope: its await and its destructor return, if only threads use it.
ScopeEnds == S!ScopeEnds

\* registry: its schedulers are in its state.
RegisteredFollow == L!RegisteredFollow

\* lifecycle: no thread of the library outlives its memory cache.
CachesOutliveThreads == L!CachesOutliveThreads

\* lifecycle: its destruction returns.
TeardownReturns == L!TeardownReturns
=============================================================================
