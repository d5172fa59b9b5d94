--------------------------- MODULE LifecycleProofs ---------------------------
(***************************************************************************)
(* Theorems about the lifecycle of module Services, for any schedulers,    *)
(* threads, size of the pool and number of initializations.                *)
(*                                                                         *)
(* That the threads of the library are gone when the memory caches are     *)
(* freed rests on the order of the members: a scheduler that has a thread  *)
(* is registered or held by a user (Owned), and a member that is destroyed *)
(* has left no registration and no thread (Staged).  That the registry's   *)
(* schedulers follow it needs those that the holder of its lock has not    *)
(* reached yet (Following).                                                *)
(***************************************************************************)
EXTENDS Services, ListFacts

SchedulerStates == {"none", "executing", "suspended", "halted"}
Live == {"runs", "waits_resume", "waits_coroutines"}
Member(t) == L!Member(t)

Locks ==
  [user : Users \cup {None}, op : {"none", "registration", "suspend", "resume"},
   rest : Seq(Schedulers)]

Typed ==
  /\ members \in 0 .. 7
  /\ state_ \in {"executing", "suspended"}
  /\ lifecycle_pointers_ \in Seq(Schedulers)
  /\ lk_ \in Locks
  /\ held \in [Users -> Schedulers \cup {None}]
  /\ sch_state \in [Schedulers -> SchedulerStates]
  /\ run_thread \in [Schedulers -> Live \cup {"none", "exited"}]
  /\ service_thread \in [{TimerThread, WorkerThread} -> {"none", "runs", "stopping", "exited"}]
  /\ scoped \subseteq Users \cup Schedulers \cup {TimerThread, WorkerThread}

\* What exists with how many members.
Staged ==
  /\ phase \in {"down", "constructing", "up", "destroying"}
  /\ phase = "down" => members = 0
  /\ phase = "constructing" => members \in 1 .. 6 /\ (members >= 3 => state_ = "executing")
  /\ phase = "up" => members = 7
  /\ phase # "up" => lk_ = L!Free /\ \A u \in Users : held[u] = None
  /\ members < 3 => lifecycle_pointers_ = <<>>
  /\ members < 7 => service_thread[TimerThread] = "none"
  /\ members < 6 => service_thread[WorkerThread] = "none"

\* A scheduler is registered once, or held by one user, or there is none.
Owned ==
  /\ IsInjective(lifecycle_pointers_)
  /\ \A s \in ToSet(lifecycle_pointers_) : sch_state[s] # "none"
  /\ \A s \in Schedulers :
       /\ run_thread[s] = "none" <=> sch_state[s] = "none"
       /\ run_thread[s] # "none" =>
            s \in ToSet(lifecycle_pointers_) \/ \E u \in Users : held[u] = s
  /\ \A u \in Users : held[u] # None =>
       /\ sch_state[held[u]] # "none"
       /\ held[u] \notin ToSet(lifecycle_pointers_)
       /\ \A v \in Users : held[v] = held[u] => v = u

\* The registered schedulers, and the one that is being registered, have the state
\* of the registry, or the holder of the lock has yet to reach them.
Follows(s) ==
  /\ sch_state[s] \in {"executing", "suspended"}
  /\ sch_state[s] = state_ \/ s \in ToSet(lk_.rest)

Following ==
  phase # "destroying" =>
    /\ \A s \in ToSet(lifecycle_pointers_) : Follows(s)
    /\ lk_.op = "registration" =>
         lk_.user \in Users /\ held[lk_.user] # None /\ Follows(held[lk_.user])
    /\ \A s \in ToSet(lk_.rest) :
         \/ s \in ToSet(lifecycle_pointers_)
         \/ lk_.op = "registration" /\ s = held[lk_.user]

\* Threads of the library that have a cache are running.
Cached ==
  /\ memory_caches_ = scoped \ outlived
  /\ outlived \cup dangling \subseteq Users
  /\ dangling \subseteq outlived
  /\ dangling = {} => outlived \subseteq scoped
  /\ members < 2 => memory_caches_ = {}
  /\ \A s \in Schedulers : s \in scoped => run_thread[s] \in Live
  /\ \A t \in {TimerThread, WorkerThread} :
       t \in scoped => service_thread[t] \in {"runs", "stopping"}

\* The inductive invariant.
LifecycleInv == Typed /\ Staged /\ Owned /\ Following /\ Cached

-----------------------------------------------------------------------------
\* The list of one scheduler.
LEMMA SingleElement ==
  ASSUME NEW D, NEW e \in D
  PROVE  <<e>> \in Seq(D) /\ ToSet(<<e>>) = {e}
BY DEF ToSet

LEMMA LifecycleInit == L!Init => LifecycleInv
<1> SUFFICES ASSUME L!Init PROVE LifecycleInv
  OBVIOUS
<1>1. ToSet(<<>>) = {}
  BY DEF ToSet
<1>2. Typed
  BY DEF L!Init, Typed, Locks, L!Free, L!ServiceThreads, SchedulerStates
<1>3. Staged
  BY DEF L!Init, Staged, L!ServiceThreads
<1>4. Owned
  BY <1>1 DEF L!Init, Owned, IsInjective
<1>5. Following
  BY <1>1 DEF L!Init, Following, L!Free
<1>6. Cached
  BY DEF L!Init, Cached
<1> QED
  BY <1>2, <1>3, <1>4, <1>5, <1>6 DEF LifecycleInv

-----------------------------------------------------------------------------
(* Schedulers and their control state.                                     *)

\* A live scheduler exists only with the registry.
LEMMA LiveNeedsRegistry ==
  ASSUME LifecycleInv, NEW s \in Schedulers, run_thread[s] # "none"
  PROVE  members >= 3
<1>1. s \in ToSet(lifecycle_pointers_) \/ \E u \in Users : held[u] = s
  BY DEF LifecycleInv, Owned
<1>2. CASE s \in ToSet(lifecycle_pointers_)
  <2>1. lifecycle_pointers_ # <<>>
    BY <1>2 DEF ToSet
  <2> QED
    BY <2>1 DEF LifecycleInv, Staged, Typed
<1>3. CASE \E u \in Users : held[u] = s
  BY <1>3, ThreadsAssumption DEF LifecycleInv, Staged
<1> QED
  BY <1>1, <1>2, <1>3

\* What suspend_(), resume_() and halt_() do to one scheduler: it stays, with its
\* thread, and the others are as they were.
LEMMA ControlStep ==
  ASSUME Typed, Owned, Cached, NEW s \in Schedulers, sch_state[s] # "none",
         L!suspend_(s) \/ L!resume_(s) \/ L!halt_(s)
  PROVE  /\ sch_state' \in [Schedulers -> SchedulerStates]
         /\ run_thread' \in [Schedulers -> Live \cup {"none", "exited"}]
         /\ sch_state'[s] # "none"
         /\ \A r \in Schedulers : r # s => sch_state'[r] = sch_state[r]
         /\ \A r \in Schedulers : run_thread'[r] = run_thread[r] \/ (run_thread[r] \in Live /\ run_thread'[r] \in Live)
         /\ L!suspend_(s) => sch_state[s] = "halted" \/ sch_state'[s] = "suspended"
         /\ L!resume_(s) => sch_state[s] \notin {"executing", "suspended"} \/ sch_state'[s] = "executing"
<1>1. CASE L!suspend_(s)
  BY <1>1 DEF L!suspend_, L!resume_, L!Notify, Typed, SchedulerStates, Live
<1>2. CASE L!resume_(s)
  BY <1>2 DEF L!suspend_, L!resume_, L!Notify, Typed, SchedulerStates, Live
<1>3. CASE L!halt_(s)
  BY <1>3 DEF L!suspend_, L!resume_, L!halt_, L!Notify, Typed, SchedulerStates, Live
<1> QED
  BY <1>1, <1>2, <1>3

\* One scheduler is controlled, and the rest of the state stays.
LEMMA ControlFrame ==
  ASSUME LifecycleInv, NEW s \in Schedulers, sch_state[s] # "none",
         L!suspend_(s) \/ L!resume_(s) \/ L!halt_(s),
         UNCHANGED <<L!framework, L!caches, state_, lifecycle_pointers_, held, service_thread>>,
         lk_' \in Locks, phase # "up" => lk_' = lk_
  PROVE  Typed' /\ Staged' /\ Owned' /\ Cached'
<1> USE DEF L!framework, L!caches
<1>1. /\ sch_state' \in [Schedulers -> SchedulerStates]
      /\ run_thread' \in [Schedulers -> Live \cup {"none", "exited"}]
      /\ sch_state'[s] # "none"
      /\ \A r \in Schedulers : r # s => sch_state'[r] = sch_state[r]
      /\ \A r \in Schedulers :
           run_thread'[r] = run_thread[r] \/ (run_thread[r] \in Live /\ run_thread'[r] \in Live)
  BY ControlStep DEF LifecycleInv
<1>2. Typed'
  BY <1>1 DEF LifecycleInv, Typed
<1>3. Staged'
  BY DEF LifecycleInv, Staged
<1>4. \A r \in Schedulers : run_thread'[r] = "none" <=> run_thread[r] = "none"
  BY <1>1 DEF Live
<1>5. \A r \in Schedulers : sch_state'[r] = "none" <=> sch_state[r] = "none"
  BY <1>1
<1>6. Owned'
  <2>1. \A r \in Schedulers :
          /\ run_thread'[r] = "none" <=> sch_state'[r] = "none"
          /\ run_thread'[r] # "none" =>
               r \in ToSet(lifecycle_pointers_') \/ \E u \in Users : held'[u] = r
    BY <1>4, <1>5 DEF LifecycleInv, Owned
  <2>2. ASSUME NEW u \in Users, held'[u] # None
        PROVE  /\ sch_state'[held'[u]] # "none"
               /\ held'[u] \notin ToSet(lifecycle_pointers_')
               /\ \A v \in Users : held'[v] = held'[u] => v = u
    BY <1>5, <2>2 DEF LifecycleInv, Owned, Typed
  <2>3. /\ IsInjective(lifecycle_pointers_')
        /\ \A r \in ToSet(lifecycle_pointers_') : sch_state'[r] # "none"
    <3>1. ToSet(lifecycle_pointers_) \subseteq Schedulers
      BY ElementFacts DEF LifecycleInv, Typed
    <3> QED
      BY <1>5, <3>1 DEF LifecycleInv, Owned
  <2> QED
    BY <2>1, <2>2, <2>3 DEF Owned
<1>7. Cached'
  BY <1>1 DEF LifecycleInv, Cached
<1> QED
  BY <1>2, <1>3, <1>6, <1>7

\* A new scheduler is one that nobody has.
LEMMA MakeIsNew ==
  ASSUME LifecycleInv, NEW s \in Schedulers, L!Make(s), phase # "destroying"
  PROVE  /\ sch_state[s] = "none" /\ s \notin ToSet(lifecycle_pointers_)
         /\ \A u \in Users : held[u] # s
         /\ s \notin scoped
         /\ sch_state' \in [Schedulers -> SchedulerStates]
         /\ run_thread' \in [Schedulers -> Live \cup {"none", "exited"}]
         /\ sch_state'[s] = "executing" /\ run_thread'[s] = "runs"
         /\ \A r \in Schedulers \ {s} : sch_state'[r] = sch_state[r] /\ run_thread'[r] = run_thread[r]
<1>1. run_thread[s] = "none" /\ sch_state[s] = "none"
  BY DEF L!Make, LifecycleInv, Owned
<1>2. s \notin ToSet(lifecycle_pointers_)
  BY <1>1 DEF LifecycleInv, Following, Follows
<1>3. \A u \in Users : held[u] # s
  BY <1>1, ThreadsAssumption DEF LifecycleInv, Owned
<1>4. s \notin scoped
  BY <1>1 DEF LifecycleInv, Cached, Live
<1>5. /\ sch_state' \in [Schedulers -> SchedulerStates]
      /\ run_thread' \in [Schedulers -> Live \cup {"none", "exited"}]
      /\ sch_state'[s] = "executing" /\ run_thread'[s] = "runs"
      /\ \A r \in Schedulers \ {s} : sch_state'[r] = sch_state[r] /\ run_thread'[r] = run_thread[r]
  BY DEF L!Make, LifecycleInv, Typed, SchedulerStates, Live
<1> QED
  BY <1>1, <1>2, <1>3, <1>4, <1>5

-----------------------------------------------------------------------------
(* The library's threads.                                                  *)

\* ~scoped_cache of a thread that is in the map, with the map there.
LEMMA EraseStep ==
  ASSUME LifecycleInv, dangling = {}, NEW t, t \in scoped, members >= 2, L!EraseCache(t)
  PROVE  /\ scoped' = scoped \ {t} /\ dangling' = {} /\ outlived' = outlived \ {t}
         /\ memory_caches_' = scoped' \ outlived'
<1>1. memory_caches_' = memory_caches_ \ {t} /\ dangling' = dangling
  BY DEF L!EraseCache, L!memory_caches_member
<1>2. scoped' = scoped \ {t} /\ outlived' = outlived \ {t}
  BY <1>1 DEF L!EraseCache
<1> QED
  BY <1>1, <1>2 DEF LifecycleInv, Cached

LEMMA SchedulerRunsStep ==
  ASSUME LifecycleInv, dangling = {}, NEW s \in Schedulers, L!SchedulerRuns(s)
  PROVE  LifecycleInv'
<1> USE DEF L!framework, L!registry
<1>1. run_thread[s] = "runs" /\ members >= 3 /\ s \notin Users
      /\ s \notin {TimerThread, WorkerThread}
  BY LiveNeedsRegistry, ThreadsAssumption DEF L!SchedulerRuns
<1>2. UNCHANGED <<members, phase, instance_, state_, lifecycle_pointers_, lk_, held, sch_state,
                  service_thread>>
  BY DEF L!SchedulerRuns
<1>3. /\ run_thread' \in [Schedulers -> Live \cup {"none", "exited"}]
      /\ run_thread'[s] # "none"
      /\ \A r \in Schedulers \ {s} : run_thread'[r] = run_thread[r]
  BY DEF L!SchedulerRuns, LifecycleInv, Typed, Live
<1>4. /\ scoped' \subseteq scoped /\ scoped \ {s} \subseteq scoped'
      /\ dangling' = {} /\ outlived' = outlived
      /\ memory_caches_' = scoped' \ outlived'
      /\ run_thread'[s] \notin Live => s \notin scoped'
  <2>1. CASE UNCHANGED L!caches /\ run_thread'[s] \in Live
    BY <2>1 DEF L!caches, LifecycleInv, Cached
  <2>2. CASE L!ExitThread(s)
    <3>1. s \notin outlived
      BY <1>1 DEF LifecycleInv, Cached
    <3>2. CASE s \in scoped
      <4>1. L!EraseCache(s) /\ members >= 2 /\ outlived \ {s} = outlived
        BY <1>1, <2>2, <3>1, <3>2 DEF L!ExitThread, LifecycleInv, Typed
      <4> QED
        BY <3>2, <4>1, EraseStep
    <3>3. CASE s \notin scoped
      BY <2>2, <3>3 DEF L!ExitThread, L!caches, LifecycleInv, Cached
    <3> QED
      BY <3>2, <3>3
  <2> QED
    BY <1>1, <2>1, <2>2 DEF L!SchedulerRuns, LifecycleInv, Typed, Live
<1>5. Typed'
  BY <1>2, <1>3, <1>4 DEF LifecycleInv, Typed
<1>6. Staged'
  BY <1>2 DEF LifecycleInv, Staged
<1>7. Owned'
  <2>1. \A r \in Schedulers : run_thread'[r] = "none" <=> run_thread[r] = "none"
    BY <1>1, <1>3
  <2> QED
    BY <1>2, <2>1 DEF LifecycleInv, Owned
<1>8. Following'
  BY <1>2 DEF LifecycleInv, Following, Follows
<1>9. Cached'
  <2>1. \A r \in Schedulers : r \in scoped' => run_thread'[r] \in Live
    BY <1>3, <1>4 DEF LifecycleInv, Cached
  <2>2. \A t \in {TimerThread, WorkerThread} :
          t \in scoped' => service_thread'[t] \in {"runs", "stopping"}
    BY <1>2, <1>4 DEF LifecycleInv, Cached
  <2>3. outlived' \subseteq scoped' \/ dangling' # {}
    BY <1>1, <1>4 DEF LifecycleInv, Cached
  <2>4. members' < 2 => memory_caches_' = {}
    BY <1>1, <1>2 DEF LifecycleInv, Typed
  <2> QED
    BY <1>4, <2>1, <2>2, <2>3, <2>4 DEF LifecycleInv, Cached
<1> QED
  BY <1>5, <1>6, <1>7, <1>8, <1>9 DEF LifecycleInv

LEMMA ScheduledStep ==
  ASSUME LifecycleInv, NEW s \in Schedulers, L!Scheduled(s)
  PROVE  LifecycleInv'
<1>1. UNCHANGED <<members, phase, instance_, memory_caches_, scoped, outlived, dangling, state_,
                  lifecycle_pointers_, lk_, held, sch_state, service_thread>>
  BY DEF L!Scheduled, L!framework, L!caches, L!registry
<1>2. /\ run_thread' \in [Schedulers -> Live \cup {"none", "exited"}]
      /\ \A r \in Schedulers :
           run_thread'[r] = run_thread[r] \/ (run_thread[r] \in Live /\ run_thread'[r] \in Live)
  BY DEF L!Scheduled, L!Notify, LifecycleInv, Typed, Live
<1>3. Typed'
  BY <1>1, <1>2 DEF LifecycleInv, Typed
<1>4. Staged'
  BY <1>1 DEF LifecycleInv, Staged
<1>5. Owned'
  <2>1. \A r \in Schedulers : run_thread'[r] = "none" <=> run_thread[r] = "none"
    BY <1>2 DEF Live
  <2> QED
    BY <1>1, <2>1 DEF LifecycleInv, Owned
<1>6. Following'
  BY <1>1 DEF LifecycleInv, Following, Follows
<1>7. Cached'
  BY <1>1, <1>2 DEF LifecycleInv, Cached
<1> QED
  BY <1>3, <1>4, <1>5, <1>6, <1>7 DEF LifecycleInv

\* A step that leaves schedulers and registry alone.
LEMMA RegistryFrame ==
  ASSUME LifecycleInv,
         UNCHANGED <<state_, lifecycle_pointers_, lk_, held, sch_state, run_thread>>,
         phase' = "destroying" \/ phase # "destroying" \/ lifecycle_pointers_ = <<>>
  PROVE  Owned' /\ Following'
<1>1. Owned'
  BY DEF LifecycleInv, Owned
<1>2. ToSet(<<>>) = {}
  BY DEF ToSet
<1>3. Following'
  <2>1. CASE phase' = "destroying"
    BY <2>1 DEF Following
  <2>2. CASE phase # "destroying"
    BY <2>2 DEF LifecycleInv, Following, Follows
  <2>3. CASE phase = "destroying" /\ lifecycle_pointers_ = <<>>
    BY <1>2, <2>3 DEF LifecycleInv, Staged, Following, Follows, L!Free
  <2> QED
    BY <2>1, <2>2, <2>3
<1> QED
  BY <1>1, <1>3

LEMMA ServiceStartsStep ==
  ASSUME LifecycleInv, NEW t \in {TimerThread, WorkerThread}, L!ServiceStarts(t)
  PROVE  LifecycleInv'
<1>1. UNCHANGED <<members, phase, instance_, memory_caches_, scoped, outlived, dangling, state_,
                  lifecycle_pointers_, lk_, held, sch_state, run_thread>>
  BY DEF L!ServiceStarts, L!framework, L!caches, L!registry, L!schedulers
<1>2. /\ phase = "up" /\ members = 7
      /\ service_thread' = [service_thread EXCEPT ![t] = "runs"]
  BY DEF L!ServiceStarts, LifecycleInv, Staged
<1>3. Typed'
  BY <1>1, <1>2 DEF LifecycleInv, Typed
<1>4. Staged'
  BY <1>1, <1>2 DEF LifecycleInv, Staged
<1>5. Owned' /\ Following'
  BY <1>1, <1>2, RegistryFrame
<1>6. Cached'
  BY <1>1, <1>2 DEF LifecycleInv, Cached, Typed
<1> QED
  BY <1>3, <1>4, <1>5, <1>6 DEF LifecycleInv

LEMMA ServiceExitsStep ==
  ASSUME LifecycleInv, dangling = {}, NEW t \in {TimerThread, WorkerThread}, L!ServiceExits(t)
  PROVE  LifecycleInv'
<1>1. UNCHANGED <<members, phase, instance_, state_, lifecycle_pointers_, lk_, held, sch_state,
                  run_thread>>
  BY DEF L!ServiceExits, L!framework, L!registry, L!schedulers
<1>2. /\ service_thread[t] = "stopping" /\ members >= 6 /\ t \notin Users /\ t \notin Schedulers
      /\ service_thread' = [service_thread EXCEPT ![t] = "exited"]
      /\ L!ExitThread(t)
  BY ThreadsAssumption DEF L!ServiceExits, LifecycleInv, Staged, Typed
<1>3. /\ scoped' = scoped \ {t} /\ dangling' = {} /\ outlived' = outlived
      /\ memory_caches_' = scoped' \ outlived'
  <2>1. t \notin outlived
    BY <1>2 DEF LifecycleInv, Cached
  <2>2. CASE t \in scoped
    <3>1. L!EraseCache(t) /\ members >= 2 /\ outlived \ {t} = outlived
      BY <1>2, <2>1, <2>2 DEF L!ExitThread, LifecycleInv, Typed
    <3> QED
      BY <2>2, <3>1, EraseStep
  <2>3. CASE t \notin scoped
    BY <1>2, <2>3 DEF L!ExitThread, L!caches, LifecycleInv, Cached
  <2> QED
    BY <2>2, <2>3
<1>4. Typed'
  BY <1>1, <1>2, <1>3 DEF LifecycleInv, Typed
<1>5. Staged'
  BY <1>1, <1>2 DEF LifecycleInv, Staged, Typed
<1>6. Owned' /\ Following'
  BY <1>1, RegistryFrame
<1>7. Cached'
  BY <1>1, <1>2, <1>3 DEF LifecycleInv, Cached, Typed
<1> QED
  BY <1>4, <1>5, <1>6, <1>7 DEF LifecycleInv

LEMMA AllocateStep ==
  ASSUME LifecycleInv, dangling = {}, NEW t, L!Allocate(t)
  PROVE  LifecycleInv'
<1>1. UNCHANGED <<members, phase, instance_, outlived, state_, lifecycle_pointers_, lk_, held,
                  sch_state, run_thread, service_thread>>
  BY DEF L!Allocate, L!framework, L!registry, L!schedulers
<1>2. /\ members >= 3
      /\ \/ t \in Schedulers /\ run_thread[t] \in Live
         \/ t \in {TimerThread, WorkerThread} /\ service_thread[t] = "runs"
         \/ t \in Users
  <2>1. CASE t \in Schedulers /\ run_thread[t] = "runs"
    BY <2>1, LiveNeedsRegistry DEF Live
  <2>2. CASE t \in L!ServiceThreads /\ service_thread[t] = "runs"
    BY <2>2 DEF L!ServiceThreads, LifecycleInv, Staged, Typed
  <2>3. CASE t \in Users /\ (phase = "up" \/ (t = Main /\ members >= 3))
    BY <2>3 DEF LifecycleInv, Staged, Typed
  <2> QED
    BY <2>1, <2>2, <2>3 DEF L!Allocate, L!Running, L!scheduler_lifecycle_service_
<1>3. /\ memory_caches_' = scoped' \ outlived
      /\ scoped' = scoped \cup {t}
      /\ dangling' \subseteq outlived
      /\ dangling' = {} \/ t \in outlived
  BY DEF L!Allocate, LifecycleInv, Cached
<1>4. Typed'
  BY <1>1, <1>2, <1>3 DEF LifecycleInv, Typed
<1>5. Staged'
  BY <1>1 DEF LifecycleInv, Staged
<1>6. Owned' /\ Following'
  BY <1>1, RegistryFrame
<1>7. Cached'
  <2>1. \A s \in Schedulers : s \in scoped' => run_thread'[s] \in Live
    BY <1>1, <1>2, <1>3, ThreadsAssumption DEF LifecycleInv, Cached
  <2>2. \A r \in {TimerThread, WorkerThread} :
          r \in scoped' => service_thread'[r] \in {"runs", "stopping"}
    BY <1>1, <1>2, <1>3, ThreadsAssumption DEF LifecycleInv, Cached
  <2>3. members' >= 2 /\ outlived' \subseteq scoped'
    BY <1>1, <1>2, <1>3 DEF LifecycleInv, Typed, Cached
  <2>4. ~ (members' < 2)
    BY <1>1, <1>2 DEF LifecycleInv, Typed
  <2> QED
    BY <1>1, <1>3, <2>1, <2>2, <2>3, <2>4 DEF LifecycleInv, Cached
<1> QED
  BY <1>4, <1>5, <1>6, <1>7 DEF LifecycleInv

LEMMA ProgramExitsStep ==
  ASSUME LifecycleInv, dangling = {}, NEW u \in Users, L!ProgramExits(u)
  PROVE  LifecycleInv'
<1>1. UNCHANGED <<members, phase, instance_, state_, lifecycle_pointers_, lk_, held,
                  sch_state, run_thread, service_thread>>
  BY DEF L!ProgramExits, L!framework, L!registry, L!schedulers
<1>2. u \in scoped /\ L!EraseCache(u)
  BY DEF L!ProgramExits
<1>3. /\ scoped' = scoped \ {u} /\ memory_caches_' = scoped' \ outlived'
      /\ outlived' \cup dangling' \subseteq Users
      /\ dangling' \subseteq outlived'
      /\ dangling' = {} => outlived' \subseteq scoped'
      /\ members < 2 => memory_caches_' = {}
  <2>1. CASE members >= 2
    <3>1. ~ (members < 2)
      BY <2>1 DEF LifecycleInv, Typed
    <3> QED
      BY <1>2, <2>1, <3>1, EraseStep DEF LifecycleInv, Cached
  <2>2. CASE ~ (members >= 2)
    <3>1. members < 2
      BY <2>2 DEF LifecycleInv, Typed
    <3>2. memory_caches_ = {} /\ u \in outlived
      BY <1>2, <3>1 DEF LifecycleInv, Cached
    <3>3. /\ memory_caches_' = {} /\ dangling' \subseteq {u} /\ scoped' = scoped \ {u}
          /\ outlived' = IF dangling' = {} THEN outlived \ {u} ELSE outlived
      BY <1>2, <2>2, <3>2 DEF L!EraseCache, L!memory_caches_member
    <3> QED
      BY <3>2, <3>3 DEF LifecycleInv, Cached
  <2> QED
    BY <2>1, <2>2
<1>4. Typed'
  BY <1>1, <1>3 DEF LifecycleInv, Typed
<1>5. Staged'
  BY <1>1 DEF LifecycleInv, Staged
<1>6. Owned' /\ Following'
  BY <1>1, RegistryFrame
<1>7. Cached'
  <2>1. \A s \in Schedulers : s \in scoped' => run_thread'[s] \in Live
    BY <1>1, <1>3 DEF LifecycleInv, Cached
  <2>2. \A r \in {TimerThread, WorkerThread} :
          r \in scoped' => service_thread'[r] \in {"runs", "stopping"}
    BY <1>1, <1>3 DEF LifecycleInv, Cached
  <2> QED
    BY <1>1, <1>3, <2>1, <2>2 DEF Cached
<1> QED
  BY <1>4, <1>5, <1>6, <1>7 DEF LifecycleInv

-----------------------------------------------------------------------------
(* Construction and destruction.                                           *)

\* Where all the members' state but their number stays, and no cache goes.
LEMMA CachedFrame ==
  ASSUME LifecycleInv, members' \in Nat, members' >= 2 \/ members < 2,
         UNCHANGED <<L!caches, run_thread, service_thread>>
  PROVE  Cached'
BY DEF L!caches, LifecycleInv, Cached, Typed

LEMMA InitializeStep ==
  ASSUME LifecycleInv, L!Initialize
  PROVE  LifecycleInv'
<1> USE DEF L!registry, L!schedulers
<1>1. /\ phase = "down" /\ phase' = "constructing" /\ members = 0 /\ members' = 1
      /\ UNCHANGED <<L!caches, state_, lifecycle_pointers_, lk_, held, sch_state, run_thread,
                     service_thread>>
  BY DEF L!Initialize, L!self_init_, LifecycleInv, Staged
<1>2. Typed'
  BY <1>1 DEF L!caches, LifecycleInv, Typed
<1>3. Staged'
  BY <1>1 DEF LifecycleInv, Staged
<1>4. Owned' /\ Following'
  BY <1>1, RegistryFrame
<1>5. Cached'
  BY <1>1, CachedFrame
<1> QED
  BY <1>2, <1>3, <1>4, <1>5 DEF LifecycleInv

\* The global service and the threadpool make a scheduler and register it.
LEMMA ConstructScheduler ==
  ASSUME LifecycleInv, phase = "constructing", members \in {3, 4}, members' = 4, phase' = phase,
         UNCHANGED <<L!caches, state_, lk_, held, service_thread>>,
         NEW s \in Schedulers, L!Make(s), lifecycle_pointers_' = Append(lifecycle_pointers_, s)
  PROVE  LifecycleInv'
<1>1. /\ sch_state[s] = "none" /\ s \notin ToSet(lifecycle_pointers_)
      /\ \A u \in Users : held[u] # s
      /\ s \notin scoped
      /\ sch_state' \in [Schedulers -> SchedulerStates]
      /\ run_thread' \in [Schedulers -> Live \cup {"none", "exited"}]
      /\ sch_state'[s] = "executing" /\ run_thread'[s] = "runs"
      /\ \A r \in Schedulers \ {s} : sch_state'[r] = sch_state[r] /\ run_thread'[r] = run_thread[r]
  BY MakeIsNew
<1>2. /\ lifecycle_pointers_' \in Seq(Schedulers) /\ IsInjective(lifecycle_pointers_')
      /\ ToSet(lifecycle_pointers_') = ToSet(lifecycle_pointers_) \cup {s}
      /\ ToSet(lifecycle_pointers_) \subseteq Schedulers
  BY <1>1, ElementFacts, DistinctFacts DEF LifecycleInv, Typed, Owned
<1>3. /\ state_ = "executing" /\ lk_ = L!Free /\ \A u \in Users : held[u] = None
  BY DEF LifecycleInv, Staged
<1>4. Typed'
  BY <1>1, <1>2 DEF L!caches, LifecycleInv, Typed
<1>5. Staged'
  BY DEF LifecycleInv, Staged
<1>6. Owned'
  <2>1. \A r \in Schedulers :
          /\ run_thread'[r] = "none" <=> sch_state'[r] = "none"
          /\ run_thread'[r] # "none" =>
               r \in ToSet(lifecycle_pointers_') \/ \E u \in Users : held'[u] = r
    BY <1>1, <1>2, <1>3 DEF LifecycleInv, Owned
  <2>2. \A r \in ToSet(lifecycle_pointers_') : sch_state'[r] # "none"
    BY <1>1, <1>2 DEF LifecycleInv, Owned
  <2> QED
    BY <1>2, <1>3, <2>1, <2>2 DEF Owned
<1>7. Following'
  <2>1. ToSet(<<>>) = {}
    BY DEF ToSet
  <2>2. \A r \in ToSet(lifecycle_pointers_') : Follows(r)'
    BY <1>1, <1>2, <1>3 DEF LifecycleInv, Following, Follows
  <2> QED
    BY <1>3, <2>1, <2>2 DEF Following, L!Free
<1>8. Cached'
  BY <1>1 DEF L!caches, LifecycleInv, Cached, Live
<1> QED
  BY <1>4, <1>5, <1>6, <1>7, <1>8 DEF LifecycleInv

LEMMA ConstructStep ==
  ASSUME LifecycleInv, L!Construct
  PROVE  LifecycleInv'
<1> USE DEF L!schedulers, L!scheduler_lifecycle_service_, L!scheduler_global_service_,
            L!threadpool_service_, L!timer_service_
<1>1. /\ phase = "constructing" /\ members \in 1 .. 6
      /\ phase' = (IF members' = 7 THEN "up" ELSE phase)
      /\ UNCHANGED <<L!caches, lk_, service_thread>>
  BY DEF L!Construct, LifecycleInv, Staged
<1>2. CASE \E s \in Schedulers :
             /\ members \in {3, 4} /\ members' = 4 /\ UNCHANGED <<state_, held>>
             /\ L!Make(s) /\ lifecycle_pointers_' = Append(lifecycle_pointers_, s)
  BY <1>1, <1>2, ConstructScheduler
<1>3. CASE /\ members # 3 /\ members' = members + 1
           /\ state_' = (IF members' = 3 THEN "executing" ELSE state_)
           /\ UNCHANGED <<lifecycle_pointers_, held, sch_state, run_thread>>
  <2>1. ToSet(<<>>) = {}
    BY DEF ToSet
  <2>2. /\ state_' \in {"executing", "suspended"} /\ members' \in 2 .. 7
        /\ members' >= 3 => state_' = "executing"
    BY <1>1, <1>3 DEF LifecycleInv, Typed, Staged
  <2>3. Typed'
    BY <1>1, <1>3, <2>2 DEF L!caches, LifecycleInv, Typed
  <2>4. Staged'
    BY <1>1, <1>3, <2>2 DEF LifecycleInv, Staged
  <2>5. Owned'
    BY <1>3 DEF LifecycleInv, Owned
  <2>6. Following'
    <3>1. lk_' = L!Free
      BY <1>1 DEF LifecycleInv, Staged
    <3>2. state_' = state_ \/ lifecycle_pointers_' = <<>>
      BY <1>1, <1>3 DEF LifecycleInv, Staged
    <3>3. \A s \in ToSet(lifecycle_pointers_') : Follows(s)'
      BY <1>1, <1>3, <2>1, <3>2 DEF LifecycleInv, Following, Follows
    <3> QED
      BY <2>1, <3>1, <3>3 DEF Following, L!Free
  <2>7. Cached'
    BY <1>1, <1>3, <2>2, CachedFrame
  <2> QED
    BY <2>3, <2>4, <2>5, <2>6, <2>7 DEF LifecycleInv
<1>4. \/ \E s \in Schedulers :
             /\ members \in {3, 4} /\ members' = 4 /\ UNCHANGED <<state_, held>>
             /\ L!Make(s) /\ lifecycle_pointers_' = Append(lifecycle_pointers_, s)
      \/ /\ members # 3 /\ members' = members + 1
         /\ state_' = (IF members' = 3 THEN "executing" ELSE state_)
         /\ UNCHANGED <<lifecycle_pointers_, held, sch_state, run_thread>>
  BY <1>1 DEF L!Construct
<1> QED
  BY <1>2, <1>3, <1>4

LEMMA DestroyStep ==
  ASSUME LifecycleInv, L!Destroy
  PROVE  LifecycleInv'
<1> USE DEF L!registry, L!schedulers
<1>1. /\ phase' = "destroying" /\ members' = members /\ members = 7
      /\ lk_ = L!Free /\ \A u \in Users : held[u] = None
      /\ UNCHANGED <<L!caches, state_, lifecycle_pointers_, lk_, held, sch_state, run_thread,
                     service_thread>>
  BY DEF L!Destroy, LifecycleInv, Staged
<1>2. Typed'
  BY <1>1 DEF L!caches, LifecycleInv, Typed
<1>3. Staged'
  BY <1>1 DEF Staged
<1>4. Owned' /\ Following'
  BY <1>1, RegistryFrame
<1>5. Cached'
  BY <1>1, CachedFrame
<1> QED
  BY <1>2, <1>3, <1>4, <1>5 DEF LifecycleInv

LEMMA DestroyServiceStep ==
  ASSUME LifecycleInv, NEW t \in {TimerThread, WorkerThread}, L!DestroyService(t)
  PROVE  LifecycleInv'
<1> USE DEF L!registry, L!schedulers
<1>1. /\ phase = "destroying" /\ phase' = phase
      /\ UNCHANGED <<L!caches, state_, lifecycle_pointers_, lk_, held, sch_state, run_thread>>
      /\ members = IF t = TimerThread THEN 7 ELSE 6
  BY DEF L!DestroyService, L!Member, L!timer_service_, L!blocking_service_
<1>2. /\ members' \in {members, members - 1}
      /\ service_thread' \in [{TimerThread, WorkerThread} -> {"none", "runs", "stopping", "exited"}]
      /\ members' # members => service_thread'[t] = "none"
      /\ \A r \in {TimerThread, WorkerThread} \ {t} : service_thread'[r] = service_thread[r]
      /\ service_thread'[t] \in {"runs", "stopping"} \/ service_thread[t] \in {"none", "exited"}
  BY DEF L!DestroyService, LifecycleInv, Typed
<1>3. Typed'
  BY <1>1, <1>2 DEF L!caches, LifecycleInv, Typed
<1>4. Staged'
  <2>1. /\ members' < 7 => service_thread'[TimerThread] = "none"
        /\ members' < 6 => service_thread'[WorkerThread] = "none"
    BY <1>1, <1>2, ThreadsAssumption DEF LifecycleInv, Staged
  <2> QED
    BY <1>1, <1>2, <2>1 DEF LifecycleInv, Staged
<1>5. Owned' /\ Following'
  BY <1>1, RegistryFrame
<1>6. Cached'
  <2>1. \A r \in {TimerThread, WorkerThread} :
          r \in scoped' => service_thread'[r] \in {"runs", "stopping"}
    BY <1>1, <1>2 DEF L!caches, LifecycleInv, Cached
  <2> QED
    BY <1>1, <1>2, <2>1 DEF L!caches, LifecycleInv, Cached
<1> QED
  BY <1>3, <1>4, <1>5, <1>6 DEF LifecycleInv

LEMMA DestroyPointerStep ==
  ASSUME LifecycleInv, L!DestroyPointer
  PROVE  LifecycleInv'
<1> USE DEF L!registry, L!schedulers
<1>1. /\ phase = "destroying" /\ phase' = phase /\ members \in {4, 5} /\ members' = members - 1
      /\ UNCHANGED <<L!caches, state_, lifecycle_pointers_, lk_, held, sch_state, run_thread,
                     service_thread>>
  BY DEF L!DestroyPointer, L!scheduler_global_service_, L!threadpool_service_
<1>2. Typed'
  BY <1>1 DEF L!caches, LifecycleInv, Typed
<1>3. Staged'
  BY <1>1 DEF LifecycleInv, Staged
<1>4. Owned' /\ Following'
  BY <1>1, RegistryFrame
<1>5. Cached'
  BY <1>1, CachedFrame
<1> QED
  BY <1>2, <1>3, <1>4, <1>5 DEF LifecycleInv

LEMMA DestroyRegistryStep ==
  ASSUME LifecycleInv, L!DestroyRegistry
  PROVE  LifecycleInv'
<1> USE DEF L!scheduler_lifecycle_service_
<1> DEFINE s == Head(lifecycle_pointers_)
<1>1. /\ phase = "destroying" /\ phase' = phase /\ members = 3
      /\ UNCHANGED <<L!caches, state_, lk_, held, service_thread>>
      /\ \A u \in Users : held[u] = None
  BY DEF L!DestroyRegistry, LifecycleInv, Staged
<1>2. CASE /\ lifecycle_pointers_ # <<>> /\ L!halt_(s)
           /\ UNCHANGED <<members, cycles, instance_, lifecycle_pointers_>>
  <2>1. s \in Schedulers /\ sch_state[s] # "none"
    BY <1>2, ElementFacts DEF LifecycleInv, Typed, Owned
  <2>2. Typed' /\ Staged' /\ Owned' /\ Cached'
    <3>1. UNCHANGED <<L!framework, L!caches, state_, lifecycle_pointers_, held, service_thread>>
      BY <1>1, <1>2 DEF L!framework
    <3>2. lk_' \in Locks /\ lk_' = lk_
      BY <1>1 DEF LifecycleInv, Typed
    <3> HIDE DEF s
    <3> QED
      BY <1>2, <2>1, <3>1, <3>2, ControlFrame
  <2> QED
    BY <1>1, <2>2 DEF LifecycleInv, Following
<1>3. CASE /\ lifecycle_pointers_ # <<>> /\ L!Join(s) /\ members' = members
           /\ lifecycle_pointers_' = Tail(lifecycle_pointers_)
  <2>1. /\ s \in Schedulers /\ lifecycle_pointers_' \in Seq(Schedulers)
        /\ ToSet(lifecycle_pointers_) = ToSet(lifecycle_pointers_') \cup {s}
        /\ ToSet(lifecycle_pointers_) \subseteq Schedulers
        /\ IsInjective(lifecycle_pointers_') /\ s \notin ToSet(lifecycle_pointers_')
    BY <1>3, ElementFacts, DistinctFacts DEF LifecycleInv, Typed, Owned
  <2> HIDE DEF s
  <2>2. /\ sch_state' \in [Schedulers -> SchedulerStates]
        /\ run_thread' \in [Schedulers -> Live \cup {"none", "exited"}]
        /\ sch_state'[s] = "none" /\ run_thread'[s] = "none" /\ run_thread[s] = "exited"
        /\ \A r \in Schedulers \ {s} : sch_state'[r] = sch_state[r] /\ run_thread'[r] = run_thread[r]
    BY <1>3, <2>1 DEF L!Join, LifecycleInv, Typed, SchedulerStates
  <2>3. Typed'
    BY <1>1, <1>3, <2>1, <2>2 DEF L!caches, LifecycleInv, Typed
  <2>4. Staged'
    BY <1>1, <1>3 DEF LifecycleInv, Staged
  <2>5. Owned'
    <3>1. \A r \in Schedulers :
            /\ run_thread'[r] = "none" <=> sch_state'[r] = "none"
            /\ run_thread'[r] # "none" => r \in ToSet(lifecycle_pointers_')
      <4>1. ASSUME NEW r \in Schedulers, r # s, run_thread[r] # "none"
            PROVE  r \in ToSet(lifecycle_pointers_')
        <5>1. \A u \in Users : held[u] # r
          BY <1>1, ThreadsAssumption
        <5> QED
          BY <2>1, <4>1, <5>1 DEF LifecycleInv, Owned
      <4>2. ASSUME NEW r \in Schedulers
            PROVE  run_thread'[r] = "none" <=> sch_state'[r] = "none"
        BY <2>2 DEF LifecycleInv, Owned
      <4> QED
        BY <2>2, <4>1, <4>2
    <3>2. \A r \in ToSet(lifecycle_pointers_') : sch_state'[r] # "none"
      BY <2>1, <2>2 DEF LifecycleInv, Owned
    <3> QED
      BY <1>1, <2>1, <3>1, <3>2 DEF Owned
  <2>6. Cached'
    <3>1. s \notin scoped
      BY <2>1, <2>2 DEF LifecycleInv, Cached, Live
    <3> QED
      BY <1>1, <1>3, <2>2, <3>1 DEF L!caches, LifecycleInv, Cached
  <2> QED
    BY <1>1, <2>3, <2>4, <2>5, <2>6 DEF LifecycleInv, Following
<1>4. CASE /\ lifecycle_pointers_ = <<>> /\ members' = members - 1
           /\ UNCHANGED <<lifecycle_pointers_, sch_state, run_thread>>
  <2>1. Typed'
    BY <1>1, <1>4 DEF L!caches, LifecycleInv, Typed
  <2>2. Staged'
    BY <1>1, <1>4 DEF LifecycleInv, Staged
  <2>3. Owned' /\ Following'
    BY <1>1, <1>4, RegistryFrame
  <2>4. Cached'
    BY <1>1, <1>4, CachedFrame
  <2> QED
    BY <2>1, <2>2, <2>3, <2>4 DEF LifecycleInv
<1> QED
  BY <1>2, <1>3, <1>4 DEF L!DestroyRegistry

LEMMA DestroyCachesStep ==
  ASSUME LifecycleInv, dangling = {}, L!DestroyCaches
  PROVE  LifecycleInv'
<1> USE DEF L!registry, L!schedulers
<1>1. /\ phase = "destroying" /\ phase' = phase /\ members = 2 /\ members' = 1
      /\ memory_caches_' = {} /\ outlived' = outlived \cup scoped
      /\ UNCHANGED <<scoped, dangling, state_, lifecycle_pointers_, lk_, held, sch_state, run_thread,
                     service_thread>>
  BY DEF L!DestroyCaches, L!memory_caches_member, L!self_init_
<1>2. scoped \subseteq Users
  <2>1. \A s \in Schedulers : s \notin scoped
    BY <1>1, LiveNeedsRegistry DEF LifecycleInv, Cached, Live
  <2>2. \A t \in {TimerThread, WorkerThread} : t \notin scoped
    BY <1>1 DEF LifecycleInv, Cached, Staged
  <2> QED
    BY <2>1, <2>2 DEF LifecycleInv, Typed
<1>3. Typed'
  BY <1>1 DEF LifecycleInv, Typed
<1>4. Staged'
  BY <1>1 DEF LifecycleInv, Staged
<1>5. Owned' /\ Following'
  BY <1>1, RegistryFrame
<1>6. Cached'
  BY <1>1, <1>2 DEF LifecycleInv, Cached
<1> QED
  BY <1>3, <1>4, <1>5, <1>6 DEF LifecycleInv

LEMMA ClearInstanceStep ==
  ASSUME LifecycleInv, L!ClearInstance
  PROVE  LifecycleInv'
<1> USE DEF L!registry, L!schedulers
<1>1. /\ phase = "destroying" /\ phase' = "down" /\ members = 1 /\ members' = 0
      /\ UNCHANGED <<L!caches, state_, lifecycle_pointers_, lk_, held, sch_state, run_thread,
                     service_thread>>
  BY DEF L!ClearInstance, L!self_init_
<1>2. Typed'
  BY <1>1 DEF L!caches, LifecycleInv, Typed
<1>3. Staged'
  BY <1>1 DEF LifecycleInv, Staged
<1>4. Owned' /\ Following'
  <2>1. lifecycle_pointers_ = <<>>
    BY <1>1 DEF LifecycleInv, Staged
  <2> QED
    BY <1>1, <2>1, RegistryFrame
<1>5. Cached'
  BY <1>1, CachedFrame
<1> QED
  BY <1>2, <1>3, <1>4, <1>5 DEF LifecycleInv

-----------------------------------------------------------------------------
(* Users of the registry.                                                  *)

LEMMA MakeStep ==
  ASSUME LifecycleInv, NEW u \in Users, L!make(u)
  PROVE  LifecycleInv'
<1>1. /\ phase = "up" /\ held[u] = None /\ lk_.user # u
      /\ UNCHANGED <<members, phase, L!caches, state_, lifecycle_pointers_, lk_, service_thread>>
  BY DEF L!make, L!framework, L!registry
<1>2. PICK s \in Schedulers : L!Make(s) /\ held' = [held EXCEPT ![u] = s]
  BY DEF L!make
<1>3. /\ sch_state[s] = "none" /\ s \notin ToSet(lifecycle_pointers_)
      /\ \A v \in Users : held[v] # s
      /\ s \notin scoped
      /\ sch_state' \in [Schedulers -> SchedulerStates]
      /\ run_thread' \in [Schedulers -> Live \cup {"none", "exited"}]
      /\ sch_state'[s] = "executing" /\ run_thread'[s] = "runs"
      /\ \A r \in Schedulers \ {s} : sch_state'[r] = sch_state[r] /\ run_thread'[r] = run_thread[r]
  BY <1>1, <1>2, MakeIsNew
<1>4. /\ held' \in [Users -> Schedulers \cup {None}] /\ held'[u] = s
      /\ \A v \in Users \ {u} : held'[v] = held[v]
  BY <1>2 DEF LifecycleInv, Typed
<1>5. ToSet(lifecycle_pointers_) \subseteq Schedulers /\ ToSet(lk_.rest) \subseteq Schedulers
  BY ElementFacts DEF LifecycleInv, Typed, Locks
<1>6. Typed'
  BY <1>1, <1>3, <1>4 DEF L!caches, LifecycleInv, Typed
<1>7. Staged'
  BY <1>1 DEF LifecycleInv, Staged
<1>8. Owned'
  <2>1. \A r \in ToSet(lifecycle_pointers_') : sch_state'[r] # "none"
    BY <1>1, <1>3, <1>5 DEF LifecycleInv, Owned
  <2>2. ASSUME NEW r \in Schedulers
        PROVE  /\ run_thread'[r] = "none" <=> sch_state'[r] = "none"
               /\ run_thread'[r] # "none" =>
                    r \in ToSet(lifecycle_pointers_') \/ \E v \in Users : held'[v] = r
    <3>1. CASE r = s
      BY <1>3, <1>4, <3>1
    <3>2. CASE r # s
      <4>1. ASSUME NEW v \in Users, held[v] = r
            PROVE  held'[v] = r
        BY <1>1, <1>4, <4>1, ThreadsAssumption
      <4>2. run_thread'[r] = run_thread[r] /\ sch_state'[r] = sch_state[r]
        BY <1>3, <3>2
      <4> QED
        BY <1>1, <4>1, <4>2 DEF LifecycleInv, Owned
    <3> QED
      BY <3>1, <3>2
  <2>3. ASSUME NEW v \in Users, held'[v] # None
        PROVE  /\ sch_state'[held'[v]] # "none"
               /\ held'[v] \notin ToSet(lifecycle_pointers_')
               /\ \A w \in Users : held'[w] = held'[v] => w = v
    <3>1. CASE v = u
      BY <1>1, <1>3, <1>4, <3>1
    <3>2. CASE v # u
      <4>1. held'[v] = held[v] /\ held[v] \in Schedulers \ {s}
        BY <1>3, <1>4, <2>3, <3>2 DEF LifecycleInv, Typed
      <4>2. sch_state'[held'[v]] # "none" /\ held'[v] \notin ToSet(lifecycle_pointers_')
        BY <1>1, <1>3, <2>3, <4>1 DEF LifecycleInv, Owned
      <4>3. \A w \in Users : held'[w] = held'[v] => w = v
        BY <1>4, <2>3, <4>1 DEF LifecycleInv, Owned
      <4> QED
        BY <4>2, <4>3
    <3> QED
      BY <3>1, <3>2
  <2> QED
    BY <1>1, <2>1, <2>2, <2>3 DEF LifecycleInv, Owned
<1>9. Following'
  <2>1. ASSUME NEW r \in Schedulers, r # s, Follows(r)
        PROVE  Follows(r)'
    BY <1>1, <1>3, <2>1 DEF Follows
  <2>2. \A r \in ToSet(lifecycle_pointers_') : Follows(r)'
    BY <1>1, <1>3, <1>5, <2>1 DEF LifecycleInv, Following
  <2>3. ASSUME lk_.op = "registration"
        PROVE  /\ lk_'.user \in Users /\ held'[lk_'.user] # None /\ Follows(held[lk_.user])'
               /\ held'[lk_'.user] = held[lk_.user]
    <3>1. PICK r \in Schedulers : r = held[lk_.user] /\ r # s /\ Follows(r) /\ lk_.user \in Users
      BY <1>3, <2>3, <1>1 DEF LifecycleInv, Following, Typed
    <3>2. held'[lk_'.user] = r /\ r # None /\ lk_' = lk_
      BY <1>1, <1>4, <3>1, ThreadsAssumption
    <3>3. Follows(r)'
      BY <2>1, <3>1
    <3> QED
      BY <3>1, <3>2, <3>3 DEF Follows
  <2> QED
    BY <1>1, <2>2, <2>3 DEF LifecycleInv, Following
<1>10. Cached'
  BY <1>1, <1>3 DEF L!caches, LifecycleInv, Cached, Live
<1> QED
  BY <1>6, <1>7, <1>8, <1>9, <1>10 DEF LifecycleInv

LEMMA UserControlsStep ==
  ASSUME LifecycleInv, NEW u \in Users, L!UserControls(u)
  PROVE  LifecycleInv'
<1> DEFINE s == held[u]
<1>1. /\ s # None /\ s \in Schedulers /\ lk_.user # u /\ phase = "up" /\ phase' = phase
      /\ sch_state[s] # "none" /\ s \notin ToSet(lifecycle_pointers_)
      /\ \A v \in Users : held[v] = s => v = u
      /\ UNCHANGED <<L!framework, L!caches, L!registry, service_thread>>
  BY DEF L!UserControls, L!framework, LifecycleInv, Typed, Staged, Owned
<1>2. lk_.op = "registration" => lk_.user \in Users /\ held[lk_.user] # s
  BY <1>1 DEF LifecycleInv, Following
<1>3. s \notin ToSet(lk_.rest)
  BY <1>1, <1>2 DEF LifecycleInv, Following
<1>4. /\ ToSet(lifecycle_pointers_) \subseteq Schedulers
      /\ ToSet(lk_.rest) \subseteq Schedulers
  BY ElementFacts DEF LifecycleInv, Typed, Locks
<1> HIDE DEF s
<1>5. ASSUME \A r \in Schedulers : r # s => sch_state'[r] = sch_state[r],
             \A v \in Users : v # u => held'[v] = held[v]
      PROVE  Following'
  <2>1. ASSUME NEW r \in Schedulers, r # s, Follows(r)
        PROVE  Follows(r)'
    BY <1>1, <1>5, <2>1 DEF Follows, L!registry
  <2>2. \A r \in ToSet(lifecycle_pointers_') : Follows(r)'
    BY <1>1, <1>4, <2>1 DEF LifecycleInv, Following, L!registry
  <2>3. ASSUME lk_.op = "registration"
        PROVE  /\ lk_'.user \in Users /\ held'[lk_'.user] # None /\ Follows(held[lk_.user])'
               /\ held'[lk_'.user] = held[lk_.user]
    <3>1. PICK r \in Schedulers :
                 r = held[lk_.user] /\ r # s /\ r # None /\ Follows(r) /\ lk_.user \in Users
      BY <1>1, <1>2, <2>3 DEF LifecycleInv, Following, Typed
    <3>2. held'[lk_'.user] = r /\ lk_' = lk_
      BY <1>1, <1>5, <3>1 DEF L!registry
    <3>3. Follows(r)'
      BY <2>1, <3>1
    <3> QED
      BY <3>1, <3>2, <3>3 DEF Follows
  <2> QED
    BY <1>1, <2>2, <2>3 DEF LifecycleInv, Following, L!registry
<1>6. CASE (L!suspend_(s) \/ L!resume_(s) \/ L!halt_(s)) /\ UNCHANGED held
  <2>1. \A r \in Schedulers : r # s => sch_state'[r] = sch_state[r]
    BY <1>1, <1>6, ControlStep DEF LifecycleInv
  <2>2. Typed' /\ Staged' /\ Owned' /\ Cached'
    <3>1. lk_' \in Locks /\ lk_' = lk_
      BY <1>1 DEF L!registry, LifecycleInv, Typed
    <3>2. UNCHANGED <<L!framework, L!caches, state_, lifecycle_pointers_, held, service_thread>>
      BY <1>1, <1>6 DEF L!registry
    <3> QED
      BY <1>1, <1>6, <3>1, <3>2, ControlFrame
  <2> QED
    BY <1>5, <1>6, <2>1, <2>2 DEF LifecycleInv
<1>7. CASE L!Join(s) /\ held' = [held EXCEPT ![u] = None]
  <2>1. /\ sch_state' \in [Schedulers -> SchedulerStates]
        /\ run_thread' \in [Schedulers -> Live \cup {"none", "exited"}]
        /\ sch_state'[s] = "none" /\ run_thread'[s] = "none" /\ run_thread[s] = "exited"
        /\ \A r \in Schedulers \ {s} : sch_state'[r] = sch_state[r] /\ run_thread'[r] = run_thread[r]
    BY <1>1, <1>7 DEF L!Join, LifecycleInv, Typed, SchedulerStates
  <2>2. /\ held' \in [Users -> Schedulers \cup {None}] /\ held'[u] = None
        /\ \A v \in Users : v # u => held'[v] = held[v]
    BY <1>7 DEF LifecycleInv, Typed
  <2>3. Typed'
    BY <1>1, <2>1, <2>2 DEF L!framework, L!caches, L!registry, LifecycleInv, Typed
  <2>4. Staged'
    BY <1>1 DEF L!framework, L!registry, LifecycleInv, Staged
  <2>5. Owned'
    <3>1. \A r \in ToSet(lifecycle_pointers_') : sch_state'[r] # "none"
      BY <1>1, <1>4, <2>1 DEF L!registry, LifecycleInv, Owned
    <3>2. ASSUME NEW r \in Schedulers
          PROVE  run_thread'[r] = "none" <=> sch_state'[r] = "none"
      BY <2>1 DEF LifecycleInv, Owned
    <3>3. ASSUME NEW r \in Schedulers, run_thread'[r] # "none"
          PROVE  r \in ToSet(lifecycle_pointers_') \/ \E v \in Users : held'[v] = r
      <4>1. r # s /\ run_thread[r] # "none"
        BY <2>1, <3>3
      <4>2. r \in ToSet(lifecycle_pointers_) \/ \E v \in Users : held[v] = r
        BY <4>1 DEF LifecycleInv, Owned
      <4>3. \A v \in Users : held[v] = r => held'[v] = r
        BY <2>2, <4>1 DEF s
      <4> QED
        BY <1>1, <4>2, <4>3 DEF L!registry
    <3>4. ASSUME NEW v \in Users, held'[v] # None
          PROVE  /\ sch_state'[held'[v]] # "none"
                 /\ held'[v] \notin ToSet(lifecycle_pointers_')
                 /\ \A w \in Users : held'[w] = held'[v] => w = v
      <4>1. v # u /\ held'[v] = held[v] /\ held[v] \in Schedulers /\ held[v] # s
        BY <1>1, <2>2, <3>4 DEF LifecycleInv, Typed
      <4>2. sch_state'[held'[v]] # "none" /\ held'[v] \notin ToSet(lifecycle_pointers_')
        BY <1>1, <2>1, <3>4, <4>1 DEF L!registry, LifecycleInv, Owned
      <4>3. \A w \in Users : held'[w] = held'[v] => w = v
        BY <2>2, <3>4, <4>1 DEF LifecycleInv, Owned
      <4> QED
        BY <4>2, <4>3
    <3> QED
      BY <1>1, <3>1, <3>2, <3>3, <3>4 DEF L!registry, LifecycleInv, Owned
  <2>6. Cached'
    <3>1. s \notin scoped
      BY <1>1, <2>1 DEF LifecycleInv, Cached, Live
    <3> QED
      BY <1>1, <2>1, <3>1 DEF L!framework, L!caches, LifecycleInv, Cached
  <2> QED
    BY <1>5, <2>1, <2>2, <2>3, <2>4, <2>5, <2>6 DEF LifecycleInv
<1> QED
  BY <1>6, <1>7 DEF L!UserControls, s

LEMMA RegistrationStep ==
  ASSUME LifecycleInv, NEW u \in Users, L!registration(u)
  PROVE  LifecycleInv'
<1>1. /\ phase = "up" /\ held[u] \in Schedulers /\ held[u] # None
      /\ lk_' = [user |-> u, op |-> "registration", rest |-> <<held[u]>>]
      /\ UNCHANGED <<members, phase, L!caches, state_, lifecycle_pointers_, held, sch_state,
                     run_thread, service_thread>>
  BY DEF L!registration, L!Lock, L!framework, L!schedulers, LifecycleInv, Typed
<1>2. sch_state[held[u]] \in {"executing", "suspended"}
  BY <1>1 DEF L!registration, LifecycleInv, Typed, Owned, SchedulerStates
<1>3. <<held[u]>> \in Seq(Schedulers) /\ ToSet(<<held[u]>>) = {held[u]}
  BY <1>1, SingleElement
<1>4. Typed'
  BY <1>1, <1>3 DEF L!caches, LifecycleInv, Typed, Locks
<1>5. Staged'
  BY <1>1 DEF LifecycleInv, Staged
<1>6. Owned'
  BY <1>1 DEF LifecycleInv, Owned
<1>7. Following'
  <2>1. ToSet(<<>>) = {} /\ lk_.rest = <<>>
    BY DEF L!registration, L!Lock, L!Free, ToSet
  <2>2. \A r \in ToSet(lifecycle_pointers_) : Follows(r)'
    BY <1>1, <2>1 DEF LifecycleInv, Following, Follows
  <2> QED
    BY <1>1, <1>2, <1>3, <2>2 DEF Following, Follows
<1>8. Cached'
  BY <1>1 DEF L!caches, LifecycleInv, Cached
<1> QED
  BY <1>4, <1>5, <1>6, <1>7, <1>8 DEF LifecycleInv

\* suspend() and resume() of the registry.
LEMMA SuspendResumeStep ==
  ASSUME LifecycleInv, NEW u \in Users, L!suspend(u) \/ L!resume(u)
  PROVE  LifecycleInv'
<1>1. /\ phase = "up" /\ state_' \in {"executing", "suspended"}
      /\ lk_' \in Locks /\ lk_'.rest = lifecycle_pointers_ /\ lk_'.op # "registration"
      /\ UNCHANGED <<members, phase, L!caches, lifecycle_pointers_, held, sch_state,
                     run_thread, service_thread>>
      /\ lk_.rest = <<>>
  BY DEF L!suspend, L!resume, L!Lock, L!Free, L!framework, L!schedulers, LifecycleInv, Typed, Locks
<1>2. Typed'
  BY <1>1 DEF L!caches, LifecycleInv, Typed
<1>3. Staged'
  BY <1>1 DEF LifecycleInv, Staged
<1>4. Owned'
  BY <1>1 DEF LifecycleInv, Owned
<1>5. Following'
  BY <1>1 DEF LifecycleInv, Following, Follows
<1>6. Cached'
  BY <1>1 DEF L!caches, LifecycleInv, Cached
<1> QED
  BY <1>2, <1>3, <1>4, <1>5, <1>6 DEF LifecycleInv

LEMMA SynchronizeStep ==
  ASSUME LifecycleInv, L!Synchronize
  PROVE  LifecycleInv'
<1> DEFINE s == Head(lk_.rest)
<1>1. /\ lk_.rest \in Seq(Schedulers)
      /\ lk_.rest # <<>> /\ lk_'.rest = Tail(lk_.rest)
      /\ lk_'.op = lk_.op /\ lk_'.user = lk_.user
      /\ UNCHANGED <<L!framework, L!caches, state_, lifecycle_pointers_, held, service_thread>>
  <2>1. lk_.rest # <<>> /\ lk_' = [lk_ EXCEPT !.rest = Tail(@)]
        /\ UNCHANGED <<L!framework, L!caches, state_, lifecycle_pointers_, held, service_thread>>
    BY DEF L!Synchronize
  <2> QED
    BY <2>1 DEF LifecycleInv, Typed, Locks
<1>2. /\ s \in Schedulers /\ Tail(lk_.rest) \in Seq(Schedulers)
      /\ ToSet(lk_.rest) = ToSet(Tail(lk_.rest)) \cup {s}
      /\ ToSet(lk_.rest) \subseteq Schedulers
      /\ ToSet(lifecycle_pointers_) \subseteq Schedulers
  BY <1>1, ElementFacts DEF LifecycleInv, Typed
<1>3. phase = "up" /\ phase' = phase
  BY <1>1 DEF L!Free, L!framework, LifecycleInv, Staged
<1> HIDE DEF s
<1>4. Follows(s)
  BY <1>2, <1>3 DEF LifecycleInv, Following
<1>5. IF state_ = "executing" THEN L!resume_(s) ELSE L!suspend_(s)
  BY DEF L!Synchronize, s
<1>6. /\ \A r \in Schedulers : r # s => sch_state'[r] = sch_state[r]
      /\ sch_state'[s] = state_
  BY <1>2, <1>4, <1>5, ControlStep DEF LifecycleInv, Follows, Typed
<1>7. Typed' /\ Staged' /\ Owned' /\ Cached'
  <2>1. sch_state[s] # "none"
    BY <1>4 DEF Follows
  <2>2. L!suspend_(s) \/ L!resume_(s) \/ L!halt_(s)
    BY <1>5
  <2>3. lk_' \in Locks
    BY <1>2 DEF L!Synchronize, LifecycleInv, Typed, Locks
  <2> QED
    BY <1>1, <1>2, <1>3, <2>1, <2>2, <2>3, ControlFrame
<1>8. Following'
  <2>1. ASSUME NEW r \in Schedulers, Follows(r)
        PROVE  Follows(r)'
    BY <1>1, <1>2, <1>6, <2>1 DEF Follows, LifecycleInv, Typed
  <2>2. \A r \in ToSet(lifecycle_pointers_') : Follows(r)'
    BY <1>1, <1>2, <1>3, <2>1 DEF LifecycleInv, Following
  <2>3. ASSUME lk_'.op = "registration"
        PROVE  /\ lk_'.user \in Users /\ held'[lk_'.user] # None /\ Follows(held[lk_.user])'
               /\ held'[lk_'.user] = held[lk_.user]
    <3>1. PICK r \in Schedulers : r = held[lk_.user] /\ r # None /\ Follows(r) /\ lk_.user \in Users
      BY <1>1, <1>3, <2>3 DEF LifecycleInv, Following, Typed
    <3>2. Follows(r)'
      BY <2>1, <3>1
    <3> QED
      BY <1>1, <3>1, <3>2 DEF Follows
  <2> QED
    BY <1>1, <1>2, <1>3, <2>2, <2>3 DEF LifecycleInv, Following
<1> QED
  BY <1>7, <1>8 DEF LifecycleInv

LEMMA UnlockStep ==
  ASSUME LifecycleInv, L!Unlock
  PROVE  LifecycleInv'
<1>1. /\ lk_.rest = <<>> /\ lk_' = L!Free /\ phase = "up"
      /\ UNCHANGED <<members, phase, L!caches, state_, sch_state, run_thread, service_thread>>
      /\ ToSet(<<>>) = {}
  BY DEF L!Unlock, L!framework, LifecycleInv, Staged, ToSet
<1>2. lk_' \in Locks /\ lk_'.rest = <<>> /\ lk_'.op = "none"
  BY <1>1 DEF L!Free, Locks
<1>3. CASE lk_.op # "registration"
  <2>1. UNCHANGED <<lifecycle_pointers_, held>>
    BY <1>3 DEF L!Unlock
  <2>2. Typed'
    BY <1>1, <1>2, <2>1 DEF L!caches, LifecycleInv, Typed
  <2>3. Staged'
    BY <1>1, <2>1 DEF LifecycleInv, Staged
  <2>4. Owned'
    BY <1>1, <2>1 DEF LifecycleInv, Owned
  <2>5. Following'
    BY <1>1, <1>2, <2>1 DEF LifecycleInv, Following, Follows
  <2>6. Cached'
    BY <1>1 DEF L!caches, LifecycleInv, Cached
  <2> QED
    BY <2>2, <2>3, <2>4, <2>5, <2>6 DEF LifecycleInv
<1>4. CASE lk_.op = "registration"
  <2> DEFINE u == lk_.user
  <2> DEFINE s == held[u]
  <2>1. /\ u \in Users /\ s # None /\ s \in Schedulers /\ Follows(s)
        /\ sch_state[s] # "none" /\ s \notin ToSet(lifecycle_pointers_)
        /\ \A v \in Users : held[v] = s => v = u
    BY <1>1, <1>4 DEF LifecycleInv, Following, Typed, Owned
  <2>2. /\ lifecycle_pointers_' = Append(lifecycle_pointers_, s)
        /\ held' = [held EXCEPT ![u] = None]
    BY <1>4 DEF L!Unlock
  <2> HIDE DEF u, s
  <2>3. /\ lifecycle_pointers_' \in Seq(Schedulers) /\ IsInjective(lifecycle_pointers_')
        /\ ToSet(lifecycle_pointers_') = ToSet(lifecycle_pointers_) \cup {s}
    BY <2>1, <2>2, ElementFacts, DistinctFacts DEF LifecycleInv, Typed, Owned
  <2>4. /\ held' \in [Users -> Schedulers \cup {None}] /\ held'[u] = None
        /\ \A v \in Users : v # u => held'[v] = held[v]
    BY <2>1, <2>2 DEF LifecycleInv, Typed
  <2>5. Typed'
    BY <1>1, <1>2, <2>3, <2>4 DEF L!caches, LifecycleInv, Typed
  <2>6. Staged'
    BY <1>1 DEF LifecycleInv, Staged
  <2>7. Owned'
    <3>1. \A r \in ToSet(lifecycle_pointers_') : sch_state'[r] # "none"
      BY <1>1, <2>1, <2>3 DEF LifecycleInv, Owned
    <3>2. ASSUME NEW r \in Schedulers, run_thread'[r] # "none"
          PROVE  r \in ToSet(lifecycle_pointers_') \/ \E v \in Users : held'[v] = r
      <4>1. r \in ToSet(lifecycle_pointers_) \/ \E v \in Users : held[v] = r
        BY <1>1, <3>2 DEF LifecycleInv, Owned
      <4>2. \A v \in Users : held[v] = r => r = s \/ held'[v] = r
        BY <2>4 DEF s
      <4> QED
        BY <2>3, <4>1, <4>2
    <3>3. ASSUME NEW v \in Users, held'[v] # None
          PROVE  /\ sch_state'[held'[v]] # "none"
                 /\ held'[v] \notin ToSet(lifecycle_pointers_')
                 /\ \A w \in Users : held'[w] = held'[v] => w = v
      <4>1. v # u /\ held'[v] = held[v] /\ held[v] # s
        BY <2>1, <2>4, <3>3
      <4>2. sch_state'[held'[v]] # "none" /\ held'[v] \notin ToSet(lifecycle_pointers_')
        BY <1>1, <2>3, <3>3, <4>1 DEF LifecycleInv, Owned
      <4>3. \A w \in Users : held'[w] = held'[v] => w = v
        BY <2>4, <3>3, <4>1 DEF LifecycleInv, Owned
      <4> QED
        BY <4>2, <4>3
    <3> QED
      BY <1>1, <2>3, <3>1, <3>2, <3>3 DEF LifecycleInv, Owned
  <2>8. Following'
    <3>1. \A r \in ToSet(lifecycle_pointers_') : Follows(r)'
      BY <1>1, <1>2, <2>1, <2>3 DEF LifecycleInv, Following, Follows
    <3> QED
      BY <1>1, <1>2, <3>1 DEF Following
  <2>9. Cached'
    BY <1>1 DEF L!caches, LifecycleInv, Cached
  <2> QED
    BY <2>5, <2>6, <2>7, <2>8, <2>9 DEF LifecycleInv
<1> QED
  BY <1>3, <1>4

-----------------------------------------------------------------------------
(* Theorems.                                                               *)

LEMMA LifecycleFrame ==
  ASSUME LifecycleInv, UNCHANGED lifecycleVars
  PROVE  LifecycleInv'
<1> USE DEF lifecycleVars
<1>1. Typed' /\ Staged' /\ Cached'
  BY DEF LifecycleInv, Typed, Staged, Cached
<1>2. Owned' /\ Following'
  BY DEF LifecycleInv, Owned, Following, Follows
<1> QED
  BY <1>1, <1>2 DEF LifecycleInv

LEMMA LifecycleStep ==
  ASSUME LifecycleInv, L!Next
  PROVE  LifecycleInv'
<1>1. dangling = {}
  BY DEF L!Next
<1>2. CASE L!Initialize \/ L!Construct \/ L!Destroy \/ L!Synchronize \/ L!Unlock
  BY <1>2, InitializeStep, ConstructStep, DestroyStep, SynchronizeStep, UnlockStep
<1>3. CASE L!Teardown
  BY <1>1, <1>3, DestroyServiceStep, DestroyPointerStep, DestroyRegistryStep, DestroyCachesStep,
     ClearInstanceStep DEF L!Teardown, L!ServiceThreads
<1>4. CASE \E u \in Users : L!UserStep(u)
  BY <1>1, <1>4, MakeStep, UserControlsStep, RegistrationStep, SuspendResumeStep, ProgramExitsStep
     DEF L!UserStep
<1>5. CASE \E s \in Schedulers : L!SchedulerRuns(s) \/ L!Scheduled(s)
  BY <1>1, <1>5, SchedulerRunsStep, ScheduledStep
<1>6. CASE \E t \in L!ServiceThreads : L!ServiceStarts(t) \/ L!ServiceExits(t)
  BY <1>1, <1>6, ServiceStartsStep, ServiceExitsStep DEF L!ServiceThreads
<1>7. CASE \E t \in Allocating : L!Allocate(t)
  BY <1>1, <1>7, AllocateStep
<1> QED
  BY <1>2, <1>3, <1>4, <1>5, <1>6, <1>7 DEF L!Next

LEMMA LifecycleInvariant == ServicesSpec => []LifecycleInv
<1>1. ServicesInit => LifecycleInv
  BY LifecycleInit DEF ServicesInit
<1>2. LifecycleInv /\ [ServicesNext]_servicesVars => LifecycleInv'
  <2> SUFFICES ASSUME LifecycleInv, [ServicesNext]_servicesVars PROVE LifecycleInv'
    OBVIOUS
  <2>1. L!Next \/ UNCHANGED lifecycleVars
    BY DEF ServicesNext, servicesVars
  <2> QED
    BY <2>1, LifecycleStep, LifecycleFrame
<1> QED
  BY <1>1, <1>2, PTL DEF ServicesSpec

\* Whenever the registry is unlocked its schedulers are in its state, however many
\* there are and whatever registers, suspends and resumes them.
THEOREM RegistryFollows == ServicesSpec => []RegisteredFollow
<1>1. LifecycleInv => RegisteredFollow
  <2> SUFFICES ASSUME LifecycleInv, phase # "destroying", lk_ = L!Free,
                      NEW i \in DOMAIN lifecycle_pointers_
               PROVE  sch_state[lifecycle_pointers_[i]] = state_
    BY DEF RegisteredFollow, L!RegisteredFollow
  <2>1. ToSet(lk_.rest) = {}
    BY DEF L!Free, ToSet
  <2>2. lifecycle_pointers_[i] \in ToSet(lifecycle_pointers_)
    BY DEF ToSet
  <2> QED
    BY <2>1, <2>2 DEF LifecycleInv, Following, Follows
<1> QED
  BY <1>1, LifecycleInvariant, PTL

\* The map of memory caches goes when no thread of the library has one, however
\* many there are; only threads of the program keep a pointer into it.
THEOREM CachesAreOutlived == ServicesSpec => []CachesOutliveThreads
<1>1. LifecycleInv => CachesOutliveThreads
  BY DEF LifecycleInv, Cached, CachesOutliveThreads, L!CachesOutliveThreads
<1> QED
  BY <1>1, LifecycleInvariant, PTL

\* A thread of the library runs only within the life of the member that joins it:
\* a scheduler's while the registry exists, a service's while the service does.
ThreadsWithinMembers ==
  /\ \A s \in Schedulers : run_thread[s] # "none" => members >= L!scheduler_lifecycle_service_
  /\ \A t \in {TimerThread, WorkerThread} : service_thread[t] # "none" => members >= Member(t)

\* A framework that was destroyed left nothing behind but what the program's own
\* threads point to: no thread, no registration, no lock, no cache, and no scheduler
\* that is still in a state.  The next one starts as the first did.
NothingLeft ==
  phase = "down" =>
    /\ lifecycle_pointers_ = <<>> /\ lk_ = L!Free
    /\ \A u \in Users : held[u] = None
    /\ \A s \in Schedulers : run_thread[s] = "none" /\ sch_state[s] = "none"
    /\ \A t \in {TimerThread, WorkerThread} : service_thread[t] = "none"
    /\ memory_caches_ = {}
    /\ dangling = {} => scoped \subseteq Users /\ outlived = scoped

\* No thread of the library outlives the member that joins it, in whatever order the
\* program has made, registered, suspended and halted schedulers and started services.
THEOREM LibraryThreadsAreJoined == ServicesSpec => []ThreadsWithinMembers
<1>1. LifecycleInv => ThreadsWithinMembers
  <2> SUFFICES ASSUME LifecycleInv PROVE ThreadsWithinMembers
    OBVIOUS
  <2>1. \A s \in Schedulers : run_thread[s] # "none" => members >= 3
    BY LiveNeedsRegistry
  <2>2. /\ service_thread[TimerThread] # "none" => members >= 7
        /\ service_thread[WorkerThread] # "none" => members >= 6
    BY DEF LifecycleInv, Staged, Typed
  <2> QED
    BY <2>1, <2>2, ThreadsAssumption
       DEF ThreadsWithinMembers, Member, L!Member, L!scheduler_lifecycle_service_, L!timer_service_,
           L!blocking_service_
<1> QED
  BY <1>1, LifecycleInvariant, PTL

\* Destroying the framework undoes what constructing it and using it did.
THEOREM DestructionIsComplete == ServicesSpec => []NothingLeft
<1>1. LifecycleInv => NothingLeft
  <2> SUFFICES ASSUME LifecycleInv, phase = "down" PROVE NothingLeft
    BY DEF NothingLeft
  <2>1. members = 0 /\ lk_ = L!Free /\ \A u \in Users : held[u] = None
    BY DEF LifecycleInv, Staged
  <2>2. lifecycle_pointers_ = <<>> /\ \A t \in {TimerThread, WorkerThread} : service_thread[t] = "none"
    BY <2>1 DEF LifecycleInv, Staged
  <2>3. \A s \in Schedulers : run_thread[s] = "none" /\ sch_state[s] = "none"
    BY <2>1, LiveNeedsRegistry DEF LifecycleInv, Owned
  <2>4. memory_caches_ = {} /\ memory_caches_ = scoped \ outlived
        /\ (dangling = {} => outlived \subseteq scoped) /\ outlived \subseteq Users
    BY <2>1 DEF LifecycleInv, Cached
  <2> QED
    BY <2>1, <2>2, <2>3, <2>4 DEF NothingLeft
<1> QED
  BY <1>1, LifecycleInvariant, PTL
=============================================================================
