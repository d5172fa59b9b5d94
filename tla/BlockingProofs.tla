---------------------------- MODULE BlockingProofs ----------------------------
(***************************************************************************)
(* Theorems about module Blocking, for any callers, workers, size of the   *)
(* cache and number of launches that fail.                                 *)
(*                                                                         *)
(* What a worker's thread does follows from who owns the worker (Owned):   *)
(* the cache's are idle (Idlers), the one that is being cleared only ends  *)
(* (Cleared), and a caller's is where the call is (Call).  The steps of    *)
(* Delegation follow: the callable a thread executes is its owner's.       *)
(***************************************************************************)
EXTENDS Blocking, ListFacts, FiniteSetTheorems

\* A worker that has nothing to do, and one that is told to end.
Idle(w) ==
  w \notin closed_ /\ operations_[w] = <<>> /\ thread[w] \in {"pop", "finish"}
Ending(w) ==
  w \in closed_ /\ operations_[w] = <<>> /\ thread[w] \in {"pop", "finish", "exited"}

\* The worker of a call has its operation to do, or has done it and has the
\* handle of its caller to schedule.
Given(c) ==
  /\ wkr_[c] \notin closed_ /\ c \notin ready_
  /\ \/ /\ operations_[wkr_[c]] = <<c>> /\ thread[wkr_[c]] \in {"pop", "finish"}
        /\ runs[c] = 0
     \/ /\ operations_[wkr_[c]] = <<>> /\ operation[wkr_[c]] = c
        /\ \/ thread[wkr_[c]] = "execute" /\ runs[c] = 0
           \/ thread[wkr_[c]] = "resume" /\ runs[c] = 1
Scheduling(c) ==
  /\ wkr_[c] \notin closed_ /\ operations_[wkr_[c]] = <<>> /\ operation[wkr_[c]] = c
  /\ thread[wkr_[c]] = "schedule" /\ runs[c] = 1

Call(c) ==
  /\ runs[c] \in {0, 1}
  /\ wkr_[c] = NULL <=> pc[c] \in {"idle", "launch"}
  /\ c \in handle_ => pc[c] = "suspended"
  /\ pc[c] \in {"launch", "schedule"} => c \notin ready_ /\ runs[c] = 0
  /\ pc[c] = "schedule" => Idle(wkr_[c])
  /\ pc[c] = "await" => Given(c) \/ (Idle(wkr_[c]) /\ c \in ready_ /\ runs[c] = 1)
  /\ pc[c] = "suspended" => IF c \in handle_ THEN Given(c) ELSE Scheduling(c)
  /\ pc[c] \in {"queued", "resumed", "discard"} => Idle(wkr_[c]) /\ runs[c] = 1
  /\ pc[c] = "join" => Ending(wkr_[c]) /\ runs[c] = 1

Calls == \A c \in Coroutines : Call(c)

\* A worker that exists is in the cache, being cleared, or some caller's.
Owned ==
  /\ IsInjective(worker_cache_)
  /\ clearing \notin ToSet(worker_cache_)
  /\ \A c \in Coroutines : wkr_[c] # NULL =>
       /\ wkr_[c] \notin ToSet(worker_cache_) /\ wkr_[c] # clearing
       /\ \A d \in Coroutines : wkr_[d] = wkr_[c] => d = c
  /\ \A w \in Workers : thread[w] # "none" <=>
       w \in ToSet(worker_cache_) \/ w = clearing \/ \E c \in Coroutines : wkr_[c] = w

Idlers == \A w \in ToSet(worker_cache_) : Idle(w)
Cleared == clearing # NULL => Ending(clearing)
Unused == \A w \in Workers : thread[w] = "none" => w \notin closed_ /\ operations_[w] = <<>>

\* worker_active_count_: the calls that have a worker or are getting one, and
\* the launches that have failed.
Active == {c \in Coroutines : pc[c] \notin {"idle", "discard", "join"}}
ActiveCounted == worker_active_count_ = failures + Cardinality(Active)

\* The inductive invariant.
BlockingInv ==
  TypeOK /\ ActiveCounted /\ Calls /\ Owned /\ Idlers /\ Cleared /\ Unused

LEMMA BlockingInit == Init => BlockingInv
<1> SUFFICES ASSUME Init PROVE BlockingInv
  OBVIOUS
<1>1. TypeOK
  <2>1. <<>> \in Seq(Workers) /\ <<>> \in Seq(Coroutines) /\ Len(<<>>) = 0
    OBVIOUS
  <2>2. /\ worker_active_count_ \in Nat /\ failures \in 0 .. MaxFailures
        /\ worker_cache_ \in Seq(Workers) /\ Len(worker_cache_) <= CacheSize
    BY <2>1, BlockingAssumption DEF Init
  <2>3. /\ operations_ \in [Workers -> Seq(Coroutines)]
        /\ runs \in [Coroutines -> Nat]
    BY <2>1 DEF Init
  <2> QED
    BY <2>2, <2>3 DEF Init, TypeOK, Points
<1>2. ToSet(worker_cache_) = {} /\ IsInjective(worker_cache_)
  BY DEF Init, ToSet, IsInjective
<1>3. ActiveCounted
  <2>1. Active = {}
    BY DEF Init, Active
  <2>2. Cardinality(Active) = 0
    BY <2>1, FS_EmptySet
  <2>3. worker_active_count_ = 0 /\ failures = 0
    BY DEF Init
  <2> QED
    BY <2>2, <2>3 DEF ActiveCounted, Active
<1>4. Calls
  BY DEF Init, Calls, Call
<1>5. Owned /\ Idlers /\ Cleared /\ Unused
  BY <1>2, BlockingAssumption DEF Init, Owned, Idlers, Cleared, Unused
<1> QED
  BY <1>1, <1>3, <1>4, <1>5 DEF BlockingInv

-----------------------------------------------------------------------------
(* What stays.                                                             *)

SameWorker(w) ==
  /\ w \in closed_' <=> w \in closed_
  /\ operations_'[w] = operations_[w] /\ thread'[w] = thread[w] /\ operation'[w] = operation[w]

SameCall(c) ==
  /\ pc'[c] = pc[c] /\ wkr_'[c] = wkr_[c] /\ runs'[c] = runs[c]
  /\ c \in ready_' <=> c \in ready_
  /\ c \in handle_' <=> c \in handle_

LEMMA CallFrame ==
  ASSUME NEW c, Call(c), SameCall(c), wkr_[c] # NULL => SameWorker(wkr_[c])
  PROVE  Call(c)'
BY DEF Call, SameCall, SameWorker, Given, Scheduling, Idle, Ending

\* One call and its worker change.
LEMMA OwnersFrame ==
  ASSUME BlockingInv, UNCHANGED <<worker_cache_, wkr_, clearing>>,
         NEW c \in Coroutines, Call(c)',
         \A d \in Coroutines : d # c => SameCall(d),
         \A w \in Workers : w # wkr_[c] => SameWorker(w),
         wkr_[c] # NULL => thread'[wkr_[c]] # "none"
  PROVE  Calls' /\ Owned' /\ Idlers' /\ Cleared' /\ Unused'
<1>1. /\ \A d \in Coroutines : wkr_[d] \in Workers \cup {NULL}
      /\ \A d \in Coroutines : d # c /\ wkr_[d] # NULL => wkr_[d] # wkr_[c]
      /\ ToSet(worker_cache_) \subseteq Workers /\ clearing \in Workers \cup {NULL}
      /\ NULL \notin Workers
  BY ElementFacts, BlockingAssumption DEF BlockingInv, TypeOK, Owned
<1>2. \A d \in Coroutines : d # c => Call(d)'
  BY <1>1, CallFrame DEF BlockingInv, Calls
<1>3. \A w \in Workers : thread'[w] = "none" <=> thread[w] = "none"
  BY <1>1 DEF BlockingInv, Owned, SameWorker
<1>4. Owned'
  BY <1>3 DEF BlockingInv, Owned
<1>5. Idlers'
  BY <1>1 DEF BlockingInv, Owned, Idlers, Idle, SameWorker
<1>6. Cleared'
  BY <1>1 DEF BlockingInv, Owned, Cleared, Ending, SameWorker
<1>7. Unused'
  BY <1>1, <1>3 DEF BlockingInv, Owned, Unused, SameWorker
<1> QED
  BY <1>2, <1>4, <1>5, <1>6, <1>7 DEF Calls

-----------------------------------------------------------------------------
(* Steps of the count.                                                     *)

Counted(point) == IF point \in {"idle", "discard", "join"} THEN 0 ELSE 1

LEMMA ActiveStep ==
  ASSUME NEW c \in Coroutines, \A d \in Coroutines : d # c => pc'[d] = pc[d]
  PROVE  /\ Cardinality(Active) \in Nat /\ Cardinality(Active') \in Nat
         /\ Cardinality(Active') = Cardinality(Active) + Counted(pc'[c]) - Counted(pc[c])
<1>1. IsFiniteSet(Active) /\ IsFiniteSet(Active') /\ Cardinality(Active) \in Nat
      /\ Cardinality(Active') \in Nat
  <2>1. Active \subseteq Coroutines /\ Active' \subseteq Coroutines
    BY DEF Active
  <2> QED
    BY <2>1, BlockingAssumption, FS_Subset, FS_CardinalityType
<1>2. Active' = (IF Counted(pc'[c]) = 0 THEN Active \ {c} ELSE Active \cup {c})
  BY DEF Active, Counted
<1>3. c \in Active <=> Counted(pc[c]) = 1
  BY DEF Active, Counted
<1>4. Cardinality(Active \cup {c}) = (IF c \in Active THEN Cardinality(Active) ELSE Cardinality(Active) + 1)
  BY <1>1, FS_AddElement
<1>5. Cardinality(Active \ {c}) = (IF c \in Active THEN Cardinality(Active) - 1 ELSE Cardinality(Active))
  BY <1>1, FS_RemoveElement
<1>6. Counted(pc[c]) \in {0, 1} /\ Counted(pc'[c]) \in {0, 1}
  BY DEF Counted
<1> QED
  BY <1>1, <1>2, <1>3, <1>4, <1>5, <1>6

\* A step of a caller counts as its place does.
LEMMA CountStep ==
  ASSUME BlockingInv, NEW c \in Coroutines, \A d \in Coroutines : d # c => pc'[d] = pc[d],
         worker_active_count_' - failures' =
           worker_active_count_ - failures + Counted(pc'[c]) - Counted(pc[c]),
         worker_active_count_' \in Int, failures' \in Nat
  PROVE  ActiveCounted' /\ worker_active_count_' \in Nat
<1>1. /\ Cardinality(Active) \in Nat /\ Cardinality(Active') \in Nat
      /\ Cardinality(Active') = Cardinality(Active) + Counted(pc'[c]) - Counted(pc[c])
  BY ActiveStep
<1>2. worker_active_count_ = failures + Cardinality(Active) /\ worker_active_count_ \in Nat
      /\ failures \in Nat
  BY BlockingAssumption DEF BlockingInv, ActiveCounted, Active, TypeOK
<1>3. Counted(pc[c]) \in {0, 1} /\ Counted(pc'[c]) \in {0, 1}
  BY DEF Counted
<1>4. worker_active_count_' = failures' + Cardinality(Active')
  BY <1>1, <1>2, <1>3
<1> QED
  BY <1>1, <1>4 DEF ActiveCounted, Active

LEMMA CountTypes ==
  ASSUME BlockingInv
  PROVE  /\ worker_active_count_ \in Nat /\ failures \in Nat
         /\ pc \in [Coroutines -> Points]
BY BlockingAssumption DEF BlockingInv, TypeOK

LEMMA CountFrame ==
  ASSUME BlockingInv, UNCHANGED <<worker_active_count_, failures, pc>>
  PROVE  ActiveCounted'
BY DEF BlockingInv, ActiveCounted, Active

-----------------------------------------------------------------------------
(* Callers.                                                                *)

LEMMA CheckoutNewStep ==
  ASSUME BlockingInv, NEW c \in Coroutines, CheckoutNew(c)
  PROVE  BlockingInv'
<1> USE DEF worker, ends
<1>1. /\ pc[c] = "idle" /\ pc' = [pc EXCEPT ![c] = "launch"]
      /\ worker_active_count_' = worker_active_count_ + 1
      /\ ready_' = ready_ \ {c} /\ runs' = [runs EXCEPT ![c] = 0]
      /\ UNCHANGED <<worker_cache_, clearer, clearing, failures, wkr_, operations_, closed_, thread,
                     operation, handle_, halted, aborted>>
  BY DEF CheckoutNew, Checkout, Go
<1>2. ActiveCounted' /\ worker_active_count_' \in Nat
  BY <1>1, CountStep, CountTypes DEF Counted
<1>3. TypeOK'
  BY <1>1, <1>2 DEF BlockingInv, TypeOK, Points
<1>4. Calls' /\ Owned' /\ Idlers' /\ Cleared' /\ Unused'
  <2>1. Call(c)'
    BY <1>1 DEF BlockingInv, TypeOK, Calls, Call
  <2>2. \A d \in Coroutines : d # c => SameCall(d)
    BY <1>1 DEF BlockingInv, TypeOK, SameCall
  <2>3. (\A w \in Workers : SameWorker(w)) /\ wkr_[c] = NULL
    BY <1>1 DEF SameWorker, BlockingInv, Calls, Call
  <2> QED
    BY <1>1, <2>1, <2>2, <2>3, OwnersFrame
<1> QED
  BY <1>2, <1>3, <1>4 DEF BlockingInv

LEMMA CheckoutCachedStep ==
  ASSUME BlockingInv, NEW c \in Coroutines, CheckoutCached(c)
  PROVE  BlockingInv'
<1> USE DEF worker, ends
<1> DEFINE v == Head(worker_cache_)
<1>1. /\ pc[c] = "idle" /\ pc' = [pc EXCEPT ![c] = "schedule"]
      /\ worker_active_count_' = worker_active_count_ + 1
      /\ worker_cache_ # <<>> /\ worker_cache_' = Tail(worker_cache_)
      /\ wkr_' = [wkr_ EXCEPT ![c] = v]
      /\ ready_' = ready_ \ {c} /\ runs' = [runs EXCEPT ![c] = 0]
      /\ UNCHANGED <<clearer, clearing, failures, operations_, closed_, thread,
                     operation, handle_, halted, aborted>>
  BY DEF CheckoutCached, Checkout, Go
<1>2. /\ v \in Workers /\ v # NULL /\ Idle(v) /\ v # clearing /\ wkr_[c] = NULL /\ c \notin handle_
      /\ \A d \in Coroutines : wkr_[d] # v
      /\ worker_cache_' \in Seq(Workers) /\ Len(worker_cache_') <= CacheSize
      /\ IsInjective(worker_cache_') /\ v \notin ToSet(worker_cache_')
      /\ ToSet(worker_cache_) = ToSet(worker_cache_') \cup {v}
      /\ ToSet(worker_cache_) \subseteq Workers
  <2>1. /\ v \in Workers /\ v \in ToSet(worker_cache_)
        /\ worker_cache_' \in Seq(Workers) /\ Len(worker_cache_') = Len(worker_cache_) - 1
        /\ Len(worker_cache_) \in Nat
        /\ IsInjective(worker_cache_') /\ v \notin ToSet(worker_cache_')
        /\ ToSet(worker_cache_) = ToSet(worker_cache_') \cup {v}
        /\ ToSet(worker_cache_) \subseteq Workers
    BY <1>1, QueueFacts, ElementFacts, DistinctFacts DEF BlockingInv, TypeOK, Owned
  <2>2. Len(worker_cache_') <= CacheSize
    BY <2>1, BlockingAssumption DEF BlockingInv, TypeOK
  <2>3. v # NULL /\ wkr_[c] = NULL /\ c \notin handle_
    BY <1>1, <2>1, BlockingAssumption DEF BlockingInv, Calls, Call
  <2>4. Idle(v) /\ v # clearing
    BY <2>1 DEF BlockingInv, Owned, Idlers
  <2>5. \A d \in Coroutines : wkr_[d] # v
    BY <2>1, <2>3 DEF BlockingInv, Owned
  <2> QED
    BY <2>1, <2>2, <2>3, <2>4, <2>5
<1> HIDE DEF v
<1>3. ActiveCounted' /\ worker_active_count_' \in Nat
  BY <1>1, CountStep, CountTypes DEF Counted
<1>4. TypeOK'
  BY <1>1, <1>2, <1>3 DEF BlockingInv, TypeOK, Points
<1>5. Calls'
  <2>1. Call(c)'
    BY <1>1, <1>2 DEF BlockingInv, TypeOK, Call, Idle
  <2>2. ASSUME NEW d \in Coroutines, d # c
        PROVE  Call(d)'
    <3>1. SameCall(d) /\ (wkr_[d] # NULL => SameWorker(wkr_[d]))
      BY <1>1, <2>2 DEF BlockingInv, TypeOK, SameCall, SameWorker
    <3> QED
      BY <3>1, CallFrame DEF BlockingInv, Calls
  <2> QED
    BY <2>1, <2>2 DEF Calls
<1>6. Owned'
  <2>1. wkr_'[c] = v /\ \A d \in Coroutines : d # c => wkr_'[d] = wkr_[d]
    BY <1>1 DEF BlockingInv, TypeOK
  <2>2. \A w \in Workers : thread'[w] # "none" <=>
          w \in ToSet(worker_cache_') \/ w = clearing' \/ \E d \in Coroutines : wkr_'[d] = w
    BY <1>1, <1>2, <2>1, BlockingAssumption DEF BlockingInv, Owned
  <2>3. \A d \in Coroutines : wkr_'[d] # NULL =>
          /\ wkr_'[d] \notin ToSet(worker_cache_') /\ wkr_'[d] # clearing'
          /\ \A e \in Coroutines : wkr_'[e] = wkr_'[d] => e = d
    BY <1>1, <1>2, <2>1 DEF BlockingInv, Owned
  <2> QED
    BY <1>1, <1>2, <2>2, <2>3 DEF BlockingInv, Owned
<1>7. Idlers' /\ Cleared' /\ Unused'
  BY <1>1, <1>2 DEF BlockingInv, Idlers, Cleared, Unused, Idle, Ending
<1> QED
  BY <1>3, <1>4, <1>5, <1>6, <1>7 DEF BlockingInv

LEMMA LaunchStep ==
  ASSUME BlockingInv, NEW c \in Coroutines, NEW w \in Workers, Launch(c, w)
  PROVE  BlockingInv'
<1> USE DEF service, async, ends
<1>1. /\ pc[c] = "launch" /\ pc' = [pc EXCEPT ![c] = "schedule"]
      /\ thread[w] = "none" /\ thread' = [thread EXCEPT ![w] = "pop"]
      /\ wkr_' = [wkr_ EXCEPT ![c] = w]
      /\ UNCHANGED <<worker_active_count_, worker_cache_, clearer, clearing, failures, operations_,
                     closed_, operation, ready_, handle_, runs, halted, aborted>>
  BY DEF Launch, Go, Step
<1>2. /\ wkr_[c] = NULL /\ w # NULL /\ w \notin ToSet(worker_cache_) /\ w # clearing
      /\ \A d \in Coroutines : wkr_[d] # w
      /\ w \notin closed_ /\ operations_[w] = <<>>
      /\ c \notin handle_ /\ c \notin ready_ /\ runs[c] = 0
      /\ ToSet(worker_cache_) \subseteq Workers
  BY <1>1, ElementFacts, BlockingAssumption DEF BlockingInv, TypeOK, Calls, Call, Owned, Unused
<1>3. ActiveCounted' /\ worker_active_count_' \in Nat
  BY <1>1, CountStep, CountTypes DEF Counted
<1>4. TypeOK'
  BY <1>1, <1>3 DEF BlockingInv, TypeOK, Points
<1>5. Calls'
  <2>1. Call(c)'
    BY <1>1, <1>2 DEF BlockingInv, TypeOK, Call, Idle
  <2>2. ASSUME NEW d \in Coroutines, d # c
        PROVE  Call(d)'
    <3>1. SameCall(d) /\ (wkr_[d] # NULL => SameWorker(wkr_[d]))
      BY <1>1, <1>2, <2>2 DEF BlockingInv, TypeOK, SameCall, SameWorker
    <3> QED
      BY <3>1, CallFrame DEF BlockingInv, Calls
  <2> QED
    BY <2>1, <2>2 DEF Calls
<1>6. Owned'
  <2>1. wkr_'[c] = w /\ \A d \in Coroutines : d # c => wkr_'[d] = wkr_[d]
    BY <1>1 DEF BlockingInv, TypeOK
  <2>2. \A v \in Workers : thread'[v] # "none" <=>
          v \in ToSet(worker_cache_') \/ v = clearing' \/ \E d \in Coroutines : wkr_'[d] = v
    BY <1>1, <1>2, <2>1, BlockingAssumption DEF BlockingInv, TypeOK, Owned
  <2>3. \A d \in Coroutines : wkr_'[d] # NULL =>
          /\ wkr_'[d] \notin ToSet(worker_cache_') /\ wkr_'[d] # clearing'
          /\ \A e \in Coroutines : wkr_'[e] = wkr_'[d] => e = d
    BY <1>1, <1>2, <2>1 DEF BlockingInv, Owned
  <2> QED
    BY <1>1, <2>2, <2>3 DEF BlockingInv, Owned
<1>7. Idlers' /\ Cleared' /\ Unused'
  BY <1>1, <1>2 DEF BlockingInv, TypeOK, Idlers, Cleared, Unused, Idle, Ending
<1> QED
  BY <1>3, <1>4, <1>5, <1>6, <1>7 DEF BlockingInv

LEMMA LaunchFailsStep ==
  ASSUME BlockingInv, NEW c \in Coroutines, LaunchFails(c)
  PROVE  BlockingInv'
<1> USE DEF worker, async, ends
<1>1. /\ pc[c] = "launch" /\ pc' = [pc EXCEPT ![c] = "idle"]
      /\ failures < MaxFailures /\ failures' = failures + 1
      /\ UNCHANGED <<worker_active_count_, worker_cache_, clearer, clearing, wkr_, operations_, closed_,
                     thread, operation, ready_, handle_, runs, halted, aborted>>
  BY DEF LaunchFails, Go
<1>2. failures' \in 0 .. MaxFailures
  BY <1>1, BlockingAssumption DEF BlockingInv, TypeOK
<1>3. ActiveCounted' /\ worker_active_count_' \in Nat
  BY <1>1, <1>2, CountStep, CountTypes DEF Counted
<1>4. TypeOK'
  BY <1>1, <1>2, <1>3 DEF BlockingInv, TypeOK, Points
<1>5. Calls' /\ Owned' /\ Idlers' /\ Cleared' /\ Unused'
  <2>1. Call(c)'
    BY <1>1 DEF BlockingInv, TypeOK, Calls, Call
  <2>2. \A d \in Coroutines : d # c => SameCall(d)
    BY <1>1 DEF BlockingInv, TypeOK, SameCall
  <2>3. (\A w \in Workers : SameWorker(w)) /\ wkr_[c] = NULL
    BY <1>1 DEF SameWorker, BlockingInv, Calls, Call
  <2> QED
    BY <1>1, <2>1, <2>2, <2>3, OwnersFrame
<1> QED
  BY <1>3, <1>4, <1>5 DEF BlockingInv

LEMMA ScheduleStep ==
  ASSUME BlockingInv, NEW c \in Coroutines, Schedule(c)
  PROVE  BlockingInv'
<1> USE DEF service, async, ends
<1>1. /\ pc[c] = "schedule" /\ Idle(wkr_[c]) /\ wkr_[c] # NULL /\ runs[c] = 0
      /\ c \notin ready_ /\ c \notin handle_
  BY DEF Schedule, BlockingInv, Calls, Call
<1>2. wkr_[c] \in Workers
  BY <1>1 DEF BlockingInv, TypeOK
<1>3. /\ pc' = [pc EXCEPT ![c] = "await"]
      /\ operations_' = [operations_ EXCEPT ![wkr_[c]] = <<c>>]
      /\ UNCHANGED <<worker_active_count_, worker_cache_, clearer, clearing, failures, wkr_,
                     closed_, thread, operation, ready_, handle_, runs, halted, aborted>>
  BY <1>1, <1>2 DEF Schedule, Go, Idle
<1>4. ActiveCounted' /\ worker_active_count_' \in Nat
  BY <1>1, <1>3, CountStep, CountTypes DEF Counted
<1>5. TypeOK'
  <2>1. <<c>> \in Seq(Coroutines)
    OBVIOUS
  <2> QED
    BY <1>2, <1>3, <1>4, <2>1 DEF BlockingInv, TypeOK, Points
<1>6. Calls' /\ Owned' /\ Idlers' /\ Cleared' /\ Unused'
  <2>1. Call(c)'
    BY <1>1, <1>2, <1>3 DEF BlockingInv, TypeOK, Call, Given, Idle
  <2>2. \A d \in Coroutines : d # c => SameCall(d)
    BY <1>3 DEF BlockingInv, TypeOK, SameCall
  <2>3. (\A w \in Workers : w # wkr_[c] => SameWorker(w)) /\ thread'[wkr_[c]] # "none"
    BY <1>1, <1>2, <1>3 DEF SameWorker, BlockingInv, TypeOK, Idle
  <2> QED
    BY <1>3, <2>1, <2>2, <2>3, OwnersFrame
<1> QED
  BY <1>4, <1>5, <1>6 DEF BlockingInv

\* A step of a caller that touches no worker.
LEMMA CallerStep ==
  ASSUME BlockingInv, NEW c \in Coroutines, NEW p \in Points, pc' = [pc EXCEPT ![c] = p],
         pc[c] \notin {"idle", "launch", "discard", "join"},
         p \notin {"idle", "launch", "discard", "join"},
         handle_' \subseteq Coroutines, \A d \in Coroutines : d # c => (d \in handle_' <=> d \in handle_),
         Call(c)',
         UNCHANGED <<service, wkr_, worker, ready_, runs, ends>>
  PROVE  BlockingInv'
<1> USE DEF service, worker, ends
<1>1. ActiveCounted' /\ worker_active_count_' \in Nat
  BY CountStep, CountTypes DEF Counted
<1>2. TypeOK'
  BY <1>1 DEF BlockingInv, TypeOK, Points
<1>3. Calls' /\ Owned' /\ Idlers' /\ Cleared' /\ Unused'
  <2>1. \A d \in Coroutines : d # c => SameCall(d)
    BY DEF BlockingInv, TypeOK, SameCall
  <2>2. \A w \in Workers : SameWorker(w)
    BY DEF SameWorker
  <2>3. wkr_[c] # NULL => thread[wkr_[c]] # "none"
    BY DEF BlockingInv, TypeOK, Owned
  <2> QED
    BY <2>1, <2>2, <2>3, OwnersFrame
<1> QED
  BY <1>1, <1>2, <1>3 DEF BlockingInv

LEMMA AwaitStep ==
  ASSUME BlockingInv, NEW c \in Coroutines, Await(c)
  PROVE  BlockingInv'
<1> USE DEF service, worker, ends, Points
<1>1. pc[c] = "await" /\ UNCHANGED <<service, wkr_, worker, ready_, runs, ends>>
  BY DEF Await
<1>2. CASE c \in ready_ /\ pc' = [pc EXCEPT ![c] = "resumed"] /\ handle_' = handle_
  <2>1. Call(c)'
    BY <1>1, <1>2 DEF BlockingInv, TypeOK, Calls, Call, Given, Idle
  <2> QED
    BY <1>1, <1>2, <2>1, CallerStep DEF BlockingInv, TypeOK
<1>3. CASE c \notin ready_ /\ pc' = [pc EXCEPT ![c] = "suspended"] /\ handle_' = handle_ \cup {c}
  <2>1. Call(c)'
    BY <1>1, <1>3 DEF BlockingInv, TypeOK, Calls, Call, Given
  <2> QED
    BY <1>1, <1>3, <2>1, CallerStep DEF BlockingInv, TypeOK
<1> QED
  BY <1>2, <1>3 DEF Await, Go

LEMMA ContinueStep ==
  ASSUME BlockingInv, NEW c \in Coroutines, Continue(c)
  PROVE  BlockingInv'
<1> USE DEF service, worker, async, ends, Points
<1>1. /\ pc[c] = "queued" /\ pc' = [pc EXCEPT ![c] = "resumed"]
      /\ UNCHANGED <<service, wkr_, worker, ready_, handle_, runs, ends>>
  BY DEF Continue, Go
<1>2. Call(c)'
  BY <1>1 DEF BlockingInv, TypeOK, Calls, Call, Idle
<1> QED
  BY <1>1, <1>2, CallerStep DEF BlockingInv, TypeOK

LEMMA CheckinFullStep ==
  ASSUME BlockingInv, NEW c \in Coroutines, CheckinFull(c)
  PROVE  BlockingInv'
<1> USE DEF worker, async, ends
<1>1. /\ pc[c] = "resumed" /\ pc' = [pc EXCEPT ![c] = "discard"]
      /\ worker_active_count_' = worker_active_count_ - 1
      /\ UNCHANGED <<worker_cache_, clearer, clearing, failures, wkr_, operations_, closed_, thread,
                     operation, ready_, handle_, runs, halted, aborted>>
  BY DEF CheckinFull, Go
<1>2. ActiveCounted' /\ worker_active_count_' \in Nat
  BY <1>1, CountStep, CountTypes DEF Counted
<1>3. TypeOK'
  BY <1>1, <1>2 DEF BlockingInv, TypeOK, Points
<1>4. Calls' /\ Owned' /\ Idlers' /\ Cleared' /\ Unused'
  <2>1. Call(c)'
    BY <1>1 DEF BlockingInv, TypeOK, Calls, Call, Idle
  <2>2. \A d \in Coroutines : d # c => SameCall(d)
    BY <1>1 DEF BlockingInv, TypeOK, SameCall
  <2>3. \A w \in Workers : SameWorker(w)
    BY <1>1 DEF SameWorker
  <2>4. thread'[wkr_[c]] # "none"
    BY <1>1 DEF BlockingInv, Calls, Call, Idle
  <2> QED
    BY <1>1, <2>1, <2>2, <2>3, <2>4, OwnersFrame
<1> QED
  BY <1>2, <1>3, <1>4 DEF BlockingInv

LEMMA CheckinCachedStep ==
  ASSUME BlockingInv, NEW c \in Coroutines, CheckinCached(c)
  PROVE  BlockingInv'
<1> USE DEF worker, async, ends
<1> DEFINE v == wkr_[c]
<1>1. /\ pc[c] = "resumed" /\ pc' = [pc EXCEPT ![c] = "idle"]
      /\ worker_active_count_' = worker_active_count_ - 1
      /\ Len(worker_cache_) < CacheSize
      /\ worker_cache_' = Append(worker_cache_, v)
      /\ wkr_' = [wkr_ EXCEPT ![c] = NULL]
      /\ UNCHANGED <<clearer, clearing, failures, operations_, closed_, thread,
                     operation, ready_, handle_, runs, halted, aborted>>
  BY DEF CheckinCached, Go
<1>2. /\ v \in Workers /\ v # NULL /\ Idle(v) /\ v # clearing /\ c \notin handle_
      /\ runs[c] \in {0, 1}
      /\ v \notin ToSet(worker_cache_)
      /\ \A d \in Coroutines : wkr_[d] = v => d = c
  BY <1>1, BlockingAssumption DEF BlockingInv, TypeOK, Calls, Call, Owned
<1>3. /\ worker_cache_' \in Seq(Workers) /\ Len(worker_cache_') <= CacheSize
      /\ IsInjective(worker_cache_')
      /\ ToSet(worker_cache_') = ToSet(worker_cache_) \cup {v}
  <2>1. worker_cache_ \in Seq(Workers) /\ IsInjective(worker_cache_)
    BY DEF BlockingInv, TypeOK, Owned
  <2>2. /\ worker_cache_' \in Seq(Workers) /\ Len(worker_cache_') = Len(worker_cache_) + 1
        /\ Len(worker_cache_) \in Nat
        /\ IsInjective(worker_cache_')
        /\ ToSet(worker_cache_') = ToSet(worker_cache_) \cup {v}
    BY <1>1, <1>2, <2>1, QueueFacts, ElementFacts, DistinctFacts
  <2> QED
    BY <1>1, <2>2, BlockingAssumption
<1> HIDE DEF v
<1>4. ActiveCounted' /\ worker_active_count_' \in Nat
  BY <1>1, CountStep, CountTypes, SMTT(20) DEF Counted
<1>5. TypeOK'
  BY <1>1, <1>2, <1>3, <1>4 DEF BlockingInv, TypeOK, Points
<1>6. Calls'
  <2>1. Call(c)'
    BY <1>1, <1>2 DEF BlockingInv, TypeOK, Call
  <2>2. ASSUME NEW d \in Coroutines, d # c
        PROVE  Call(d)'
    <3>1. SameCall(d) /\ (wkr_[d] # NULL => SameWorker(wkr_[d]))
      BY <1>1, <2>2 DEF BlockingInv, TypeOK, SameCall, SameWorker
    <3> QED
      BY <3>1, CallFrame DEF BlockingInv, Calls
  <2> QED
    BY <2>1, <2>2 DEF Calls
<1>7. Owned'
  <2>1. wkr_'[c] = NULL /\ (\A d \in Coroutines : d # c => wkr_'[d] = wkr_[d]) /\ wkr_[c] = v
    BY <1>1 DEF BlockingInv, TypeOK, v
  <2>2. \A w \in Workers : thread'[w] # "none" <=>
          w \in ToSet(worker_cache_') \/ w = clearing' \/ \E d \in Coroutines : wkr_'[d] = w
    BY <1>1, <1>2, <1>3, <2>1, BlockingAssumption DEF BlockingInv, Owned
  <2>3. \A d \in Coroutines : wkr_'[d] # NULL =>
          /\ wkr_'[d] \notin ToSet(worker_cache_') /\ wkr_'[d] # clearing'
          /\ \A e \in Coroutines : wkr_'[e] = wkr_'[d] => e = d
    BY <1>1, <1>2, <1>3, <2>1 DEF BlockingInv, Owned
  <2>4. clearing' \notin ToSet(worker_cache_')
    BY <1>1, <1>2, <1>3 DEF BlockingInv, Owned
  <2> QED
    BY <1>3, <2>2, <2>3, <2>4 DEF Owned
<1>8. Idlers' /\ Cleared' /\ Unused'
  BY <1>1, <1>2, <1>3 DEF BlockingInv, Idlers, Cleared, Unused, Idle, Ending
<1> QED
  BY <1>4, <1>5, <1>6, <1>7, <1>8 DEF BlockingInv

LEMMA DiscardStep ==
  ASSUME BlockingInv, NEW c \in Coroutines, Discard(c)
  PROVE  BlockingInv'
<1> USE DEF service, async, ends
<1>1. /\ pc[c] = "discard" /\ Idle(wkr_[c]) /\ wkr_[c] # NULL /\ runs[c] = 1
      /\ c \notin handle_
  BY DEF Discard, BlockingInv, Calls, Call
<1>2. wkr_[c] \in Workers
  BY <1>1 DEF BlockingInv, TypeOK
<1>3. /\ pc' = [pc EXCEPT ![c] = "join"] /\ closed_' = closed_ \cup {wkr_[c]}
      /\ UNCHANGED <<worker_active_count_, worker_cache_, clearer, clearing, failures, wkr_,
                     operations_, thread, operation, ready_, handle_, runs, halted, aborted>>
  BY DEF Discard, Go
<1>4. ActiveCounted' /\ worker_active_count_' \in Nat
  BY <1>1, <1>3, CountStep, CountTypes DEF Counted, Discard
<1>5. TypeOK'
  BY <1>2, <1>3, <1>4 DEF BlockingInv, TypeOK, Points
<1>6. Calls' /\ Owned' /\ Idlers' /\ Cleared' /\ Unused'
  <2>1. Call(c)'
    BY <1>1, <1>2, <1>3 DEF BlockingInv, TypeOK, Call, Ending, Idle
  <2>2. \A d \in Coroutines : d # c => SameCall(d)
    BY <1>3 DEF BlockingInv, TypeOK, SameCall
  <2>3. (\A w \in Workers : w # wkr_[c] => SameWorker(w)) /\ thread'[wkr_[c]] # "none"
    BY <1>1, <1>3 DEF SameWorker, Idle
  <2> QED
    BY <1>3, <2>1, <2>2, <2>3, OwnersFrame
<1> QED
  BY <1>4, <1>5, <1>6 DEF BlockingInv

LEMMA JoinStep ==
  ASSUME BlockingInv, NEW c \in Coroutines, Join(c)
  PROVE  BlockingInv'
<1> USE DEF service, async, ends
<1> DEFINE v == wkr_[c]
<1>1. /\ pc[c] = "join" /\ pc' = [pc EXCEPT ![c] = "idle"]
      /\ thread[v] = "exited" /\ thread' = [thread EXCEPT ![v] = "none"]
      /\ closed_' = closed_ \ {v}
      /\ wkr_' = [wkr_ EXCEPT ![c] = NULL]
      /\ UNCHANGED <<worker_active_count_, worker_cache_, clearer, clearing, failures,
                     operations_, operation, ready_, handle_, runs, halted, aborted>>
  BY DEF Join, Joined, Go, Step
<1>2. /\ v \in Workers /\ v # NULL /\ operations_[v] = <<>> /\ v # clearing /\ c \notin handle_
      /\ runs[c] \in {0, 1}
      /\ v \notin ToSet(worker_cache_)
      /\ \A d \in Coroutines : wkr_[d] = v => d = c
      /\ ToSet(worker_cache_) \subseteq Workers
  <2>1. v # NULL /\ Ending(v) /\ c \notin handle_ /\ runs[c] \in {0, 1}
    BY <1>1 DEF BlockingInv, Calls, Call
  <2>2. v \in Workers /\ ToSet(worker_cache_) \subseteq Workers
    BY <2>1, ElementFacts DEF BlockingInv, TypeOK
  <2> QED
    BY <2>1, <2>2 DEF BlockingInv, Owned, Ending
<1> HIDE DEF v
<1>3. ActiveCounted' /\ worker_active_count_' \in Nat
  BY <1>1, CountStep, CountTypes DEF Counted
<1>4. TypeOK'
  BY <1>1, <1>2, <1>3 DEF BlockingInv, TypeOK, Points
<1>5. Calls'
  <2>1. Call(c)'
    BY <1>1, <1>2 DEF BlockingInv, TypeOK, Call
  <2>2. ASSUME NEW d \in Coroutines, d # c
        PROVE  Call(d)'
    <3>1. SameCall(d) /\ (wkr_[d] # NULL => SameWorker(wkr_[d]))
      BY <1>1, <1>2, <2>2 DEF BlockingInv, TypeOK, SameCall, SameWorker
    <3> QED
      BY <3>1, CallFrame DEF BlockingInv, Calls
  <2> QED
    BY <2>1, <2>2 DEF Calls
<1>6. Owned'
  <2>1. wkr_'[c] = NULL /\ (\A d \in Coroutines : d # c => wkr_'[d] = wkr_[d]) /\ wkr_[c] = v
    BY <1>1 DEF BlockingInv, TypeOK, v
  <2>2. \A w \in Workers : thread'[w] # "none" <=>
          w \in ToSet(worker_cache_') \/ w = clearing' \/ \E d \in Coroutines : wkr_'[d] = w
    <3>1. \A w \in Workers : thread'[w] = IF w = v THEN "none" ELSE thread[w]
      BY <1>1 DEF BlockingInv, TypeOK
    <3> QED
      BY <1>1, <1>2, <2>1, <3>1, BlockingAssumption DEF BlockingInv, Owned
  <2>3. \A d \in Coroutines : wkr_'[d] # NULL =>
          /\ wkr_'[d] \notin ToSet(worker_cache_') /\ wkr_'[d] # clearing'
          /\ \A e \in Coroutines : wkr_'[e] = wkr_'[d] => e = d
    BY <1>1, <1>2, <2>1 DEF BlockingInv, Owned
  <2> QED
    BY <1>1, <2>2, <2>3 DEF BlockingInv, Owned
<1>7. Idlers' /\ Cleared'
  <2>1. \A w \in Workers : w # v => SameWorker(w)
    BY <1>1 DEF BlockingInv, TypeOK, SameWorker
  <2> QED
    BY <1>1, <1>2, <2>1 DEF BlockingInv, TypeOK, Idlers, Cleared, Idle, Ending, SameWorker
<1>8. Unused'
  BY <1>1, <1>2 DEF BlockingInv, TypeOK, Unused
<1> QED
  BY <1>3, <1>4, <1>5, <1>6, <1>7, <1>8 DEF BlockingInv

-----------------------------------------------------------------------------
(* Workers.                                                                *)

\* A worker that has something to do does it for its owner, a caller that is
\* about to await or does.
LEMMA ServesCaller ==
  ASSUME BlockingInv, NEW w \in Workers,
         thread[w] \in {"execute", "resume", "schedule"} \/ operations_[w] # <<>>
  PROVE  \E c \in Coroutines :
           /\ wkr_[c] = w
           /\ \/ pc[c] \in {"await", "suspended"} /\ Given(c)
              \/ pc[c] = "suspended" /\ c \notin handle_ /\ Scheduling(c)
           /\ c \in handle_ => pc[c] = "suspended"
           /\ pc[c] = "suspended" /\ c \notin handle_ => Scheduling(c)
<1>1. ~Idle(w) /\ ~Ending(w) /\ thread[w] # "none"
  BY DEF BlockingInv, Unused, Idle, Ending
<1>2. w # NULL
  BY BlockingAssumption
<1>3. PICK c \in Coroutines : wkr_[c] = w
  BY <1>1, <1>2 DEF BlockingInv, Owned, Idlers, Cleared
<1>4. Call(c) /\ wkr_[c] = w /\ pc[c] \in Points
  BY <1>3 DEF BlockingInv, TypeOK, Calls
<1>5. /\ c \in handle_ => pc[c] = "suspended"
      /\ \/ pc[c] = "await" /\ Given(c)
         \/ pc[c] = "suspended" /\ IF c \in handle_ THEN Given(c) ELSE Scheduling(c)
  BY <1>1, <1>2, <1>4 DEF Call, Points
<1> QED
  BY <1>3, <1>5

\* A worker goes on, and everyone else stays as is.
LEMMA WorkerFrame ==
  ASSUME BlockingInv, NEW w \in Workers, thread'[w] # "none", thread[w] # "none",
         \A v \in Workers : v # w => SameWorker(v),
         Idle(w) => Idle(w)', Ending(w) => Ending(w)',
         \A c \in Coroutines : wkr_[c] = w => Call(c)',
         UNCHANGED <<service, pc, wkr_, async, ends>>
  PROVE  Calls' /\ Owned' /\ Idlers' /\ Cleared' /\ Unused' /\ ActiveCounted'
<1> USE DEF service, async, ends
<1>1. /\ \A d \in Coroutines : wkr_[d] \in Workers \cup {NULL}
      /\ ToSet(worker_cache_) \subseteq Workers /\ clearing \in Workers \cup {NULL}
      /\ NULL \notin Workers
  BY ElementFacts, BlockingAssumption DEF BlockingInv, TypeOK
<1>2. ASSUME NEW d \in Coroutines, wkr_[d] # w
      PROVE  Call(d)'
  <2>1. SameCall(d) /\ (wkr_[d] # NULL => SameWorker(wkr_[d]))
    BY <1>1, <1>2 DEF SameCall
  <2> QED
    BY <2>1, CallFrame DEF BlockingInv, Calls
<1>3. Owned'
  BY DEF BlockingInv, Owned, SameWorker
<1>4. Idlers'
  BY <1>1 DEF BlockingInv, Idlers, Idle, SameWorker
<1>5. Cleared'
  BY <1>1 DEF BlockingInv, Cleared, Ending, SameWorker
<1>6. Unused'
  BY DEF BlockingInv, Unused, SameWorker
<1>7. ActiveCounted'
  BY CountFrame
<1> QED
  BY <1>2, <1>3, <1>4, <1>5, <1>6, <1>7 DEF Calls

LEMMA PopStep ==
  ASSUME BlockingInv, NEW w \in Workers, Pop(w)
  PROVE  BlockingInv'
<1> USE DEF service, async, ends
<1>1. PICK c \in Coroutines :
        /\ wkr_[c] = w /\ Given(c) /\ pc[c] \in {"await", "suspended"}
        /\ pc[c] = "suspended" => c \in handle_
        /\ c \in handle_ => pc[c] = "suspended"
  BY ServesCaller DEF Pop, Scheduling
<1>2. /\ operations_[w] = <<c>> /\ w \notin closed_ /\ c \notin ready_ /\ runs[c] = 0 /\ w # NULL
  BY <1>1, BlockingAssumption DEF Pop, Given
<1>3. /\ operation' = [operation EXCEPT ![w] = c]
      /\ operations_' = [operations_ EXCEPT ![w] = <<>>]
      /\ thread' = [thread EXCEPT ![w] = "execute"]
      /\ UNCHANGED <<worker_active_count_, worker_cache_, clearer, clearing, failures, pc, wkr_,
                     closed_, ready_, handle_, runs, halted, aborted>>
  <2>1. Head(<<c>>) = c /\ Tail(<<c>>) = <<>>
    OBVIOUS
  <2> QED
    BY <1>2, <2>1 DEF Pop, Step, BlockingInv, TypeOK
<1>4. TypeOK'
  <2>1. <<>> \in Seq(Coroutines)
    OBVIOUS
  <2> QED
    BY <1>3, <2>1 DEF BlockingInv, TypeOK, Points
<1>5. Call(c)'
  BY <1>1, <1>2, <1>3 DEF BlockingInv, TypeOK, Call, Given
<1>6. (\A v \in Workers : v # w => SameWorker(v)) /\ thread'[w] # "none"
  BY <1>3 DEF BlockingInv, TypeOK, SameWorker
<1>7. \A d \in Coroutines : d # c => SameCall(d)
  BY <1>3 DEF SameCall
<1>8. Calls' /\ Owned' /\ Idlers' /\ Cleared' /\ Unused'
  BY <1>1, <1>3, <1>5, <1>6, <1>7, OwnersFrame
<1>9. ActiveCounted'
  BY <1>3, CountFrame
<1> QED
  BY <1>4, <1>8, <1>9 DEF BlockingInv

LEMMA PopFailsStep ==
  ASSUME BlockingInv, NEW w \in Workers, PopFails(w)
  PROVE  BlockingInv'
<1> USE DEF service, async, ends
<1>1. /\ thread[w] = "pop" /\ operations_[w] = <<>> /\ w \in closed_
      /\ thread' = [thread EXCEPT ![w] = "exited"]
      /\ UNCHANGED <<worker_active_count_, worker_cache_, clearer, clearing, failures, pc, wkr_,
                     operations_, closed_, operation, ready_, handle_, runs, halted, aborted>>
  BY DEF PopFails, Step
<1>2. TypeOK'
  BY <1>1 DEF BlockingInv, TypeOK, Points
<1>3. (\A v \in Workers : v # w => SameWorker(v)) /\ thread'[w] = "exited"
  BY <1>1 DEF BlockingInv, TypeOK, SameWorker
<1>4. ASSUME NEW c \in Coroutines, wkr_[c] = w
      PROVE  Call(c)'
  BY <1>1, <1>3, <1>4, BlockingAssumption DEF BlockingInv, Calls, Call, Given, Scheduling, Idle, Ending
<1>5. (Idle(w) => Idle(w)') /\ (Ending(w) => Ending(w)')
  BY <1>1, <1>3 DEF Idle, Ending
<1>6. Calls' /\ Owned' /\ Idlers' /\ Cleared' /\ Unused' /\ ActiveCounted'
  BY <1>1, <1>3, <1>4, <1>5, WorkerFrame
<1> QED
  BY <1>2, <1>6 DEF BlockingInv

LEMMA FinishStep ==
  ASSUME BlockingInv, NEW w \in Workers, Finish(w)
  PROVE  BlockingInv'
<1> USE DEF service, async, ends
<1>1. /\ thread[w] = "finish"
      /\ thread' = [thread EXCEPT ![w] = "pop"] /\ operation' = [operation EXCEPT ![w] = NULL]
      /\ UNCHANGED <<worker_active_count_, worker_cache_, clearer, clearing, failures, pc, wkr_,
                     operations_, closed_, ready_, handle_, runs, halted, aborted>>
  BY DEF Finish, Step
<1>2. TypeOK'
  BY <1>1 DEF BlockingInv, TypeOK, Points
<1>3. (\A v \in Workers : v # w => SameWorker(v)) /\ thread'[w] = "pop"
  BY <1>1 DEF BlockingInv, TypeOK, SameWorker
<1>4. ASSUME NEW c \in Coroutines, wkr_[c] = w
      PROVE  Call(c)'
  BY <1>1, <1>3, <1>4, BlockingAssumption DEF BlockingInv, Calls, Call, Given, Scheduling, Idle, Ending
<1>5. (Idle(w) => Idle(w)') /\ (Ending(w) => Ending(w)')
  BY <1>1, <1>3 DEF Idle, Ending
<1>6. Calls' /\ Owned' /\ Idlers' /\ Cleared' /\ Unused' /\ ActiveCounted'
  BY <1>1, <1>3, <1>4, <1>5, WorkerFrame
<1> QED
  BY <1>2, <1>6 DEF BlockingInv

LEMMA ExecuteStep ==
  ASSUME BlockingInv, NEW w \in Workers, Execute(w)
  PROVE  BlockingInv'
<1> USE DEF service, ends
<1>1. PICK c \in Coroutines :
        /\ wkr_[c] = w /\ Given(c) /\ pc[c] \in {"await", "suspended"}
        /\ pc[c] = "suspended" => c \in handle_
        /\ c \in handle_ => pc[c] = "suspended"
  BY ServesCaller DEF Execute, Scheduling
<1>2. /\ operations_[w] = <<>> /\ operation[w] = c /\ w \notin closed_ /\ c \notin ready_
      /\ runs[c] = 0 /\ w # NULL
  BY <1>1, BlockingAssumption DEF Execute, Given
<1>3. /\ runs' = [runs EXCEPT ![c] = 1]
      /\ thread' = [thread EXCEPT ![w] = "resume"]
      /\ UNCHANGED <<worker_active_count_, worker_cache_, clearer, clearing, failures, pc, wkr_,
                     operations_, operation, closed_, ready_, handle_, halted, aborted>>
  BY <1>2 DEF Execute, Step
<1>4. TypeOK'
  BY <1>3 DEF BlockingInv, TypeOK, Points
<1>5. Call(c)'
  BY <1>1, <1>2, <1>3 DEF BlockingInv, TypeOK, Call, Given
<1>6. (\A v \in Workers : v # w => SameWorker(v)) /\ thread'[w] # "none"
  BY <1>3 DEF BlockingInv, TypeOK, SameWorker
<1>7. \A d \in Coroutines : d # c => SameCall(d)
  BY <1>3 DEF BlockingInv, TypeOK, SameCall
<1>8. Calls' /\ Owned' /\ Idlers' /\ Cleared' /\ Unused'
  BY <1>1, <1>3, <1>5, <1>6, <1>7, OwnersFrame
<1>9. ActiveCounted'
  BY <1>3, CountFrame
<1> QED
  BY <1>4, <1>8, <1>9 DEF BlockingInv

LEMMA ResumeStep ==
  ASSUME BlockingInv, NEW w \in Workers, Resume(w)
  PROVE  BlockingInv'
<1> USE DEF service, ends
<1>1. PICK c \in Coroutines :
        /\ wkr_[c] = w /\ Given(c) /\ pc[c] \in {"await", "suspended"}
        /\ pc[c] = "suspended" => c \in handle_
        /\ c \in handle_ => pc[c] = "suspended"
  BY ServesCaller DEF Resume, Scheduling
<1>2. /\ operations_[w] = <<>> /\ operation[w] = c /\ w \notin closed_ /\ runs[c] = 1 /\ w # NULL
  BY <1>1, BlockingAssumption DEF Resume, Given
<1>3. /\ ready_' = ready_ \cup {c} /\ handle_' = handle_ \ {c}
      /\ thread' = [thread EXCEPT ![w] = IF c \in handle_ THEN "schedule" ELSE "finish"]
      /\ UNCHANGED <<worker_active_count_, worker_cache_, clearer, clearing, failures, pc, wkr_,
                     operations_, operation, closed_, runs, halted, aborted>>
  BY <1>2 DEF Resume, Step
<1>4. TypeOK'
  BY <1>3 DEF BlockingInv, TypeOK, Points
<1>5. Call(c)'
  BY <1>1, <1>2, <1>3 DEF BlockingInv, TypeOK, Call, Scheduling, Idle
<1>6. (\A v \in Workers : v # w => SameWorker(v)) /\ thread'[w] # "none"
  BY <1>3 DEF BlockingInv, TypeOK, SameWorker
<1>7. \A d \in Coroutines : d # c => SameCall(d)
  BY <1>3 DEF SameCall
<1>8. Calls' /\ Owned' /\ Idlers' /\ Cleared' /\ Unused'
  BY <1>1, <1>3, <1>5, <1>6, <1>7, OwnersFrame
<1>9. ActiveCounted'
  BY <1>3, CountFrame
<1> QED
  BY <1>4, <1>8, <1>9 DEF BlockingInv

LEMMA ToDestinationStep ==
  ASSUME BlockingInv, NEW w \in Workers, ToDestination(w)
  PROVE  BlockingInv'
<1> USE DEF service, async
<1>1. PICK c \in Coroutines :
        wkr_[c] = w /\ Scheduling(c) /\ pc[c] = "suspended" /\ c \notin handle_
  BY ServesCaller DEF ToDestination, Given
<1>2. /\ operations_[w] = <<>> /\ operation[w] = c /\ w \notin closed_ /\ runs[c] = 1 /\ w # NULL
  BY <1>1, BlockingAssumption DEF Scheduling
<1>3. UNCHANGED <<worker_active_count_, worker_cache_, clearer, clearing, failures, wkr_,
                  operations_, operation, closed_, ready_, handle_, runs, halted>>
  BY DEF ToDestination
<1>4. CASE aborted' = TRUE /\ UNCHANGED <<pc, thread>>
  <2>1. TypeOK'
    BY <1>3, <1>4 DEF BlockingInv, TypeOK, Points
  <2>2. Call(c)'
    BY <1>3, <1>4 DEF BlockingInv, Calls, Call, Given, Scheduling, Idle, Ending
  <2>3. /\ \A d \in Coroutines : SameCall(d)
        /\ \A v \in Workers : SameWorker(v)
        /\ thread'[w] # "none"
    BY <1>1, <1>3, <1>4 DEF SameCall, SameWorker, Scheduling
  <2>4. Calls' /\ Owned' /\ Idlers' /\ Cleared' /\ Unused'
    BY <1>1, <1>3, <2>2, <2>3, OwnersFrame
  <2>5. ActiveCounted'
    BY <1>3, <1>4, CountFrame
  <2> QED
    BY <2>1, <2>4, <2>5 DEF BlockingInv
<1>5. CASE /\ pc' = [pc EXCEPT ![c] = "queued"] /\ thread' = [thread EXCEPT ![w] = "finish"]
           /\ UNCHANGED aborted
  <2>1. ActiveCounted' /\ worker_active_count_' \in Nat
    BY <1>1, <1>3, <1>5, CountStep, CountTypes DEF Counted
  <2>2. TypeOK'
    BY <1>3, <1>5 DEF BlockingInv, TypeOK, Points
  <2>3. Call(c)'
    BY <1>1, <1>2, <1>3, <1>5 DEF BlockingInv, TypeOK, Call, Idle
  <2>4. /\ \A d \in Coroutines : d # c => SameCall(d)
        /\ \A v \in Workers : v # w => SameWorker(v)
        /\ thread'[w] # "none"
    BY <1>1, <1>3, <1>5 DEF SameCall, SameWorker, BlockingInv, TypeOK
  <2>5. Calls' /\ Owned' /\ Idlers' /\ Cleared' /\ Unused'
    BY <1>1, <1>3, <2>3, <2>4, OwnersFrame
  <2> QED
    BY <2>1, <2>2, <2>5 DEF BlockingInv
<1> QED
  BY <1>2, <1>4, <1>5 DEF ToDestination, Go, Step

-----------------------------------------------------------------------------
(* clear_worker_cache() and the schedulers.                                *)

\* A step that changes nothing the invariant is about.
LEMMA OtherStep ==
  ASSUME BlockingInv,
         UNCHANGED <<worker_active_count_, worker_cache_, clearing, failures, pc, wkr_, worker, async>>,
         clearer' \in BOOLEAN, halted' \subseteq Coroutines, UNCHANGED aborted
  PROVE  BlockingInv'
<1> USE DEF worker, async
<1>1. TypeOK'
  BY DEF BlockingInv, TypeOK
<1>2. ActiveCounted'
  BY CountFrame
<1>3. Calls'
  BY DEF BlockingInv, Calls, Call, Given, Scheduling, Idle, Ending
<1>4. Owned' /\ Idlers' /\ Cleared' /\ Unused'
  BY DEF BlockingInv, Owned, Idlers, Cleared, Unused, Idle, Ending
<1> QED
  BY <1>1, <1>2, <1>3, <1>4 DEF BlockingInv

LEMMA ClearPopStep ==
  ASSUME BlockingInv, ClearPop
  PROVE  BlockingInv'
<1> USE DEF async, ends
<1> DEFINE v == Head(worker_cache_)
<1>1. /\ clearing = NULL /\ worker_cache_ # <<>>
      /\ clearing' = v /\ worker_cache_' = Tail(worker_cache_)
      /\ closed_' = closed_ \cup {v}
      /\ UNCHANGED <<worker_active_count_, clearer, failures, pc, wkr_, operations_, thread,
                     operation, ready_, handle_, runs, halted, aborted>>
  BY DEF ClearPop
<1>2. /\ v \in Workers /\ v # NULL /\ Idle(v)
      /\ \A d \in Coroutines : wkr_[d] # v
      /\ worker_cache_' \in Seq(Workers) /\ Len(worker_cache_') <= CacheSize
      /\ IsInjective(worker_cache_') /\ v \notin ToSet(worker_cache_')
      /\ ToSet(worker_cache_) = ToSet(worker_cache_') \cup {v}
      /\ ToSet(worker_cache_) \subseteq Workers
  <2>1. /\ v \in Workers /\ v \in ToSet(worker_cache_)
        /\ worker_cache_' \in Seq(Workers) /\ Len(worker_cache_') = Len(worker_cache_) - 1
        /\ Len(worker_cache_) \in Nat
        /\ IsInjective(worker_cache_') /\ v \notin ToSet(worker_cache_')
        /\ ToSet(worker_cache_) = ToSet(worker_cache_') \cup {v}
        /\ ToSet(worker_cache_) \subseteq Workers
    BY <1>1, QueueFacts, ElementFacts, DistinctFacts DEF BlockingInv, TypeOK, Owned
  <2>2. Len(worker_cache_') <= CacheSize
    BY <2>1, BlockingAssumption DEF BlockingInv, TypeOK
  <2>3. v # NULL
    BY <2>1, BlockingAssumption
  <2>4. Idle(v)
    BY <2>1 DEF BlockingInv, Idlers
  <2>5. \A d \in Coroutines : wkr_[d] # v
    BY <2>1, <2>3 DEF BlockingInv, Owned
  <2> QED
    BY <2>1, <2>2, <2>3, <2>4, <2>5
<1> HIDE DEF v
<1>3. TypeOK'
  BY <1>1, <1>2 DEF BlockingInv, TypeOK
<1>4. ActiveCounted'
  BY <1>1, CountFrame
<1>5. Calls'
  <2>1. ASSUME NEW d \in Coroutines
        PROVE  Call(d)'
    <3>1. SameCall(d) /\ (wkr_[d] # NULL => SameWorker(wkr_[d]))
      BY <1>1, <1>2 DEF SameCall, SameWorker
    <3> QED
      BY <3>1, CallFrame DEF BlockingInv, Calls
  <2> QED
    BY <2>1 DEF Calls
<1>6. Owned'
  <2>1. \A w \in Workers : thread'[w] # "none" <=>
          w \in ToSet(worker_cache_') \/ w = clearing' \/ \E d \in Coroutines : wkr_'[d] = w
    BY <1>1, <1>2, BlockingAssumption DEF BlockingInv, Owned
  <2>2. \A d \in Coroutines : wkr_'[d] # NULL =>
          /\ wkr_'[d] \notin ToSet(worker_cache_') /\ wkr_'[d] # clearing'
          /\ \A e \in Coroutines : wkr_'[e] = wkr_'[d] => e = d
    BY <1>1, <1>2 DEF BlockingInv, Owned
  <2> QED
    BY <1>1, <1>2, <2>1, <2>2 DEF Owned
<1>7. Idlers' /\ Cleared' /\ Unused'
  BY <1>1, <1>2 DEF BlockingInv, Idlers, Cleared, Unused, Idle, Ending
<1> QED
  BY <1>3, <1>4, <1>5, <1>6, <1>7 DEF BlockingInv

LEMMA ClearJoinStep ==
  ASSUME BlockingInv, ClearJoin
  PROVE  BlockingInv'
<1> USE DEF async, ends
<1>1. /\ clearing # NULL /\ clearing' = NULL
      /\ thread[clearing] = "exited" /\ thread' = [thread EXCEPT ![clearing] = "none"]
      /\ closed_' = closed_ \ {clearing}
      /\ UNCHANGED <<worker_active_count_, worker_cache_, clearer, failures, pc, wkr_, operations_,
                     operation, ready_, handle_, runs, halted, aborted>>
  BY DEF ClearJoin, Joined, Step
<1>2. /\ clearing \in Workers /\ operations_[clearing] = <<>>
      /\ clearing \notin ToSet(worker_cache_) /\ \A d \in Coroutines : wkr_[d] # clearing
      /\ ToSet(worker_cache_) \subseteq Workers
  BY <1>1, ElementFacts DEF BlockingInv, TypeOK, Owned, Cleared, Ending
<1>3. \A w \in Workers : thread'[w] = IF w = clearing THEN "none" ELSE thread[w]
  BY <1>1 DEF BlockingInv, TypeOK
<1>4. TypeOK'
  BY <1>1 DEF BlockingInv, TypeOK
<1>5. ActiveCounted'
  BY <1>1, CountFrame
<1>6. Calls'
  <2>1. ASSUME NEW d \in Coroutines
        PROVE  Call(d)'
    <3>1. SameCall(d) /\ (wkr_[d] # NULL => SameWorker(wkr_[d]))
      BY <1>1, <1>2, <1>3 DEF BlockingInv, TypeOK, SameCall, SameWorker
    <3> QED
      BY <3>1, CallFrame DEF BlockingInv, Calls
  <2> QED
    BY <2>1 DEF Calls
<1>7. Owned'
  <2>1. \A w \in Workers : thread'[w] # "none" <=>
          w \in ToSet(worker_cache_') \/ w = clearing' \/ \E d \in Coroutines : wkr_'[d] = w
    BY <1>1, <1>2, <1>3, BlockingAssumption DEF BlockingInv, Owned
  <2>2. NULL \notin ToSet(worker_cache_')
    BY <1>1, <1>2, BlockingAssumption
  <2> QED
    BY <1>1, <2>1, <2>2 DEF BlockingInv, Owned
<1>8. Idlers' /\ Cleared' /\ Unused'
  BY <1>1, <1>2, <1>3 DEF BlockingInv, Idlers, Cleared, Unused, Idle, Ending
<1> QED
  BY <1>4, <1>5, <1>6, <1>7, <1>8 DEF BlockingInv

-----------------------------------------------------------------------------
(* Theorems.                                                               *)

LEMMA BlockingStep == BlockingInv /\ [Next]_vars => BlockingInv'
<1> SUFFICES ASSUME BlockingInv, [Next]_vars PROVE BlockingInv'
  OBVIOUS
<1>1. ASSUME NEW c \in Coroutines, CallerLocks(c) PROVE BlockingInv'
  BY <1>1, CheckoutCachedStep, CheckoutNewStep, CheckinCachedStep, CheckinFullStep DEF CallerLocks
<1>2. ASSUME NEW c \in Coroutines, CallerRuns(c) PROVE BlockingInv'
  BY <1>2, LaunchStep, LaunchFailsStep, ScheduleStep, AwaitStep, ContinueStep, DiscardStep, JoinStep
  DEF CallerRuns
<1>3. ASSUME NEW c \in Coroutines, Halt(c) PROVE BlockingInv'
  BY <1>3, OtherStep DEF Halt, service, BlockingInv, TypeOK
<1>4. ASSUME NEW w \in Workers, WorkerRuns(w) PROVE BlockingInv'
  BY <1>4, PopStep, PopFailsStep, ExecuteStep, ResumeStep, ToDestinationStep, FinishStep
  DEF WorkerRuns
<1>5. CASE ClearBegin \/ ClearEnd
  BY <1>5, OtherStep DEF ClearBegin, ClearEnd, ends, BlockingInv, TypeOK
<1>6. CASE ClearPop \/ ClearJoin
  BY <1>6, ClearPopStep, ClearJoinStep
<1>7. CASE UNCHANGED vars
  BY <1>7, OtherStep DEF vars, service, ends, BlockingInv, TypeOK
<1> QED
  BY <1>1, <1>2, <1>3, <1>4, <1>5, <1>6, <1>7 DEF Next, Clear

\* BlockingInv is an inductive invariant of the service.
THEOREM BlockingInvariant == FairSpec => []BlockingInv
BY BlockingInit, BlockingStep, PTL DEF FairSpec, Spec

\* Every worker whose thread was launched and not joined is owned by exactly
\* one call, the cache or clear_worker_cache(), and one that is handed out or
\* cached takes the next operation, for any number of callers and workers.
THEOREM WorkersAreOwned == FairSpec => []OneOwner
<1>1. ASSUME BlockingInv PROVE OneOwner
  <2>1. DOMAIN worker_cache_ = 1 .. Len(worker_cache_) /\ ToSet(worker_cache_) \subseteq Workers
    BY <1>1, LenProperties, ElementFacts DEF BlockingInv, TypeOK
  <2>2. ASSUME NEW w \in Workers, thread[w] = "none"
        PROVE  Owners(w) = {}
    BY <1>1, <2>2 DEF BlockingInv, Owned, Owners, ToSet
  <2>3. ASSUME NEW w \in Workers, thread[w] # "none"
        PROVE  \E o \in Owners(w) : Owners(w) = {o}
    <3>0. w # NULL
      BY BlockingAssumption
    <3>1. CASE \E c \in Coroutines : wkr_[c] = w
      <4>1. PICK c \in Coroutines : wkr_[c] = w
        BY <3>1
      <4>2. /\ {d \in Coroutines : wkr_[d] = w} = {c}
            /\ {i \in DOMAIN worker_cache_ : worker_cache_[i] = w} = {}
            /\ {clearing} \cap {w} = {}
        BY <1>1, <3>0, <4>1 DEF BlockingInv, Owned, ToSet
      <4>3. Owners(w) = {<<"caller", c>>}
        BY <4>2 DEF Owners
      <4> QED
        BY <4>3
    <3>2. CASE w = clearing
      <4>1. /\ {d \in Coroutines : wkr_[d] = w} = {}
            /\ {i \in DOMAIN worker_cache_ : worker_cache_[i] = w} = {}
            /\ {clearing} \cap {w} = {w}
        BY <1>1, <3>0, <3>2 DEF BlockingInv, Owned, ToSet
      <4>2. Owners(w) = {<<"clear", 0>>}
        BY <4>1 DEF Owners
      <4> QED
        BY <4>2
    <3>3. CASE w \in ToSet(worker_cache_)
      <4>1. PICK i \in DOMAIN worker_cache_ : worker_cache_[i] = w
        BY <3>3 DEF ToSet
      <4>2. /\ {d \in Coroutines : wkr_[d] = w} = {}
            /\ {j \in DOMAIN worker_cache_ : worker_cache_[j] = w} = {i}
            /\ {clearing} \cap {w} = {}
        BY <1>1, <3>0, <3>3, <4>1 DEF BlockingInv, Owned, IsInjective
      <4>3. Owners(w) = {<<"cache", i>>}
        BY <4>2 DEF Owners
      <4> QED
        BY <4>3
    <3> QED
      BY <1>1, <2>3, <3>1, <3>2, <3>3 DEF BlockingInv, Owned
  <2>4. ASSUME NEW c \in Coroutines, pc[c] = "schedule"
        PROVE  Idle(wkr_[c])
    BY <1>1, <2>4 DEF BlockingInv, Calls, Call
  <2>5. \A w \in ToSet(worker_cache_) : Idle(w)
    BY <1>1 DEF BlockingInv, Idlers
  <2> QED
    BY <2>2, <2>3, <2>4, <2>5 DEF OneOwner, Idle
<1> QED
  BY <1>1, BlockingInvariant, PTL

\* The cache is emptied with the spinlock held.
LEMMA ClearerClears == FairSpec => [](clearing # NULL => clearer)
<1>1. Init => (clearing # NULL => clearer)
  BY DEF Init
<1>2. (clearing # NULL => clearer) /\ [Next]_vars => (clearing # NULL => clearer)'
  <2> SUFFICES ASSUME clearing # NULL => clearer, [Next]_vars
               PROVE  (clearing # NULL => clearer)'
    OBVIOUS
  <2>1. CASE UNCHANGED <<clearer, clearing>>
    BY <2>1
  <2>2. CASE ClearBegin \/ Clear
    BY <2>2 DEF ClearBegin, Clear, ClearPop, ClearJoin, ClearEnd
  <2>3. ASSUME NEW c \in Coroutines, CallerLocks(c) \/ CallerRuns(c) \/ Halt(c)
        PROVE  UNCHANGED <<clearer, clearing>>
    BY <2>3 DEF CallerLocks, CheckoutCached, CheckoutNew, CheckinCached, CheckinFull, CallerRuns,
      Launch, LaunchFails, Schedule, Await, Continue, Discard, Join, Halt, service
  <2>4. ASSUME NEW w \in Workers, WorkerRuns(w)
        PROVE  UNCHANGED <<clearer, clearing>>
    BY <2>4 DEF WorkerRuns, Pop, PopFails, Execute, Resume, ToDestination, Finish, service
  <2> QED
    BY <2>1, <2>2, <2>3, <2>4 DEF Next, vars, service
<1> QED
  BY <1>1, <1>2, PTL DEF FairSpec, Spec

\* Workers that callers hold are as many as those callers.
LEMMA HeldWorkers ==
  ASSUME TypeOK, Owned,
         NEW H, H = {c \in Coroutines : wkr_[c] # NULL}
  PROVE  /\ IsFiniteSet({w \in Workers : \E c \in H : wkr_[c] = w})
         /\ Cardinality({w \in Workers : \E c \in H : wkr_[c] = w}) = Cardinality(H)
<1> DEFINE held == {w \in Workers : \E c \in H : wkr_[c] = w}
           f == [c \in H |-> wkr_[c]]
<1>1. IsFiniteSet(H)
  BY FS_Subset, BlockingAssumption
<1>2. f \in [H -> held] /\ \A w \in held : \E c \in H : f[c] = w
  BY DEF TypeOK
<1>3. \A c, d \in H : f[c] = f[d] => c = d
  BY DEF Owned
<1>4. f \in Bijection(H, held)
  BY <1>2, <1>3 DEF Bijection, Injection, Surjection, IsInjective
<1>5. ExistsBijection(H, held)
  BY <1>4 DEF ExistsBijection
<1> QED
  BY <1>1, <1>5, FS_Bijection

\* The cache has as many workers as its length says.
LEMMA CachedWorkers ==
  ASSUME TypeOK, Owned
  PROVE  /\ IsFiniteSet(ToSet(worker_cache_))
         /\ Cardinality(ToSet(worker_cache_)) = Len(worker_cache_)
<1> DEFINE n == Len(worker_cache_)
<1>1. n \in Nat /\ DOMAIN worker_cache_ = 1 .. n
  BY DEF TypeOK
<1>2. worker_cache_ \in [1 .. n -> ToSet(worker_cache_)]
      /\ \A w \in ToSet(worker_cache_) : \E i \in 1 .. n : worker_cache_[i] = w
  BY <1>1 DEF TypeOK, ToSet
<1>3. worker_cache_ \in Bijection(1 .. n, ToSet(worker_cache_))
  BY <1>2 DEF Owned, Bijection, Injection, Surjection
<1>4. ExistsBijection(1 .. n, ToSet(worker_cache_))
  BY <1>3 DEF ExistsBijection
<1> QED
  BY <1>1, <1>4, FS_CountingElements, FS_NatBijection

LEMMA Sums ==
  \A a, b, c, d, u \in Nat : u = a + b - 0 /\ u = c + d - 0 => a + b = c + d
OBVIOUS

LEMMA CountOfWorkers ==
  ASSUME BlockingInv, clearing # NULL => clearer
  PROVE  CountDriftsByFailures
<1> SUFFICES ASSUME ~clearer
             PROVE  worker_count + Cardinality({c \in Coroutines : pc[c] \in {"discard", "join"}}) =
                      Cardinality({w \in Workers : thread[w] # "none"})
                        + Cardinality({c \in Coroutines : pc[c] = "launch"}) + failures
  BY DEF CountDriftsByFailures, Unlocked
<1> DEFINE leaving == {c \in Coroutines : pc[c] \in {"discard", "join"}}
           launching == {c \in Coroutines : pc[c] = "launch"}
           holders == {c \in Coroutines : wkr_[c] # NULL}
           held == {w \in Workers : \E c \in holders : wkr_[c] = w}
           existing == {w \in Workers : thread[w] # "none"}
<1>1. TypeOK /\ Owned /\ Calls /\ ActiveCounted /\ clearing = NULL
  BY DEF BlockingInv
<1>2. \A c \in Coroutines : wkr_[c] = NULL <=> pc[c] \in {"idle", "launch"}
  BY <1>1 DEF Calls, Call
<1>3. /\ IsFiniteSet(leaving) /\ IsFiniteSet(launching) /\ IsFiniteSet(holders) /\ IsFiniteSet(Active)
  BY FS_Subset, BlockingAssumption DEF Active
<1>4. /\ Cardinality(leaving) \in Nat /\ Cardinality(launching) \in Nat
      /\ Cardinality(holders) \in Nat /\ Cardinality(Active) \in Nat
  BY <1>3, FS_CardinalityType
<1>5. Cardinality(existing) = Len(worker_cache_) + Cardinality(holders)
  <2>1. existing = ToSet(worker_cache_) \cup held
    <3>1. ToSet(worker_cache_) \subseteq Workers
      BY <1>1 DEF TypeOK, ToSet
    <3>2. NULL \notin Workers
      BY BlockingAssumption
    <3> QED
      BY <1>1, <3>1, <3>2 DEF Owned
  <2>2. ToSet(worker_cache_) \cap held = {}
    BY <1>1 DEF Owned
  <2>3. /\ IsFiniteSet(ToSet(worker_cache_)) /\ Cardinality(ToSet(worker_cache_)) = Len(worker_cache_)
    BY <1>1, CachedWorkers
  <2>4. /\ IsFiniteSet(held) /\ Cardinality(held) = Cardinality(holders)
    BY <1>1, HeldWorkers
  <2>5. Len(worker_cache_) \in Nat
    BY <1>1 DEF TypeOK
  <2> HIDE DEF existing, held, holders
  <2>6. Cardinality(existing)
          = Cardinality(ToSet(worker_cache_)) + Cardinality(held) - Cardinality({})
    BY <2>1, <2>2, <2>3, <2>4, FS_Union
  <2> QED
    BY <1>4, <2>3, <2>4, <2>5, <2>6, FS_EmptySet
<1>6. Cardinality(Active) + Cardinality(leaving) = Cardinality(launching) + Cardinality(holders)
  <2>1. Active \cup leaving = launching \cup holders /\ Active \cap leaving = {} /\ launching \cap holders = {}
    BY <1>1, <1>2 DEF Active, TypeOK
  <2> HIDE DEF leaving, launching, holders
  <2>2. Cardinality({}) = 0
    BY FS_EmptySet
  <2>3. Cardinality(Active \cup leaving) = Cardinality(Active) + Cardinality(leaving) - 0
    BY <1>3, <2>1, <2>2, FS_Union
  <2>4. Cardinality(launching \cup holders) = Cardinality(launching) + Cardinality(holders) - 0
    BY <1>3, <2>1, <2>2, FS_Union
  <2>5. Cardinality(Active \cup leaving) = Cardinality(launching \cup holders)
    BY <2>1
  <2>6. Cardinality(Active \cup leaving) \in Nat
    BY <1>3, FS_Union, FS_CardinalityType
  <2> QED
    BY <1>4, <2>3, <2>4, <2>5, <2>6, Sums
<1>7. worker_active_count_ = failures + Cardinality(Active) /\ failures \in Nat /\ Len(worker_cache_) \in Nat
  BY <1>1, BlockingAssumption DEF ActiveCounted, TypeOK
<1> HIDE DEF leaving, launching, holders, existing
<1>8. worker_active_count_ \in Nat /\ Cardinality(existing) \in Nat
  BY <1>1, <1>4, <1>5, <1>7 DEF TypeOK
<1>9. worker_active_count_ + Len(worker_cache_) + Cardinality(leaving)
        = Cardinality(existing) + Cardinality(launching) + failures
  <2> DEFINE a == Cardinality(Active)
             l == Cardinality(leaving)
             n == Cardinality(launching)
             h == Cardinality(holders)
             e == Cardinality(existing)
             k == Len(worker_cache_)
  <2>1. a \in Nat /\ l \in Nat /\ n \in Nat /\ h \in Nat /\ e \in Nat /\ k \in Nat /\ failures \in Nat
    BY <1>4, <1>7, <1>8
  <2>2. e = k + h /\ a + l = n + h /\ worker_active_count_ = failures + a
    BY <1>5, <1>6, <1>7
  <2> HIDE DEF a, l, n, h, e, k
  <2>3. worker_active_count_ + k + l = e + n + failures
    BY <1>8, <2>1, <2>2
  <2> QED
    BY <2>3 DEF a, l, n, h, e, k
<1> QED
  BY <1>9 DEF worker_count, leaving, launching, existing

\* worker_count(), read at any time, is the worker threads that exist, with
\* those that are being launched and every launch that has ever failed, less
\* those that are being destroyed.
THEOREM CountIsKnown == FairSpec => []CountDriftsByFailures
<1>1. BlockingInv /\ (clearing # NULL => clearer) => CountDriftsByFailures
  BY CountOfWorkers
<1> QED
  BY <1>1, BlockingInvariant, ClearerClears, PTL

\* The await of a call returns when its callable was executed exactly once,
\* also by a worker that other calls had before.
THEOREM CallablesRunOnce == FairSpec => []ExecutedOnce
<1>1. BlockingInv => ExecutedOnce
  BY DEF BlockingInv, Calls, Call, ExecutedOnce
<1> QED
  BY <1>1, BlockingInvariant, PTL

-----------------------------------------------------------------------------
(* Joins.                                                                  *)

\* The thread of a worker that a caller or clear_worker_cache() is destroying has
\* no operation: it pops, ends one whose caller has gone on, or has left run_().
JoinsAreShort ==
  \A w \in Workers :
    w = clearing \/ (\E c \in Coroutines : wkr_[c] = w /\ pc[c] \in {"discard", "join"})
      => operations_[w] = <<>> /\ thread[w] \in {"pop", "finish", "exited"}

\* ~worker() drops no callable and waits for none: not in a caller's coroutine, and
\* not in clear_worker_cache(), which holds the spinlock meanwhile.  So the joined
\* thread never needs that lock, a caller or a scheduler to come to its end.
THEOREM JoinsWaitForNobody == FairSpec => []JoinsAreShort
<1>1. BlockingInv => JoinsAreShort
  <2> SUFFICES ASSUME BlockingInv, NEW w \in Workers,
                      w = clearing \/ \E c \in Coroutines : wkr_[c] = w /\ pc[c] \in {"discard", "join"}
               PROVE  Idle(w) \/ Ending(w)
    BY DEF JoinsAreShort, Idle, Ending
  <2>1. CASE w = clearing
    BY <2>1, BlockingAssumption DEF BlockingInv, Cleared
  <2>2. CASE \E c \in Coroutines : wkr_[c] = w /\ pc[c] \in {"discard", "join"}
    <3>1. PICK c \in Coroutines : wkr_[c] = w /\ pc[c] \in {"discard", "join"}
      BY <2>2
    <3> QED
      BY <3>1 DEF BlockingInv, Calls, Call
  <2> QED
    BY <2>1, <2>2
<1> QED
  BY <1>1, BlockingInvariant, PTL

-----------------------------------------------------------------------------
(* The service delegates calls: every step is one of the contract's, or    *)
(* cannot be seen.                                                         *)

Place == [c \in Coroutines |-> PlaceOf(c)]
Hired == {w \in Workers : thread[w] # "none"}
Doing == [w \in Workers |-> IF thread[w] = "execute" THEN operation[w] ELSE NULL]

Delegated == [Contract!Next]_(Contract!vars)

\* A step that the contract does not see.
LEMMA Unseen ==
  ASSUME \A c \in Coroutines : PlaceOf(c)' = PlaceOf(c),
         UNCHANGED wkr_,
         \A w \in Workers :
           /\ thread'[w] = "none" <=> thread[w] = "none"
           /\ thread'[w] = "execute" <=> thread[w] = "execute"
           /\ thread[w] = "execute" => operation'[w] = operation[w]
  PROVE  Delegated
<1>1. Place' = Place /\ Hired' = Hired /\ Doing' = Doing
  BY DEF Place, Hired, Doing
<1> QED
  BY <1>1 DEF Delegated, Contract!vars, Place, Hired, Doing

\* One call gets further.
LEMMA PlaceMoves ==
  ASSUME NEW c \in Coroutines, NEW to, PlaceOf(c)' = to,
         \A d \in Coroutines : d # c => pc'[d] = pc[d] /\ runs'[d] = runs[d]
  PROVE  Place' = [Place EXCEPT ![c] = to]
<1>1. \A d \in Coroutines : d # c => PlaceOf(d)' = PlaceOf(d)
  BY DEF PlaceOf
<1> QED
  BY <1>1 DEF Place

\* ... and the workers are as they were.
LEMMA WorkersStay ==
  ASSUME UNCHANGED <<thread, operation>>
  PROVE  Hired' = Hired /\ Doing' = Doing
BY DEF Hired, Doing

LEMMA AskStep ==
  ASSUME BlockingInv, NEW c \in Coroutines, CheckoutNew(c) \/ LaunchFails(c)
  PROVE  Delegated
<1>1. Hired' = Hired /\ Doing' = Doing /\ wkr_' = wkr_
  BY WorkersStay DEF CheckoutNew, LaunchFails, worker
<1>2. CASE CheckoutNew(c)
  <2>1. pc[c] = "idle" /\ pc' = [pc EXCEPT ![c] = "launch"] /\ runs' = [runs EXCEPT ![c] = 0]
    BY <1>2 DEF CheckoutNew, Checkout, Go
  <2>2. PlaceOf(c) = "out" /\ PlaceOf(c)' = "asking"
    BY <2>1 DEF PlaceOf, BlockingInv, TypeOK
  <2>3. Place' = [Place EXCEPT ![c] = "asking"] /\ Place[c] = "out"
    BY <2>1, <2>2, PlaceMoves DEF Place, BlockingInv, TypeOK
  <2>4. Contract!Ask(c)
    BY <1>1, <2>3 DEF Contract!Ask, Contract!Go, Place, Hired, Doing
  <2> QED
    BY <2>4 DEF Delegated, Contract!Next
<1>3. CASE LaunchFails(c)
  <2>1. pc[c] = "launch" /\ pc' = [pc EXCEPT ![c] = "idle"] /\ runs' = runs
    BY <1>3 DEF LaunchFails, Go, async
  <2>2. PlaceOf(c) = "asking" /\ PlaceOf(c)' = "out"
    BY <2>1 DEF PlaceOf, BlockingInv, TypeOK
  <2>3. Place' = [Place EXCEPT ![c] = "out"] /\ Place[c] = "asking"
    BY <2>1, <2>2, PlaceMoves DEF Place, BlockingInv, TypeOK
  <2>4. Contract!Refuse(c)
    BY <1>1, <2>3 DEF Contract!Refuse, Contract!Go, Place, Hired, Doing
  <2> QED
    BY <2>4 DEF Delegated, Contract!Next
<1> QED
  BY <1>2, <1>3

\* A worker of the cache is nobody's.
LEMMA EngageCachedStep ==
  ASSUME BlockingInv, NEW c \in Coroutines, CheckoutCached(c)
  PROVE  Delegated
<1>1. PICK w \in Workers : w = Head(worker_cache_) /\ w \in ToSet(worker_cache_)
  BY QueueFacts, ElementFacts DEF CheckoutCached, BlockingInv, TypeOK
<1>2. /\ pc[c] = "idle" /\ pc' = [pc EXCEPT ![c] = "schedule"] /\ runs' = [runs EXCEPT ![c] = 0]
      /\ wkr_' = [wkr_ EXCEPT ![c] = w] /\ UNCHANGED <<thread, operation>>
  BY <1>1 DEF CheckoutCached, Checkout, Go, worker
<1>3. w \in Hired /\ ~\E d \in Coroutines : wkr_[d] = w
  BY <1>1, BlockingAssumption DEF BlockingInv, Owned, Hired
<1>4. Hired' = Hired \cup {w} /\ Doing' = Doing
  BY <1>2, <1>3, WorkersStay
<1>5. PlaceOf(c) = "out" /\ PlaceOf(c)' = "served"
  BY <1>2 DEF PlaceOf, BlockingInv, TypeOK
<1>6. Place' = [Place EXCEPT ![c] = "served"] /\ Place[c] = "out"
  BY <1>2, <1>5, PlaceMoves DEF Place, BlockingInv, TypeOK
<1>7. Contract!Engage(c, w)
  BY <1>2, <1>3, <1>4, <1>6 DEF Contract!Engage, Contract!Held, Contract!Go, Place, Hired, Doing
<1> QED
  BY <1>7 DEF Delegated, Contract!Next

LEMMA EngageNewStep ==
  ASSUME BlockingInv, NEW c \in Coroutines, NEW w \in Workers, Launch(c, w)
  PROVE  Delegated
<1>1. /\ pc[c] = "launch" /\ pc' = [pc EXCEPT ![c] = "schedule"] /\ runs' = runs /\ runs[c] = 0
      /\ wkr_' = [wkr_ EXCEPT ![c] = w] /\ operation' = operation
      /\ thread[w] = "none" /\ thread' = [thread EXCEPT ![w] = "pop"]
  BY DEF Launch, Go, Step, async, BlockingInv, Calls, Call
<1>2. w \notin Hired /\ ~\E d \in Coroutines : wkr_[d] = w
  BY <1>1 DEF BlockingInv, Owned, Hired
<1>3. Hired' = Hired \cup {w} /\ Doing' = Doing
  BY <1>1 DEF Hired, Doing, BlockingInv, TypeOK
<1>4. PlaceOf(c) = "asking" /\ PlaceOf(c)' = "served"
  BY <1>1 DEF PlaceOf, BlockingInv, TypeOK
<1>5. Place' = [Place EXCEPT ![c] = "served"] /\ Place[c] = "asking"
  BY <1>1, <1>4, PlaceMoves DEF Place, BlockingInv, TypeOK
<1>6. Contract!Engage(c, w)
  BY <1>1, <1>2, <1>3, <1>5 DEF Contract!Engage, Contract!Held, Contract!Go, Place, Hired, Doing
<1> QED
  BY <1>6 DEF Delegated, Contract!Next

\* The await of a call returns: its callable was executed.
LEMMA ReturnStep ==
  ASSUME BlockingInv, NEW c \in Coroutines, Await(c) \/ Continue(c)
  PROVE  Delegated
<1>1. UNCHANGED <<wkr_, thread, operation, runs>>
  BY DEF Await, Continue, worker, async
<1>2. CASE Await(c) /\ c \notin ready_
  <2>1. pc[c] = "await" /\ pc' = [pc EXCEPT ![c] = "suspended"]
    BY <1>2 DEF Await, Go
  <2>2. \A d \in Coroutines : PlaceOf(d)' = PlaceOf(d)
    BY <1>1, <2>1 DEF PlaceOf, BlockingInv, TypeOK
  <2> QED
    BY <1>1, <2>2, Unseen
<1>3. CASE Continue(c) \/ (Await(c) /\ c \in ready_)
  <2>1. pc[c] \in {"await", "queued"} /\ pc' = [pc EXCEPT ![c] = "resumed"] /\ runs[c] = 1
    BY <1>3 DEF Continue, Await, Go, BlockingInv, Calls, Call, Given
  <2>2. PlaceOf(c) = "done" /\ PlaceOf(c)' = "returning"
    BY <1>1, <2>1 DEF PlaceOf, BlockingInv, TypeOK
  <2>3. Place' = [Place EXCEPT ![c] = "returning"] /\ Place[c] = "done"
    BY <1>1, <2>1, <2>2, PlaceMoves DEF Place, BlockingInv, TypeOK
  <2>4. Contract!Return(c)
    BY <1>1, <2>3, WorkersStay DEF Contract!Return, Contract!Go, Place, Hired, Doing
  <2> QED
    BY <2>4 DEF Delegated, Contract!Next
<1> QED
  BY <1>2, <1>3

\* The worker is given back to the cache, or joined.
LEMMA ReleaseStep ==
  ASSUME BlockingInv, NEW c \in Coroutines, CheckinCached(c) \/ Join(c)
  PROVE  Delegated
<1>1. /\ pc[c] \in {"resumed", "join"} /\ pc' = [pc EXCEPT ![c] = "idle"] /\ runs' = runs
      /\ wkr_' = [wkr_ EXCEPT ![c] = NULL] /\ operation' = operation
  BY DEF CheckinCached, Join, Joined, Go, async, worker
<1>2. Hired' \in {Hired, Hired \ {wkr_[c]}} /\ Doing' = Doing
  <2>1. CASE CheckinCached(c)
    BY <2>1, WorkersStay DEF CheckinCached, worker
  <2>2. CASE Join(c)
    <3>1. thread[wkr_[c]] = "exited" /\ thread' = [thread EXCEPT ![wkr_[c]] = "none"]
      BY <2>2 DEF Join, Joined, Step
    <3> QED
      BY <1>1, <3>1 DEF Hired, Doing, BlockingInv, TypeOK
  <2> QED
    BY <2>1, <2>2
<1>3. PlaceOf(c) = "returning" /\ PlaceOf(c)' = "out"
  BY <1>1 DEF PlaceOf, BlockingInv, TypeOK
<1>4. Place' = [Place EXCEPT ![c] = "out"] /\ Place[c] = "returning"
  BY <1>1, <1>3, PlaceMoves DEF Place, BlockingInv, TypeOK
<1>5. Contract!Release(c)
  BY <1>1, <1>2, <1>4 DEF Contract!Release, Contract!Go, Place, Hired, Doing
<1> QED
  BY <1>5 DEF Delegated, Contract!Next

\* A worker begins with the callable of its owner, and is done with it.
LEMMA ServeStep ==
  ASSUME BlockingInv, NEW w \in Workers, Pop(w) \/ Execute(w)
  PROVE  Delegated
<1>1. PICK c \in Coroutines : wkr_[c] = w /\ Given(c) /\ pc[c] \in {"await", "suspended"}
  BY ServesCaller DEF Pop, Execute, Scheduling
<1>2. UNCHANGED <<pc, wkr_>> /\ w # NULL /\ runs[c] = 0
  BY <1>1, BlockingAssumption DEF Pop, Execute, Given
<1>3. PlaceOf(c) = "served" /\ Place[c] = "served"
  BY <1>1, <1>2 DEF PlaceOf, Place
<1>4. CASE Pop(w)
  <2>1. /\ operations_[w] = <<c>> /\ thread[w] = "pop" /\ runs' = runs
        /\ operation' = [operation EXCEPT ![w] = c] /\ thread' = [thread EXCEPT ![w] = "execute"]
    <3>1. operations_[w] = <<c>> /\ Head(<<c>>) = c
      BY <1>1, <1>4 DEF Pop, Given
    <3> QED
      BY <1>4, <3>1 DEF Pop, Step, async
  <2>2. Hired' = Hired /\ Doing' = [Doing EXCEPT ![w] = c] /\ Doing[w] = NULL
    BY <2>1 DEF Hired, Doing, BlockingInv, TypeOK
  <2>3. Place' = Place
    BY <1>2, <2>1 DEF Place, PlaceOf
  <2>4. Contract!Begin(c, w)
    BY <1>1, <1>2, <1>3, <2>2, <2>3 DEF Contract!Begin, Place, Hired, Doing
  <2> QED
    BY <2>4 DEF Delegated, Contract!Next
<1>5. CASE Execute(w)
  <2>1. /\ operation[w] = c /\ thread[w] = "execute" /\ runs' = [runs EXCEPT ![c] = 1]
        /\ operation' = operation /\ thread' = [thread EXCEPT ![w] = "resume"]
    <3>1. operation[w] = c
      BY <1>1, <1>5 DEF Execute, Given
    <3>2. runs[c] + 1 = 1
      BY <1>2
    <3>3. runs' = [runs EXCEPT ![operation[w]] = runs[operation[w]] + 1]
      BY <1>5 DEF Execute
    <3>4. runs' = [runs EXCEPT ![c] = 1]
      BY <3>1, <3>2, <3>3
    <3> QED
      BY <1>5, <3>1, <3>4 DEF Execute, Step
  <2>2. Hired' = Hired /\ Doing' = [Doing EXCEPT ![w] = NULL] /\ Doing[w] = c
    BY <2>1 DEF Hired, Doing, BlockingInv, TypeOK
  <2>3. PlaceOf(c)' = "done"
    BY <1>1, <1>2, <2>1 DEF PlaceOf, BlockingInv, TypeOK
  <2>4. Place' = [Place EXCEPT ![c] = "done"]
    BY <1>2, <2>1, <2>3, PlaceMoves DEF BlockingInv, TypeOK
  <2>5. Contract!Done(c, w)
    BY <1>1, <1>2, <1>3, <2>2, <2>4 DEF Contract!Done, Contract!Go, Place, Hired, Doing
  <2> QED
    BY <2>5 DEF Delegated, Contract!Next
<1> QED
  BY <1>4, <1>5

\* clear_worker_cache() joins a worker that is nobody's.
LEMMA DismissStep ==
  ASSUME BlockingInv, ClearJoin
  PROVE  Delegated
<1>1. PICK w \in Workers : w = clearing
  BY DEF ClearJoin, BlockingInv, TypeOK
<1>2. /\ thread[w] = "exited" /\ thread' = [thread EXCEPT ![w] = "none"]
      /\ UNCHANGED <<pc, wkr_, runs, operation>>
  BY <1>1 DEF ClearJoin, Joined, Step, async
<1>3. w \in Hired /\ ~\E d \in Coroutines : wkr_[d] = w
  BY <1>1, <1>2, BlockingAssumption DEF BlockingInv, Owned, Hired
<1>4. Hired' = Hired \ {w} /\ Doing' = Doing /\ Place' = Place
  BY <1>2 DEF Hired, Doing, Place, PlaceOf, BlockingInv, TypeOK
<1>5. Contract!Dismiss(w)
  BY <1>2, <1>3, <1>4 DEF Contract!Dismiss, Contract!Held, Place, Hired, Doing
<1> QED
  BY <1>5 DEF Delegated, Contract!Next

\* The steps that only the service sees.
LEMMA UnseenStep ==
  ASSUME BlockingInv,
         \/ \E c \in Coroutines : Schedule(c) \/ CheckinFull(c) \/ Discard(c) \/ Halt(c)
         \/ \E w \in Workers : PopFails(w) \/ Resume(w) \/ ToDestination(w) \/ Finish(w)
         \/ ClearBegin \/ ClearPop \/ ClearEnd \/ UNCHANGED vars
  PROVE  Delegated
<1>1. ASSUME NEW c \in Coroutines, Schedule(c) \/ CheckinFull(c) \/ Discard(c) PROVE Delegated
  <2>1. /\ \/ pc[c] = "schedule" /\ pc' = [pc EXCEPT ![c] = "await"]
           \/ pc[c] = "resumed" /\ pc' = [pc EXCEPT ![c] = "discard"]
           \/ pc[c] = "discard" /\ pc' = [pc EXCEPT ![c] = "join"]
        /\ UNCHANGED <<wkr_, thread, operation, runs>>
    BY <1>1 DEF Schedule, CheckinFull, Discard, Go, worker, async
  <2>2. \A d \in Coroutines : PlaceOf(d)' = PlaceOf(d)
    BY <2>1 DEF PlaceOf, BlockingInv, TypeOK
  <2> QED
    BY <2>1, <2>2, Unseen
<1>2. ASSUME NEW w \in Workers, PopFails(w) \/ Resume(w) \/ Finish(w) PROVE Delegated
  <2>1. /\ thread[w] \in {"pop", "resume", "finish"}
        /\ thread' \in {[thread EXCEPT ![w] = p] : p \in {"exited", "schedule", "finish", "pop"}}
        /\ \A v \in Workers : v # w => operation'[v] = operation[v]
        /\ UNCHANGED <<pc, wkr_, runs>>
    BY <1>2 DEF PopFails, Resume, Finish, Step, async, BlockingInv, TypeOK
  <2>2. \A d \in Coroutines : PlaceOf(d)' = PlaceOf(d)
    BY <2>1 DEF PlaceOf
  <2>3. \A v \in Workers :
          /\ thread'[v] = "none" <=> thread[v] = "none"
          /\ thread'[v] = "execute" <=> thread[v] = "execute"
          /\ thread[v] = "execute" => operation'[v] = operation[v]
    BY <2>1 DEF BlockingInv, TypeOK
  <2> QED
    BY <2>1, <2>2, <2>3, Unseen
<1>3. ASSUME NEW w \in Workers, ToDestination(w) PROVE Delegated
  <2>1. PICK c \in Coroutines : operation[w] = c /\ Scheduling(c) /\ pc[c] = "suspended" /\ wkr_[c] = w
    BY <1>3, ServesCaller DEF ToDestination, Given, Scheduling
  <2>2. /\ thread[w] = "schedule" /\ thread' \in {thread, [thread EXCEPT ![w] = "finish"]}
        /\ pc' \in {pc, [pc EXCEPT ![c] = "queued"]} /\ runs[c] = 1
        /\ UNCHANGED <<wkr_, runs, operation>>
    BY <1>3, <2>1 DEF ToDestination, Go, Step, Scheduling, async
  <2>3. \A d \in Coroutines : PlaceOf(d)' = PlaceOf(d)
    BY <2>1, <2>2 DEF PlaceOf, BlockingInv, TypeOK
  <2>4. \A v \in Workers :
          /\ thread'[v] = "none" <=> thread[v] = "none"
          /\ thread'[v] = "execute" <=> thread[v] = "execute"
    BY <2>2 DEF BlockingInv, TypeOK
  <2> QED
    BY <2>2, <2>3, <2>4, Unseen
<1>4. ASSUME \/ \E c \in Coroutines : Halt(c)
             \/ ClearBegin \/ ClearPop \/ ClearEnd \/ UNCHANGED vars
      PROVE  Delegated
  <2>1. UNCHANGED <<pc, wkr_, runs, thread, operation>>
    BY <1>4 DEF Halt, ClearBegin, ClearPop, ClearEnd, vars, worker, async
  <2>2. \A d \in Coroutines : PlaceOf(d)' = PlaceOf(d)
    BY <2>1 DEF PlaceOf
  <2> QED
    BY <2>1, <2>2, Unseen
<1> QED
  BY <1>1, <1>2, <1>3, <1>4

\* The service delegates every call to a thread that serves nobody else until the
\* call has given it back; the callable is executed by that thread, once, and before
\* the call returns; and no thread ends that is still somebody's.
THEOREM CallsAreDelegated == FairSpec => ImplementsDelegation
<1>1. Init => Contract!Init
  <2> SUFFICES ASSUME Init PROVE Contract!Init
    OBVIOUS
  <2>1. \A c \in Coroutines : PlaceOf(c) = "out"
    BY DEF Init, PlaceOf
  <2> QED
    BY <2>1 DEF Init, Contract!Init
<1>2. BlockingInv /\ [Next]_vars => Delegated
  <2> SUFFICES ASSUME BlockingInv, [Next]_vars PROVE Delegated
    OBVIOUS
  <2>1. ASSUME NEW c \in Coroutines, CallerLocks(c) \/ CallerRuns(c) \/ Halt(c) PROVE Delegated
    BY <2>1, AskStep, EngageCachedStep, EngageNewStep, ReturnStep, ReleaseStep, UnseenStep
       DEF CallerLocks, CallerRuns
  <2>2. ASSUME NEW w \in Workers, WorkerRuns(w) PROVE Delegated
    BY <2>2, ServeStep, UnseenStep DEF WorkerRuns
  <2>3. CASE ClearBegin \/ Clear \/ UNCHANGED vars
    BY <2>3, DismissStep, UnseenStep DEF Clear
  <2> QED
    BY <2>1, <2>2, <2>3 DEF Next
<1> QED
  BY <1>1, <1>2, BlockingInvariant, PTL DEF FairSpec, Spec, ImplementsDelegation, Contract!Spec, Delegated
=============================================================================
