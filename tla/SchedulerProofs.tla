---------------------------- MODULE SchedulerProofs ----------------------------
(***************************************************************************)
(* Theorems about module Scheduler, for any number of schedulers, threads  *)
(* and coroutines.                                                         *)
(*                                                                         *)
(* TypeOK is not inductive: run() pops the front of its local queue, which *)
(* keeps its type only when the queue is not empty (BatchCovered), and it  *)
(* parks, queues or loses the running coroutine, which is one only inside  *)
(* resume() (Consistent).  IInv, which is these three and NoLostWakeup, is *)
(* inductive.                                                              *)
(*                                                                         *)
(* For who owns a coroutine's handle, and that the schedulers implement    *)
(* module Executor, At(c, k, s) says that c is in the place k of scheduler *)
(* s and nowhere else.  It names the stage and the site of the contract at *)
(* once, so that the same lemma about an action gives the invariant and    *)
(* the contract's step.                                                    *)
(***************************************************************************)
EXTENDS Scheduler, ListFacts

IInv == TypeOK /\ Consistent /\ BatchCovered /\ NoLostWakeup

-----------------------------------------------------------------------------
(* Facts about sequences.                                                  *)

LEMMA EmptyQueue == <<>> \in Seq(Coros) /\ Len(<<>>) = 0
OBVIOUS

LEMMA CoroutineQueues ==
  ASSUME NEW q \in Seq(Coros)
  PROVE  /\ Len(q) \in Nat
         /\ q = <<>> <=> Len(q) = 0
         /\ \A c \in Coros : Append(q, c) \in Seq(Coros) /\ Len(Append(q, c)) = Len(q) + 1
         /\ q # <<>> => Head(q) \in Coros /\ Tail(q) \in Seq(Coros) /\ Len(Tail(q)) = Len(q) - 1
BY EmptySeq, HeadTailProperties, AppendProperties, LenProperties

-----------------------------------------------------------------------------

LEMMA Initial == Init => IInv
<1> SUFFICES ASSUME Init PROVE IInv
  OBVIOUS
<1>1. TypeOK
  BY EmptyQueue DEF Init, TypeOK, States, Points
<1>2. Consistent
  BY NullAssumption DEF Init, Consistent
<1>3. BatchCovered
  BY DEF Init, BatchCovered
<1>4. NoLostWakeup
  BY DEF Init, NoLostWakeup
<1> QED
  BY <1>1, <1>2, <1>3, <1>4 DEF IInv

-----------------------------------------------------------------------------
(* Control operations of a lifecycle.                                      *)

LEMMA SuspendStep ==
  ASSUME IInv, NEW s \in Schedulers,
         Suspend_(s)
  PROVE  IInv'
<1> USE CoroutineQueues, NullAssumption DEF IInv, Suspend_, CoroutinesNotify, joins, ends
<1>1. TypeOK'
  BY DEF TypeOK, States, Points, BatchCovered, Consistent
<1>2. Consistent'
  BY DEF TypeOK, Consistent
<1>3. BatchCovered'
  BY DEF TypeOK, BatchCovered, Consistent
<1>4. NoLostWakeup'
  BY DEF TypeOK, NoLostWakeup, Consistent
<1> QED
  BY <1>1, <1>2, <1>3, <1>4

LEMMA ResumeStep ==
  ASSUME IInv, NEW s \in Schedulers,
         Resume_(s)
  PROVE  IInv'
<1> USE CoroutineQueues, NullAssumption DEF IInv, Resume_, joins, ends
<1>1. TypeOK'
  BY DEF TypeOK, States, Points, BatchCovered, Consistent
<1>2. Consistent'
  BY DEF TypeOK, Consistent
<1>3. BatchCovered'
  BY DEF TypeOK, BatchCovered, Consistent
<1>4. NoLostWakeup'
  BY DEF TypeOK, NoLostWakeup, Consistent
<1> QED
  BY <1>1, <1>2, <1>3, <1>4

LEMMA HaltStep ==
  ASSUME IInv, NEW s \in Schedulers,
         Halt_(s)
  PROVE  IInv'
<1> USE CoroutineQueues, NullAssumption DEF IInv, Halt_, CoroutinesNotify, joins, ends
<1>1. TypeOK'
  BY DEF TypeOK, States, Points, BatchCovered, Consistent
<1>2. Consistent'
  BY DEF TypeOK, Consistent
<1>3. BatchCovered'
  BY DEF TypeOK, BatchCovered, Consistent
<1>4. NoLostWakeup'
  BY DEF TypeOK, NoLostWakeup, Consistent
<1> QED
  BY <1>1, <1>2, <1>3, <1>4
-----------------------------------------------------------------------------
(* What run() does with the lock held, its local queue having been emptied into q. *)

LEMMA LeaveHaltedStep ==
  ASSUME IInv, NEW s \in Schedulers, NEW q \in Seq(Coros),
         pc[s] # "running", co[s] = NULL, count[s] = 0,
         UNCHANGED <<state, running, joins, ends>>,
         LeaveHalted(s, q)
  PROVE  IInv'
<1> USE CoroutineQueues, NullAssumption DEF IInv, LeaveHalted, joins, ends
<1>1. TypeOK'
  BY DEF TypeOK, States, Points, BatchCovered, Consistent
<1>2. Consistent'
  BY DEF TypeOK, Consistent
<1>3. BatchCovered'
  BY DEF TypeOK, BatchCovered, Consistent
<1>4. NoLostWakeup'
  BY DEF TypeOK, NoLostWakeup, Consistent
<1> QED
  BY <1>1, <1>2, <1>3, <1>4

LEMMA WaitForResumeStep ==
  ASSUME IInv, NEW s \in Schedulers, NEW q \in Seq(Coros),
         pc[s] # "running", co[s] = NULL, count[s] = 0,
         UNCHANGED <<state, running, joins, ends>>,
         WaitForResume(s, q)
  PROVE  IInv'
<1> USE CoroutineQueues, NullAssumption DEF IInv, WaitForResume, joins, ends
<1>1. TypeOK'
  BY DEF TypeOK, States, Points, BatchCovered, Consistent
<1>2. Consistent'
  BY DEF TypeOK, Consistent
<1>3. BatchCovered'
  BY DEF TypeOK, BatchCovered, Consistent
<1>4. NoLostWakeup'
  BY DEF TypeOK, NoLostWakeup, Consistent
<1> QED
  BY <1>1, <1>2, <1>3, <1>4

LEMMA TakeBatchStep ==
  ASSUME IInv, NEW s \in Schedulers, NEW q \in Seq(Coros),
         pc[s] # "running", co[s] = NULL, count[s] = 0,
         UNCHANGED <<state, running, joins, ends>>,
         TakeBatch(s, q)
  PROVE  IInv'
<1> USE CoroutineQueues, NullAssumption DEF IInv, TakeBatch, flags, joins, ends
<1>1. TypeOK'
  BY DEF TypeOK, States, Points, BatchCovered, Consistent
<1>2. Consistent'
  BY DEF TypeOK, Consistent
<1>3. BatchCovered'
  BY DEF TypeOK, BatchCovered, Consistent
<1>4. NoLostWakeup'
  BY DEF TypeOK, NoLostWakeup, Consistent
<1> QED
  BY <1>1, <1>2, <1>3, <1>4

LEMMA WaitForCoroutinesStep ==
  ASSUME IInv, NEW s \in Schedulers, NEW q \in Seq(Coros),
         pc[s] # "running", co[s] = NULL, count[s] = 0,
         UNCHANGED <<state, running, joins, ends>>,
         WaitForCoroutines(s, q)
  PROVE  IInv'
<1> USE CoroutineQueues, NullAssumption DEF IInv, WaitForCoroutines, joins, ends
<1>1. TypeOK'
  BY DEF TypeOK, States, Points, BatchCovered, Consistent
<1>2. Consistent'
  BY DEF TypeOK, Consistent
<1>3. BatchCovered'
  BY DEF TypeOK, BatchCovered, Consistent
<1>4. NoLostWakeup'
  BY DEF TypeOK, NoLostWakeup, Consistent
<1> QED
  BY <1>1, <1>2, <1>3, <1>4
-----------------------------------------------------------------------------
(* The batch.                                                              *)

LEMMA SpuriousWakeupStep ==
  ASSUME IInv, NEW s \in Schedulers,
         SpuriousWakeup(s)
  PROVE  IInv'
<1> USE CoroutineQueues, NullAssumption DEF IInv, SpuriousWakeup, flags, joins, ends
<1>1. TypeOK'
  BY DEF TypeOK, States, Points, BatchCovered, Consistent
<1>2. Consistent'
  BY DEF TypeOK, Consistent
<1>3. BatchCovered'
  BY DEF TypeOK, BatchCovered, Consistent
<1>4. NoLostWakeup'
  BY DEF TypeOK, NoLostWakeup, Consistent
<1> QED
  BY <1>1, <1>2, <1>3, <1>4

LEMMA DestroyThrowsStep ==
  ASSUME IInv, NEW s \in Schedulers,
         DestroyThrows(s)
  PROVE  IInv'
<1> USE CoroutineQueues, NullAssumption DEF IInv, DestroyThrows, flags, thread, joins, ends
<1>1. TypeOK'
  BY DEF TypeOK, States, Points, BatchCovered, Consistent
<1>2. Consistent'
  BY DEF TypeOK, Consistent
<1>3. BatchCovered'
  BY DEF TypeOK, BatchCovered, Consistent
<1>4. NoLostWakeup'
  BY DEF TypeOK, NoLostWakeup, Consistent
<1> QED
  BY <1>1, <1>2, <1>3, <1>4

LEMMA ResumeNextStep ==
  ASSUME IInv, NEW s \in Schedulers,
         ResumeNext(s)
  PROVE  IInv'
<1> USE CoroutineQueues, NullAssumption DEF IInv, ResumeNext, flags, joins, ends
<1>1. TypeOK'
  BY DEF TypeOK, States, Points, BatchCovered, Consistent
<1>2. Consistent'
  BY DEF TypeOK, Consistent, BatchCovered
<1>3. BatchCovered'
  BY DEF TypeOK, BatchCovered, Consistent
<1>4. NoLostWakeup'
  BY DEF TypeOK, NoLostWakeup, Consistent
<1> QED
  BY <1>1, <1>2, <1>3, <1>4
-----------------------------------------------------------------------------
(* Steps of the running coroutine that call no schedule_().                *)

LEMMA SpawnThrowsStep ==
  ASSUME IInv, NEW s \in Schedulers, NEW k \in Coros, NEW d \in Schedulers,
         SpawnThrows(s, k, d)
  PROVE  IInv'
<1> USE CoroutineQueues, NullAssumption DEF IInv, SpawnThrows, flags, thread, joins, ends
<1>1. TypeOK'
  BY DEF TypeOK, States, Points, BatchCovered, Consistent
<1>2. Consistent'
  BY DEF TypeOK, Consistent
<1>3. BatchCovered'
  BY DEF TypeOK, BatchCovered, Consistent
<1>4. NoLostWakeup'
  BY DEF TypeOK, NoLostWakeup, Consistent
<1> QED
  BY <1>1, <1>2, <1>3, <1>4

LEMMA YieldStep ==
  ASSUME IInv, NEW s \in Schedulers,
         Yield(s)
  PROVE  IInv'
<1> USE CoroutineQueues, NullAssumption DEF IInv, Yield, Running, LeaveResume, Left, flags, joins, ends
<1>1. TypeOK'
  <2>1. running[s] \in Coros
    BY DEF TypeOK, Consistent
  <2>2. local' \in [Schedulers -> Seq(Coros)]
    <3>1. local[s] \in Seq(Coros)
      BY DEF TypeOK
    <3>2. Append(local[s], running[s]) \in Seq(Coros)
      BY <2>1, <3>1
    <3> QED
      BY <3>2, ZenonT(60) DEF TypeOK
  <2>4. lost' \in SUBSET Coros
    BY <2>1 DEF TypeOK
  <2>3. pc' \in [Schedulers -> Points]
    BY DEF TypeOK, Points
  <2> QED
    BY <2>2, <2>3, <2>4 DEF TypeOK
<1>2. Consistent'
  BY DEF TypeOK, Consistent
<1>3. BatchCovered'
  BY DEF TypeOK, BatchCovered, Consistent
<1>4. NoLostWakeup'
  BY DEF TypeOK, NoLostWakeup, Consistent
<1> QED
  BY <1>1, <1>2, <1>3, <1>4

LEMMA BlockStep ==
  ASSUME IInv, NEW s \in Schedulers,
         Block(s)
  PROVE  IInv'
<1> USE CoroutineQueues, NullAssumption DEF IInv, Block, Park, Running, LeaveResume, Left, flags, joins, ends
<1>1. TypeOK'
  BY DEF TypeOK, States, Points, BatchCovered, Consistent
<1>2. Consistent'
  BY DEF TypeOK, Consistent
<1>3. BatchCovered'
  BY DEF TypeOK, BatchCovered, Consistent
<1>4. NoLostWakeup'
  BY DEF TypeOK, NoLostWakeup, Consistent
<1> QED
  BY <1>1, <1>2, <1>3, <1>4

LEMMA JoinStep ==
  ASSUME IInv, NEW s \in Schedulers, NEW k \in Coros,
         Join(s, k)
  PROVE  IInv'
<1> USE CoroutineQueues, NullAssumption DEF IInv, Join, Park, Running, LeaveResume, Left, flags, joins, ends
<1>1. TypeOK'
  BY DEF TypeOK, States, Points, BatchCovered, Consistent
<1>2. Consistent'
  BY DEF TypeOK, Consistent
<1>3. BatchCovered'
  BY DEF TypeOK, BatchCovered, Consistent
<1>4. NoLostWakeup'
  BY DEF TypeOK, NoLostWakeup, Consistent
<1> QED
  BY <1>1, <1>2, <1>3, <1>4

LEMMA JoinReadyStep ==
  ASSUME IInv, NEW s \in Schedulers, NEW k \in Coros,
         JoinReady(s, k)
  PROVE  IInv'
<1> USE CoroutineQueues, NullAssumption DEF IInv, JoinReady, flags, thread, joins, ends
<1>1. TypeOK'
  BY DEF TypeOK, States, Points, BatchCovered, Consistent
<1>2. Consistent'
  BY DEF TypeOK, Consistent
<1>3. BatchCovered'
  BY DEF TypeOK, BatchCovered, Consistent
<1>4. NoLostWakeup'
  BY DEF TypeOK, NoLostWakeup, Consistent
<1> QED
  BY <1>1, <1>2, <1>3, <1>4

LEMMA MigrateThrowsStep ==
  ASSUME IInv, NEW s \in Schedulers, NEW d \in Schedulers,
         MigrateThrows(s, d)
  PROVE  IInv'
<1> USE CoroutineQueues, NullAssumption DEF IInv, MigrateThrows, flags, joins, ends
<1>1. TypeOK'
  BY DEF TypeOK, States, Points, BatchCovered, Consistent
<1>2. Consistent'
  BY DEF TypeOK, Consistent
<1>3. BatchCovered'
  BY DEF TypeOK, BatchCovered, Consistent
<1>4. NoLostWakeup'
  BY DEF TypeOK, NoLostWakeup, Consistent
<1> QED
  BY <1>1, <1>2, <1>3, <1>4

LEMMA ReturnStep ==
  ASSUME IInv, NEW s \in Schedulers,
         Return(s)
  PROVE  IInv'
<1> USE CoroutineQueues, NullAssumption DEF IInv, Return, Running, Left, flags, joins, ends
<1>1. TypeOK'
  BY DEF TypeOK, States, Points, BatchCovered, Consistent
<1>2. Consistent'
  BY DEF TypeOK, Consistent
<1>3. BatchCovered'
  BY DEF TypeOK, BatchCovered, Consistent
<1>4. NoLostWakeup'
  BY DEF TypeOK, NoLostWakeup, Consistent
<1> QED
  BY <1>1, <1>2, <1>3, <1>4

LEMMA ThrowStep ==
  ASSUME IInv, NEW s \in Schedulers,
         Throw(s)
  PROVE  IInv'
<1> USE CoroutineQueues, NullAssumption DEF IInv, Throw, flags, thread, joins, ends
<1>1. TypeOK'
  BY DEF TypeOK, States, Points, BatchCovered, Consistent
<1>2. Consistent'
  BY DEF TypeOK, Consistent
<1>3. BatchCovered'
  BY DEF TypeOK, BatchCovered, Consistent
<1>4. NoLostWakeup'
  BY DEF TypeOK, NoLostWakeup, Consistent
<1> QED
  BY <1>1, <1>2, <1>3, <1>4
-----------------------------------------------------------------------------
(* Steps that call schedule_().                                            *)

\* What schedule_() does, for any caller: it lengthens one queue, and moves
\* no thread but one that waits for coroutines.
LEMMA ScheduleEffect ==
  ASSUME TypeOK, NEW caller, NEW c \in Coros, NEW d \in Schedulers,
         NEW points \in [Schedulers -> Points],
         Schedule_(caller, c, d, points)
  PROVE  /\ queue' \in [Schedulers -> Seq(Coros)]
         /\ local' \in [Schedulers -> Seq(Coros)]
         /\ waiting_for_coroutines' \in [Schedulers -> BOOLEAN]
         /\ pc' \in [Schedulers -> Points]
         /\ \A x \in Schedulers :
              /\ x # caller => local'[x] = local[x]
              /\ Len(local'[x]) >= Len(local[x])
              /\ pc'[x] = points[x] \/ (points[x] = "waitCoros" /\ pc'[x] = "woken")
              /\ pc'[x] = "waitCoros" /\ x # caller /\ waiting_for_coroutines[x] =>
                   queue'[x] = queue[x] /\ waiting_for_coroutines'[x]
<1> USE CoroutineQueues
<1>1. CASE /\ caller = d
           /\ local' = [local EXCEPT ![d] = Append(@, c)]
           /\ pc' = points
           /\ UNCHANGED <<queue, waiting_for_coroutines>>
  BY <1>1 DEF TypeOK
<1>2. CASE /\ caller # d
           /\ queue' = [queue EXCEPT ![d] = Append(@, c)]
           /\ CoroutinesNotify(d, points)
           /\ UNCHANGED local
  <2>1. /\ queue' \in [Schedulers -> Seq(Coros)]
        /\ local' \in [Schedulers -> Seq(Coros)]
    BY <1>2 DEF TypeOK
  <2>2. /\ waiting_for_coroutines' \in [Schedulers -> BOOLEAN]
        /\ pc' \in [Schedulers -> Points]
    BY <1>2 DEF TypeOK, CoroutinesNotify, Points
  <2>3. \A x \in Schedulers : pc'[x] = points[x] \/ (points[x] = "waitCoros" /\ pc'[x] = "woken")
    BY <1>2 DEF CoroutinesNotify
  <2>4. \A x \in Schedulers :
          pc'[x] = "waitCoros" /\ waiting_for_coroutines[x] =>
            queue'[x] = queue[x] /\ waiting_for_coroutines'[x]
    BY <1>2 DEF CoroutinesNotify, TypeOK
  <2> QED
    BY <1>2, <2>1, <2>2, <2>3, <2>4 DEF TypeOK
<1> QED
  BY <1>1, <1>2 DEF Schedule_

\* The parts of IInv that schedule_() may disturb survive a step of any
\* caller that is not waiting and whose own move stays inside its batch.
LEMMA ScheduleKeeps ==
  ASSUME IInv, NEW caller, NEW c \in Coros, NEW d \in Schedulers,
         NEW points \in [Schedulers -> Points],
         Schedule_(caller, c, d, points),
         \A x \in Schedulers : x # caller => points[x] = pc[x],
         caller \in Schedulers =>
           pc[caller] \in {"batch", "running"} /\ points[caller] \in {"batch", "running"},
         UNCHANGED <<state, waiting_for_resume, count>>
  PROVE  BatchCovered' /\ NoLostWakeup'
<1> USE ScheduleEffect, CoroutineQueues DEF IInv
<1>1. BatchCovered'
  <2> SUFFICES ASSUME NEW x \in Schedulers
               PROVE  IF pc'[x] \in {"batch", "running"}
                      THEN count'[x] <= Len(local'[x]) ELSE local'[x] = <<>>
    BY DEF BatchCovered
  <2>1. CASE x = caller
    <3>1. pc'[x] \in {"batch", "running"}
      BY <2>1, ZenonT(60)
    <3>2. count[x] <= Len(local[x]) /\ Len(local'[x]) >= Len(local[x])
      BY <2>1 DEF BatchCovered
    <3>3. count[x] \in Nat /\ Len(local[x]) \in Nat /\ Len(local'[x]) \in Nat
      BY SMTT(20) DEF TypeOK
    <3> QED
      BY <3>1, <3>2, <3>3
  <2>2. CASE x # caller
    <3>1. local'[x] = local[x] /\ count'[x] = count[x]
      BY <2>2
    <3>2. pc'[x] \in {"batch", "running"} <=> pc[x] \in {"batch", "running"}
      BY <2>2
    <3> QED
      BY <3>1, <3>2 DEF BatchCovered
  <2> QED
    BY <2>1, <2>2
<1>2. NoLostWakeup'
  <2> SUFFICES ASSUME NEW x \in Schedulers
               PROVE  /\ pc'[x] = "waitCoros" =>
                           state'[x] = "executing" /\ queue'[x] = <<>> /\ waiting_for_coroutines'[x]
                      /\ pc'[x] = "waitResume" => state'[x] = "suspended" /\ waiting_for_resume'[x]
    BY DEF NoLostWakeup
  <2>1. CASE x = caller
    BY <2>1
  <2>2. CASE x # caller
    BY <2>2 DEF NoLostWakeup
  <2> QED
    BY <2>1, <2>2
<1> QED
  BY <1>1, <1>2

\* Consistent survives schedule_() when no handle enters or leaves run()'s
\* ownership, or when the handle that left it was done.
LEMMA ScheduleConsistent ==
  ASSUME IInv, NEW caller, NEW c \in Coros, NEW d \in Schedulers,
         Schedule_(caller, c, d, pc),
         UNCHANGED <<running, count>>,
         \A x \in Schedulers : co'[x] = co[x] \/ (pc[x] = "batch" /\ co'[x] = NULL),
         \A p \in parked' : destination'[p] \in Schedulers
  PROVE  Consistent'
<1> USE DEF IInv
<1>1. pc \in [Schedulers -> Points]
  BY DEF TypeOK
<1>2. \A x \in Schedulers : pc'[x] = pc[x] \/ (pc[x] = "waitCoros" /\ pc'[x] = "woken")
  BY <1>1, ScheduleEffect
<1>3. ASSUME NEW x \in Schedulers
      PROVE  /\ running'[x] # NULL <=> pc'[x] = "running"
             /\ pc'[x] = "running" => co'[x] \in {NULL, running'[x]}
             /\ pc'[x] \notin {"batch", "running"} => co'[x] = NULL /\ count'[x] = 0
  <2>1. /\ running[x] # NULL <=> pc[x] = "running"
        /\ pc[x] = "running" => co[x] \in {NULL, running[x]}
        /\ pc[x] \notin {"batch", "running"} => co[x] = NULL /\ count[x] = 0
    BY DEF Consistent
  <2> QED
    BY <1>2, <2>1
<1> QED
  BY <1>3 DEF Consistent

LEMMA SpawnStep ==
  ASSUME IInv, NEW s \in Schedulers, NEW k \in Coros, NEW d \in Schedulers, Spawn(s, k, d)
  PROVE  IInv'
<1> USE DEF IInv, Spawn, Running, ends
<1>1. pc \in [Schedulers -> Points] /\ running[s] \in Coros
  BY DEF TypeOK, Consistent
<1>2. BatchCovered' /\ NoLostWakeup'
  BY <1>1, ScheduleKeeps
<1>3. TypeOK'
  BY <1>1, ScheduleEffect, ZenonT(60) DEF TypeOK
<1>4. \A p \in parked' : destination'[p] \in Schedulers
  BY DEF Consistent
<1>5. Consistent'
  BY <1>4, ScheduleConsistent
<1> QED
  BY <1>2, <1>3, <1>5

LEMMA ThreadScheduleStep ==
  ASSUME IInv, NEW t \in Threads, NEW c \in Coros, NEW d \in Schedulers, ThreadSchedule(t, c, d)
  PROVE  IInv'
<1> USE DEF IInv, ThreadSchedule, ends
<1>1. pc \in [Schedulers -> Points] /\ NULL \notin Schedulers
  BY NullAssumption DEF TypeOK
<1>2. BatchCovered' /\ NoLostWakeup'
  BY <1>1, ScheduleKeeps
<1>3. TypeOK'
  BY <1>1, ScheduleEffect DEF TypeOK
<1>4. \A p \in parked' : destination'[p] \in Schedulers
  BY DEF Consistent
<1>5. Consistent'
  BY <1>4, ScheduleConsistent
<1> QED
  BY <1>2, <1>3, <1>5

LEMMA UnparkKeeps ==
  ASSUME IInv, NEW c \in Coros, Unpark(c)
  PROVE  /\ parked' \in SUBSET Coros
         /\ awaiting' \in [Coros -> Coros \cup {NULL}]
         /\ destination' \in [Coros -> Schedulers \cup {NULL}]
         /\ \A p \in parked' : destination'[p] \in Schedulers
BY DEF IInv, TypeOK, Unpark, Consistent

LEMMA WakeStep ==
  ASSUME IInv, NEW s \in Schedulers, NEW c \in Coros, Wake(s, c)
  PROVE  IInv'
<1> USE DEF IInv, Wake, Running, ends
<1>1. pc \in [Schedulers -> Points] /\ destination[c] \in Schedulers
  BY DEF TypeOK, Consistent
<1>2. BatchCovered' /\ NoLostWakeup'
  BY <1>1, ScheduleKeeps
<1>3. TypeOK'
  BY <1>1, ScheduleEffect, UnparkKeeps DEF TypeOK
<1>4. Consistent'
  BY <1>1, UnparkKeeps, ScheduleConsistent
<1> QED
  BY <1>2, <1>3, <1>4

LEMMA ThreadWakeStep ==
  ASSUME IInv, NEW t \in Threads, NEW c \in Coros, ThreadWake(t, c)
  PROVE  IInv'
<1> USE DEF IInv, ThreadWake, ends
<1>1. pc \in [Schedulers -> Points] /\ destination[c] \in Schedulers /\ NULL \notin Schedulers
  BY NullAssumption DEF TypeOK, Consistent
<1>2. BatchCovered' /\ NoLostWakeup'
  BY <1>1, ScheduleKeeps
<1>3. TypeOK'
  BY <1>1, ScheduleEffect, UnparkKeeps DEF TypeOK
<1>4. Consistent'
  BY <1>1, UnparkKeeps, ScheduleConsistent
<1> QED
  BY <1>2, <1>3, <1>4

LEMMA MigrateStep ==
  ASSUME IInv, NEW s \in Schedulers, NEW d \in Schedulers, Migrate(s, d)
  PROVE  IInv'
<1> USE DEF IInv, Migrate, Running, LeaveResume, joins, ends
<1>1. Left(s) \in [Schedulers -> Points] /\ running[s] \in Coros
  BY DEF TypeOK, Consistent, Left, Points
<1>2. \A x \in Schedulers : Left(s)[x] = IF x = s THEN "batch" ELSE pc[x]
  BY DEF TypeOK, Left
<1>3. BatchCovered' /\ NoLostWakeup'
  BY <1>1, <1>2, ScheduleKeeps
<1>4. TypeOK'
  BY <1>1, ScheduleEffect DEF TypeOK
<1>5. \A x \in Schedulers : x # s =>
        pc'[x] = pc[x] \/ (pc[x] = "waitCoros" /\ pc'[x] = "woken")
  BY <1>1, <1>2, ScheduleEffect
<1>6. pc'[s] = "batch"
  BY <1>1, <1>2, ScheduleEffect
<1>7. Consistent'
  BY <1>5, <1>6 DEF Consistent, TypeOK
<1> QED
  BY <1>3, <1>4, <1>7

LEMMA DestroyDoneStep ==
  ASSUME IInv, NEW s \in Schedulers, DestroyDone(s)
  PROVE  IInv'
<1> USE DEF IInv, DestroyDone
<1>1. /\ pc \in [Schedulers -> Points] /\ co[s] \in Coros
      /\ destroyed' \in SUBSET Coros
      /\ co' \in [Schedulers -> Coros \cup {NULL}]
      /\ \A x \in Schedulers : co'[x] = co[x] \/ (pc[x] = "batch" /\ co'[x] = NULL)
  BY DEF TypeOK
<1>2. CASE UNCHANGED <<queue, waiting_for_coroutines, pc, local, parked, awaiting, destination>>
  <2>1. TypeOK'
    BY <1>1, <1>2 DEF TypeOK
  <2>2. Consistent'
    BY <1>1, <1>2 DEF Consistent
  <2>3. BatchCovered' /\ NoLostWakeup'
    BY <1>2 DEF BatchCovered, NoLostWakeup
  <2> QED
    BY <2>1, <2>2, <2>3
<1>3. ASSUME NEW c \in parked, Schedule_(s, c, destination[c], pc), Unpark(c)
      PROVE  IInv'
  <2>1. c \in Coros /\ destination[c] \in Schedulers
    BY DEF TypeOK, Consistent
  <2>2. BatchCovered' /\ NoLostWakeup'
    BY <1>1, <1>3, <2>1, ScheduleKeeps
  <2>3. TypeOK'
    BY <1>1, <1>3, <2>1, ScheduleEffect, UnparkKeeps DEF TypeOK
  <2>4. Consistent'
    BY <1>1, <1>3, <2>1, UnparkKeeps, ScheduleConsistent
  <2> QED
    BY <2>2, <2>3, <2>4
<1> QED
  BY <1>2, <1>3

-----------------------------------------------------------------------------
(* The remaining steps, and the theorem.                                   *)

LEMMA ThreadScheduleThrowsStep ==
  ASSUME IInv, NEW t \in Threads, NEW c \in Coros, NEW d \in Schedulers,
         ThreadScheduleThrows(t, c, d)
  PROVE  IInv'
BY DEF IInv, TypeOK, Consistent, BatchCovered, NoLostWakeup, ThreadScheduleThrows, flags, thread

LEMMA WakeThrowsStep ==
  ASSUME IInv, NEW caller, NEW c \in Coros, WakeThrows(caller, c)
  PROVE  IInv'
<1> USE DEF IInv, WakeThrows, flags, thread
<1>1. TypeOK'
  BY UnparkKeeps DEF TypeOK
<1>2. Consistent'
  BY UnparkKeeps DEF Consistent
<1>3. BatchCovered' /\ NoLostWakeup'
  BY DEF BatchCovered, NoLostWakeup
<1> QED
  BY <1>1, <1>2, <1>3

LEMMA EvaluateStep ==
  ASSUME IInv, NEW s \in Schedulers, NEW q \in Seq(Coros),
         pc[s] # "running", co[s] = NULL, count[s] = 0, Evaluate(s, q)
  PROVE  IInv'
BY LeaveHaltedStep, WaitForResumeStep, TakeBatchStep, WaitForCoroutinesStep DEF Evaluate

LEMMA LockedStep ==
  ASSUME IInv, NEW s \in Schedulers, Locked(s)
  PROVE  IInv'
<1>1. queue[s] \in Seq(Coros) /\ pc[s] # "running" /\ co[s] = NULL /\ count[s] = 0
  BY DEF IInv, TypeOK, Consistent, Locked
<1> QED
  BY <1>1, EvaluateStep DEF Locked

LEMMA CleanupBatchStep ==
  ASSUME IInv, NEW s \in Schedulers, CleanupBatch(s)
  PROVE  IInv'
<1>1. queue[s] \o local[s] \in Seq(Coros)
  BY ConcatProperties DEF IInv, TypeOK
<1> QED
  BY <1>1, EvaluateStep DEF CleanupBatch

LEMMA Stutter == IInv /\ UNCHANGED vars => IInv'
BY DEF IInv, TypeOK, Consistent, BatchCovered, NoLostWakeup, vars, flags, thread, joins, ends

LEMMA Inductive == IInv /\ [Next]_vars => IInv'
<1> SUFFICES ASSUME IInv, [Next]_vars PROVE IInv'
  OBVIOUS
<1>1. ASSUME NEW s \in Schedulers, RunThread(s) PROVE IInv'
  BY <1>1, LockedStep, DestroyDoneStep, DestroyThrowsStep, ResumeNextStep, CleanupBatchStep
     DEF RunThread
<1>2. ASSUME NEW s \in Schedulers, Relinquish(s) PROVE IInv'
  BY <1>2, YieldStep, BlockStep, ReturnStep, JoinStep, MigrateStep DEF Relinquish
<1>3. ASSUME NEW s \in Schedulers, CoroutineStep(s) PROVE IInv'
  BY <1>2, <1>3, ThrowStep, JoinReadyStep, WakeStep, WakeThrowsStep, SpawnStep, SpawnThrowsStep,
     MigrateThrowsStep DEF CoroutineStep
<1>4. ASSUME NEW s \in Schedulers, Control(s) PROVE IInv'
  BY <1>4, SuspendStep, ResumeStep, HaltStep DEF Control
<1>5. ASSUME NEW t \in Threads, ThreadStep(t) PROVE IInv'
  BY <1>5, ThreadScheduleStep, ThreadScheduleThrowsStep, ThreadWakeStep, WakeThrowsStep
     DEF ThreadStep
<1> QED
  BY <1>1, <1>3, <1>4, <1>5, SpuriousWakeupStep, Stutter DEF Next

LEMMA Invariance == Spec => []IInv
BY Initial, Inductive, PTL DEF Spec

\* Type correctness.
THEOREM TypeCorrect == Spec => []TypeOK
<1>1. IInv => TypeOK
  BY DEF IInv
<1> QED
  BY Invariance, <1>1, PTL

\* No push, suspend, resume or halt leaves run() waiting on a condition
\* variable that should have been notified.
THEOREM WakeupsNotLost == Spec => []NoLostWakeup
<1>1. IInv => NoLostWakeup
  BY DEF IInv
<1> QED
  BY Invariance, <1>1, PTL

\* run() never reads the front of an empty local queue, and never swaps away
\* a local queue that still holds handles.
THEOREM BatchesCovered == Spec => []BatchCovered
<1>1. IInv => BatchCovered
  BY DEF IInv
<1> QED
  BY Invariance, <1>1, PTL

\* The running handle is owned as resume() expects, and a parked coroutine
\* has a scheduler to return to.
THEOREM HandlesConsistent == Spec => []Consistent
<1>1. IInv => Consistent
  BY DEF IInv
<1> QED
  BY Invariance, <1>1, PTL

-----------------------------------------------------------------------------
(* scheduled_count(): batch_size_ is positive exactly while a batch is     *)
(* being executed, and everything else a scheduler has is in its queue.    *)

BatchCounted ==
  \A s \in Schedulers : pc[s] \in {"batch", "running"} => batch_size[s] > 0

LEMMA CountedInit == Init => BatchCounted
BY DEF Init, BatchCounted

LEMMA CountedEvaluate ==
  ASSUME IInv, BatchCounted, NEW s \in Schedulers, NEW q \in Seq(Coros), Evaluate(s, q)
  PROVE  BatchCounted'
<1> USE CoroutineQueues
    DEF IInv, TypeOK, BatchCounted, LeaveHalted, WaitForResume, TakeBatch, WaitForCoroutines
<1>1. CASE LeaveHalted(s, q)
  BY <1>1
<1>2. CASE WaitForResume(s, q)
  BY <1>2
<1>3. CASE TakeBatch(s, q)
  BY <1>3
<1>4. CASE WaitForCoroutines(s, q)
  BY <1>4
<1> QED
  BY <1>1, <1>2, <1>3, <1>4 DEF Evaluate

\* A step that leaves batch_size alone and moves into a batch only a thread
\* that was in it keeps BatchCounted.
LEMMA CountedKept ==
  ASSUME BatchCounted, UNCHANGED batch_size,
         \A s \in Schedulers : pc'[s] \in {"batch", "running"} => pc[s] \in {"batch", "running"}
  PROVE  BatchCounted'
BY DEF BatchCounted

LEMMA CountedStep == IInv /\ BatchCounted /\ [Next]_vars => BatchCounted'
<1> SUFFICES ASSUME IInv, BatchCounted, [Next]_vars PROVE BatchCounted'
  OBVIOUS
<1> USE DEF IInv, flags, thread, joins, ends
<1>1. pc \in [Schedulers -> Points] /\ NULL \notin Schedulers
  BY NullAssumption DEF TypeOK
<1>2. ASSUME NEW s \in Schedulers, Locked(s) \/ CleanupBatch(s) PROVE BatchCounted'
  <2>1. queue[s] \in Seq(Coros) /\ queue[s] \o local[s] \in Seq(Coros)
    BY ConcatProperties DEF TypeOK
  <2> QED
    BY <1>2, <2>1, CountedEvaluate DEF Locked, CleanupBatch
<1>3. ASSUME NEW s \in Schedulers, DestroyDone(s) \/ DestroyThrows(s) \/ ResumeNext(s)
      PROVE  BatchCounted'
  <2>1. CASE DestroyDone(s)
    BY <1>1, <2>1, CountedKept DEF DestroyDone, Schedule_, CoroutinesNotify
  <2>2. CASE DestroyThrows(s)
    BY <2>2, CountedKept DEF DestroyThrows
  <2>3. CASE ResumeNext(s)
    BY <1>1, <2>3, CountedKept DEF ResumeNext
  <2> QED
    BY <1>3, <2>1, <2>2, <2>3
<1>4. ASSUME NEW s \in Schedulers, NEW k \in Coros, NEW d \in Schedulers,
             Spawn(s, k, d) \/ SpawnThrows(s, k, d)
      PROVE  BatchCounted'
  BY <1>1, <1>4, CountedKept
     DEF Spawn, SpawnThrows, Running, Schedule_, CoroutinesNotify
<1>5. ASSUME NEW s \in Schedulers, NEW k \in Coros,
             Wake(s, k) \/ Join(s, k) \/ JoinReady(s, k)
      PROVE  BatchCounted'
  BY <1>1, <1>5, CountedKept
     DEF Wake, Join, Park, JoinReady, Running, Left, Schedule_, CoroutinesNotify
<1>6. ASSUME NEW s \in Schedulers, NEW d \in Schedulers,
             \/ Yield(s) \/ Block(s) \/ Return(s) \/ Throw(s)
             \/ Migrate(s, d) \/ MigrateThrows(s, d)
      PROVE  BatchCounted'
  BY <1>1, <1>6, CountedKept
     DEF Yield, Block, Return, Park, Throw, Migrate, MigrateThrows, Running, Left, Schedule_,
         CoroutinesNotify
<1>7. ASSUME NEW caller, NEW c \in Coros, WakeThrows(caller, c) PROVE BatchCounted'
  BY <1>7, CountedKept DEF WakeThrows
<1>8. ASSUME NEW s \in Schedulers, SpuriousWakeup(s) \/ Control(s) PROVE BatchCounted'
  BY <1>1, <1>8, CountedKept
     DEF SpuriousWakeup, Control, Suspend_, Resume_, Halt_, CoroutinesNotify
<1>9. ASSUME NEW t \in Threads, NEW c \in Coros, NEW d \in Schedulers,
             ThreadSchedule(t, c, d) \/ ThreadScheduleThrows(t, c, d)
      PROVE  BatchCounted'
  BY <1>1, <1>9, CountedKept
     DEF ThreadSchedule, ThreadScheduleThrows, Schedule_, CoroutinesNotify
<1>14. ASSUME NEW t \in Threads, NEW c \in Coros, ThreadWake(t, c) PROVE BatchCounted'
  BY <1>1, <1>14, CountedKept DEF ThreadWake, Schedule_, CoroutinesNotify
<1>10. CASE UNCHANGED vars
  BY <1>10, CountedKept DEF vars
<1>11. ASSUME NEW s \in Schedulers, RunThread(s) PROVE BatchCounted'
  BY <1>2, <1>3, <1>11 DEF RunThread
<1>12. ASSUME NEW s \in Schedulers, CoroutineStep(s) PROVE BatchCounted'
  BY <1>4, <1>5, <1>6, <1>7, <1>12 DEF CoroutineStep, Relinquish
<1>13. ASSUME NEW t \in Threads, ThreadStep(t) PROVE BatchCounted'
  BY <1>7, <1>9, <1>13, <1>14 DEF ThreadStep
<1> QED
  BY <1>8, <1>10, <1>11, <1>12, <1>13 DEF Next

\* A scheduler whose scheduled_count() is 0 has no coroutine queued,
\* executing, or done and not yet destroyed.
THEOREM CountNeverMissesWork == Spec => []CountSeesWork
<1>1. IInv /\ BatchCounted => CountSeesWork
  <2> SUFFICES ASSUME IInv, BatchCounted, NEW s \in Schedulers, scheduled_count(s) = 0
               PROVE  co[s] = NULL /\ running[s] = NULL /\ \A c \in Coros : ~Queued(c, s)
    BY DEF CountSeesWork
  <2>1. batch_size[s] = 0 /\ queue[s] = <<>>
    BY CoroutineQueues DEF scheduled_count, IInv, TypeOK
  <2>2. pc[s] \notin {"batch", "running"}
    BY <2>1 DEF BatchCounted
  <2>3. local[s] = <<>> /\ co[s] = NULL /\ running[s] = NULL
    BY <2>2 DEF IInv, BatchCovered, Consistent
  <2> QED
    BY <2>1, <2>3 DEF Queued, ToSet
<1>2. Spec => []BatchCounted
  BY Invariance, CountedInit, CountedStep, PTL DEF Spec
<1> QED
  BY Invariance, <1>1, <1>2, PTL

-----------------------------------------------------------------------------
(* Batches.                                                                *)

LEMMA BatchFacts ==
  ASSUME NEW q \in Seq(Coros), NEW n \in Nat, n <= Len(q)
  PROVE  /\ n = 0 => SubSeq(q, 1, n) = <<>>
         /\ \A c \in Coros : SubSeq(Append(q, c), 1, n) = SubSeq(q, 1, n)
         /\ n > 0 => /\ SubSeq(q, 1, n) # <<>>
                     /\ SubSeq(Tail(q), 1, n - 1) = Tail(SubSeq(q, 1, n))
<1>1. n = 0 => SubSeq(q, 1, n) = <<>>
  BY SubSeqEmpty
<1>2. ASSUME NEW c \in Coros
      PROVE  SubSeq(Append(q, c), 1, n) = SubSeq(q, 1, n)
  OBVIOUS
<1>3. ASSUME n > 0
      PROVE  SubSeq(q, 1, n) # <<>> /\ SubSeq(Tail(q), 1, n - 1) = Tail(SubSeq(q, 1, n))
  BY <1>3
<1> QED
  BY <1>1, <1>2, <1>3

\* What BatchIsFixed allows of one scheduler.
BatchMove(s) ==
  \/ Batch(s)' = Batch(s)
  \/ Batch(s) # <<>> /\ Batch(s)' = Tail(Batch(s))
  \/ Batch(s) = <<>> /\ state[s] = "executing"

LEMMA BatchSize ==
  ASSUME IInv, NEW s \in Schedulers
  PROVE  /\ local[s] \in Seq(Coros) /\ count[s] \in Nat /\ count[s] <= Len(local[s])
         /\ count[s] = 0 => Batch(s) = <<>>
<1>1. local[s] \in Seq(Coros) /\ count[s] \in Nat /\ count[s] <= Len(local[s])
  BY CoroutineQueues DEF IInv, TypeOK, BatchCovered, Consistent
<1> QED
  BY <1>1, BatchFacts DEF Batch

\* A step that at most appends to local queues leaves every batch as it is.
LEMMA BatchAppend ==
  ASSUME IInv, count' = count, NEW d \in Schedulers, NEW c \in Coros,
         local' = local \/ local' = [local EXCEPT ![d] = Append(@, c)],
         NEW s \in Schedulers
  PROVE  BatchMove(s)
<1>1. local[s] \in Seq(Coros) /\ count[s] \in Nat /\ count[s] <= Len(local[s])
  BY BatchSize
<1>2. local'[s] = local[s] \/ local'[s] = Append(local[s], c)
  BY DEF IInv, TypeOK
<1> QED
  BY <1>1, <1>2, BatchFacts DEF BatchMove, Batch

LEMMA BatchUntouched ==
  ASSUME local' = local, count' = count, NEW s
  PROVE  BatchMove(s)
BY DEF BatchMove, Batch

\* Under the lock a batch is over, and only an executing scheduler takes another.
LEMMA BatchEvaluate ==
  ASSUME IInv, NEW t \in Schedulers, NEW q, Evaluate(t, q), count[t] = 0,
         NEW s \in Schedulers
  PROVE  BatchMove(s)
<1>1. CASE s # t
  BY <1>1 DEF IInv, TypeOK, Evaluate, LeaveHalted, WaitForResume, TakeBatch, WaitForCoroutines,
              BatchMove, Batch
<1>2. CASE s = t
  <2>1. Batch(s) = <<>>
    BY <1>2, BatchSize
  <2>2. CASE TakeBatch(t, q)
    BY <1>2, <2>1, <2>2 DEF TakeBatch, BatchMove
  <2>3. CASE LeaveHalted(t, q) \/ WaitForResume(t, q) \/ WaitForCoroutines(t, q)
    <3>1. count'[s] = 0 /\ local'[s] = <<>>
      BY <1>2, <2>3 DEF LeaveHalted, WaitForResume, WaitForCoroutines, IInv, TypeOK
    <3>2. SubSeq(<<>>, 1, 0) = <<>>
      BY EmptyQueue, BatchFacts
    <3> QED
      BY <2>1, <3>1, <3>2 DEF BatchMove, Batch
  <2> QED
    BY <2>2, <2>3 DEF Evaluate
<1> QED
  BY <1>1, <1>2

LEMMA BatchResume ==
  ASSUME IInv, NEW t \in Schedulers, ResumeNext(t), NEW s \in Schedulers
  PROVE  BatchMove(s)
<1>1. CASE s # t
  BY <1>1 DEF IInv, TypeOK, ResumeNext, BatchMove, Batch
<1>2. CASE s = t
  <2>1. local'[s] = Tail(local[s]) /\ count'[s] = count[s] - 1 /\ count[s] > 0
    BY <1>2 DEF IInv, TypeOK, ResumeNext
  <2> QED
    BY <2>1, BatchSize, BatchFacts DEF BatchMove, Batch
<1> QED
  BY <1>1, <1>2

LEMMA BatchStep == IInv /\ [Next]_vars => [\A s \in Schedulers : BatchMove(s)]_vars
<1> SUFFICES ASSUME IInv, Next, NEW s \in Schedulers PROVE BatchMove(s)
  OBVIOUS
<1>1. \A t \in Schedulers :
        (pc[t] \in {"start", "woken"} => count[t] = 0) /\ (Running(t) => running[t] \in Coros)
  BY DEF IInv, TypeOK, Consistent, Running
<1>2. ASSUME NEW t \in Schedulers, RunThread(t)
      PROVE  BatchMove(s)
  <2>1. CASE Locked(t) \/ CleanupBatch(t)
    BY <1>1, <2>1, BatchEvaluate DEF Locked, CleanupBatch
  <2>2. CASE DestroyDone(t)
    <3>1. CASE local' = local
      BY <2>2, <3>1, BatchUntouched DEF DestroyDone
    <3>2. ASSUME NEW c \in parked, Schedule_(t, c, destination[c], pc)
          PROVE  BatchMove(s)
      <4>1. c \in Coros /\ destination[c] \in Schedulers
        BY DEF IInv, TypeOK, Consistent
      <4>2. local' = local \/ local' = [local EXCEPT ![destination[c]] = Append(@, c)]
        BY <3>2 DEF Schedule_
      <4> QED
        BY <2>2, <4>1, <4>2, BatchAppend DEF DestroyDone
    <3> QED
      BY <2>2, <3>1, <3>2 DEF DestroyDone
  <2>3. CASE DestroyThrows(t)
    BY <2>3, BatchUntouched DEF DestroyThrows, thread
  <2>4. CASE ResumeNext(t)
    BY <2>4, BatchResume
  <2> QED
    BY <1>2, <2>1, <2>2, <2>3, <2>4 DEF RunThread
<1>3. ASSUME NEW t \in Schedulers, SpuriousWakeup(t) \/ Control(t)
      PROVE  BatchMove(s)
  BY <1>3, BatchUntouched DEF SpuriousWakeup, Control, Suspend_, Resume_, Halt_
<1>4. ASSUME NEW t, NEW c \in Coros, NEW d \in Schedulers, NEW points, Schedule_(t, c, d, points), count' = count
      PROVE  BatchMove(s)
  BY <1>4, BatchAppend DEF Schedule_
<1>5. ASSUME NEW t, NEW c \in Coros, Wake(t, c) \/ ThreadWake(t, c) \/ WakeThrows(t, c)
      PROVE  BatchMove(s)
  <2>1. destination[c] \in Schedulers
    BY <1>5 DEF Wake, ThreadWake, WakeThrows, IInv, Consistent
  <2> QED
    BY <1>4, <1>5, <2>1, BatchUntouched DEF Wake, ThreadWake, WakeThrows, thread
<1>6. ASSUME NEW t \in Schedulers, CoroutineStep(t)
      PROVE  BatchMove(s)
  <2>1. CASE Yield(t)
    <3>1. running[t] \in Coros
      BY <1>1, <2>1 DEF Yield
    <3> QED
      BY <2>1, <3>1, BatchAppend DEF Yield
  <2>2. ASSUME NEW k \in Coros, Join(t, k) \/ JoinReady(t, k)
        PROVE  BatchMove(s)
    BY <2>2, BatchUntouched DEF Join, Park, JoinReady, thread
  <2>3. CASE Block(t) \/ Return(t) \/ Throw(t)
    BY <2>3, BatchUntouched DEF Block, Park, Return, Throw, thread
  <2>4. ASSUME NEW d \in Schedulers, Migrate(t, d)
        PROVE  BatchMove(s)
    BY <1>1, <1>4, <2>4 DEF Migrate
  <2>5. ASSUME NEW k \in Coros, NEW d \in Schedulers, Spawn(t, k, d)
        PROVE  BatchMove(s)
    BY <1>4, <2>5 DEF Spawn
  <2>6. ASSUME NEW k \in Coros, NEW d \in Schedulers, SpawnThrows(t, k, d)
        PROVE  BatchMove(s)
    BY <2>6, BatchUntouched DEF SpawnThrows, thread
  <2>7. ASSUME NEW d \in Schedulers, MigrateThrows(t, d)
        PROVE  BatchMove(s)
    BY <2>7, BatchUntouched DEF MigrateThrows
  <2> QED
    BY <1>5, <1>6, <2>1, <2>2, <2>3, <2>4, <2>5, <2>6, <2>7 DEF CoroutineStep, Relinquish
<1>7. ASSUME NEW t \in Threads, ThreadStep(t)
      PROVE  BatchMove(s)
  <2>1. ASSUME NEW c \in Coros, NEW d \in Schedulers, ThreadSchedule(t, c, d) \/ ThreadScheduleThrows(t, c, d)
        PROVE  BatchMove(s)
    BY <1>4, <2>1, BatchUntouched DEF ThreadSchedule, ThreadScheduleThrows, thread
  <2> QED
    BY <1>5, <1>7, <2>1 DEF ThreadStep
<1> QED
  BY <1>2, <1>3, <1>6, <1>7 DEF Next

\* Nothing joins or overtakes in a batch that executes, and after suspend_() or
\* halt_() nothing runs but the rest of it, for any number of coroutines.
THEOREM BatchesAreFixed == Spec => BatchIsFixed
<1>1. IInv /\ [Next]_vars =>
        [\A s \in Schedulers :
           \/ Batch(s)' = Batch(s)
           \/ Batch(s) # <<>> /\ Batch(s)' = Tail(Batch(s))
           \/ Batch(s) = <<>> /\ state[s] = "executing"]_vars
  BY BatchStep DEF BatchMove
<1> QED
  BY <1>1, Invariance, PTL DEF Spec, BatchIsFixed

-----------------------------------------------------------------------------
(* Who owns a coroutine.                                                   *)

Places0 == {"new", "queue", "local", "running", "done", "blocked", "lost", "destroyed"}

At(c, k, s) ==
  /\ k \in Places0
  /\ IF k \in {"new", "lost", "destroyed"} THEN s = NULL ELSE s \in Schedulers
  /\ \A t \in Schedulers :
       /\ c \in ToSet(queue[t]) <=> k = "queue" /\ t = s
       /\ c \in ToSet(local[t]) <=> k = "local" /\ t = s
       /\ running[t] = c <=> k = "running" /\ t = s
       /\ co[t] = c => k \in {"running", "done"} /\ t = s
       /\ k = "done" /\ t = s => co[t] = c
  /\ c \in scheduled <=> k # "new"
  /\ c \in parked <=> k = "blocked"
  /\ k = "blocked" => destination[c] = s
  /\ c \in lost <=> k = "lost"
  /\ c \in destroyed <=> k = "destroyed"

Distinct == \A s \in Schedulers : IsInjective(queue[s]) /\ IsInjective(local[s])
Placed == \A c \in Coros : \E k, s : At(c, k, s)

\* The stage of the contract.
StageOf(k) == IF k \in {"queue", "local"} THEN "ready" ELSE k

\* A step that leaves c where it is, as the contract sees it.
Stays(c) == \A k, s : At(c, k, s) => \E j : At(c, j, s)' /\ StageOf(j) = StageOf(k)

\* A step that moves c, and nothing else.
Moves(c, k, s, k2, s2) ==
  /\ At(c, k, s) /\ At(c, k2, s2)'
  /\ \A e \in Coros : e # c => Stays(e)
  /\ Distinct'

StaysAll == (\A e \in Coros : Stays(e)) /\ Distinct'

OwnInv == IInv /\ Placed /\ Distinct

LEMMA OwnInit == Init => Placed /\ Distinct
<1> SUFFICES ASSUME Init PROVE Placed /\ Distinct
  OBVIOUS
<1>1. ToSet(<<>>) = {} /\ IsInjective(<<>>)
  BY DEF ToSet, IsInjective
<1>2. \A c \in Coros : At(c, "new", NULL)
  BY <1>1, NullAssumption DEF Init, At, Places0
<1> QED
  BY <1>1, <1>2 DEF Init, Placed, Distinct

LEMMA MovesPlaced ==
  ASSUME Placed, NEW c \in Coros, NEW k, NEW s, NEW k2, NEW s2, Moves(c, k, s, k2, s2)
  PROVE  Placed' /\ Distinct'
<1>1. ASSUME NEW e \in Coros
      PROVE  \E j, t : At(e, j, t)'
  <2>1. CASE e = c
    BY <2>1 DEF Moves
  <2>2. CASE e # c
    BY <2>2 DEF Moves, Stays, Placed
  <2> QED
    BY <2>1, <2>2
<1> QED
  BY <1>1 DEF Placed, Moves

LEMMA StaysPlaced ==
  ASSUME Placed, StaysAll
  PROVE  Placed' /\ Distinct'
<1>1. ASSUME NEW e \in Coros
      PROVE  \E j, t : At(e, j, t)'
  BY DEF StaysAll, Stays, Placed
<1> QED
  BY <1>1 DEF Placed, StaysAll

\* Where only e's own entries matter.
SameAt(e) ==
  /\ \A t \in Schedulers :
       /\ e \in ToSet(queue'[t]) <=> e \in ToSet(queue[t])
       /\ e \in ToSet(local'[t]) <=> e \in ToSet(local[t])
       /\ running'[t] = e <=> running[t] = e
       /\ co'[t] = e <=> co[t] = e
  /\ e \in scheduled' <=> e \in scheduled
  /\ e \in parked' <=> e \in parked
  /\ destination'[e] = destination[e]
  /\ e \in lost' <=> e \in lost
  /\ e \in destroyed' <=> e \in destroyed

LEMMA SameStays ==
  ASSUME NEW e, SameAt(e)
  PROVE  Stays(e)
<1>1. ASSUME NEW k, NEW s, At(e, k, s)
      PROVE  At(e, k, s)'
  BY <1>1 DEF SameAt, At
<1> QED
  BY <1>1 DEF Stays

-----------------------------------------------------------------------------
(* schedule_() and the lists.                                              *)

\* The lists after c has been appended to the list `kind' of d.
Appended(c, kind, d) ==
  /\ \A t \in Schedulers, e \in Coros :
       /\ e \in ToSet(queue'[t]) <=> e \in ToSet(queue[t]) \/ (e = c /\ kind = "queue" /\ t = d)
       /\ e \in ToSet(local'[t]) <=> e \in ToSet(local[t]) \/ (e = c /\ kind = "local" /\ t = d)
  /\ Distinct'

LEMMA ScheduleAppends ==
  ASSUME TypeOK, Distinct, NEW caller, NEW c \in Coros, NEW d \in Schedulers, NEW points,
         Schedule_(caller, c, d, points),
         c \notin ToSet(queue[d]) /\ c \notin ToSet(local[d])
  PROVE  \E kind \in {"queue", "local"} : Appended(c, kind, d)
<1>1. /\ queue[d] \in Seq(Coros) /\ local[d] \in Seq(Coros)
      /\ IsInjective(queue[d]) /\ IsInjective(local[d])
  BY DEF TypeOK, Distinct
<1>2. /\ ToSet(Append(queue[d], c)) = ToSet(queue[d]) \cup {c} /\ IsInjective(Append(queue[d], c))
      /\ ToSet(Append(local[d], c)) = ToSet(local[d]) \cup {c} /\ IsInjective(Append(local[d], c))
  BY <1>1, ElementFacts, DistinctFacts
<1>3. CASE local' = [local EXCEPT ![d] = Append(@, c)] /\ queue' = queue
  <2>1. Appended(c, "local", d)
    BY <1>2, <1>3 DEF TypeOK, Distinct, Appended
  <2> QED
    BY <2>1
<1>4. CASE queue' = [queue EXCEPT ![d] = Append(@, c)] /\ local' = local
  <2>1. Appended(c, "queue", d)
    BY <1>2, <1>4 DEF TypeOK, Distinct, Appended
  <2> QED
    BY <2>1
<1> QED
  BY <1>3, <1>4 DEF Schedule_

-----------------------------------------------------------------------------
(* The actions of run().                                                   *)

\* Evaluate moves coroutines between the lists of one scheduler at most.
LEMMA EvaluateMoves ==
  ASSUME OwnInv, NEW s \in Schedulers, NEW q \in Seq(Coros),
         Evaluate(s, q), co[s] = NULL,
         IsInjective(q), ToSet(q) = ToSet(queue[s]) \cup ToSet(local[s])
  PROVE  StaysAll
<1>1. /\ co' = co /\ running' = running
      /\ UNCHANGED <<joins, ends>>
      /\ \/ queue' = [queue EXCEPT ![s] = q] /\ local' = [local EXCEPT ![s] = <<>>]
         \/ queue' = [queue EXCEPT ![s] = <<>>] /\ local' = [local EXCEPT ![s] = q]
  <2>1. co' = co
    <3>1. CASE co' = [co EXCEPT ![s] = NULL]
      BY <3>1 DEF OwnInv, IInv, TypeOK
    <3> QED
      BY <3>1 DEF Evaluate, LeaveHalted, WaitForResume, TakeBatch, WaitForCoroutines
  <2> QED
    BY <2>1 DEF Evaluate, LeaveHalted, WaitForResume, TakeBatch, WaitForCoroutines
<1>2. ToSet(<<>>) = {} /\ IsInjective(<<>>)
  BY DEF ToSet, IsInjective
<1>3. Distinct'
  BY <1>1, <1>2 DEF OwnInv, IInv, TypeOK, Distinct
<1>4. ASSUME NEW e \in Coros, NEW k, NEW t, At(e, k, t)
      PROVE  \E j : At(e, j, t)' /\ StageOf(j) = StageOf(k)
  <2> USE DEF joins, ends
  <2>1. CASE k \in {"queue", "local"} /\ t = s
    <3>1. CASE queue' = [queue EXCEPT ![s] = q] /\ local' = [local EXCEPT ![s] = <<>>]
      <4>1. At(e, "queue", t)'
        BY <1>1, <1>2, <1>4, <2>1, <3>1 DEF At, Places0, OwnInv, IInv, TypeOK
      <4> QED
        BY <2>1, <4>1 DEF StageOf
    <3>2. CASE queue' = [queue EXCEPT ![s] = <<>>] /\ local' = [local EXCEPT ![s] = q]
      <4>1. At(e, "local", t)'
        BY <1>1, <1>2, <1>4, <2>1, <3>2 DEF At, Places0, OwnInv, IInv, TypeOK
      <4> QED
        BY <2>1, <4>1 DEF StageOf
    <3> QED
      BY <1>1, <3>1, <3>2
  <2>2. CASE ~(k \in {"queue", "local"} /\ t = s)
    <3>1. e \notin ToSet(queue[s]) /\ e \notin ToSet(local[s])
      BY <1>4, <2>2 DEF At
    <3>2. At(e, k, t)'
      BY <1>1, <1>2, <1>4, <2>2, <3>1, ZenonT(60) DEF At, Places0, OwnInv, IInv, TypeOK
    <3> QED
      BY <3>2
  <2> QED
    BY <2>1, <2>2
<1> QED
  BY <1>3, <1>4 DEF StaysAll, Stays

LEMMA LockedStays ==
  ASSUME OwnInv, NEW s \in Schedulers, Locked(s) \/ CleanupBatch(s)
  PROVE  StaysAll
<1>1. /\ queue[s] \in Seq(Coros) /\ local[s] \in Seq(Coros)
      /\ IsInjective(queue[s]) /\ IsInjective(local[s])
  BY DEF OwnInv, IInv, TypeOK, Distinct
<1>2. CASE Locked(s)
  <2>1. co[s] = NULL /\ local[s] = <<>> /\ ToSet(<<>>) = {}
    BY <1>2 DEF Locked, OwnInv, IInv, Consistent, BatchCovered, ToSet
  <2> QED
    BY <1>1, <1>2, <2>1, EvaluateMoves DEF Locked
<1>3. CASE CleanupBatch(s)
  <2>1. ToSet(queue[s]) \cap ToSet(local[s]) = {}
    <3> SUFFICES ASSUME NEW e \in ToSet(queue[s]), e \in ToSet(local[s]) PROVE FALSE
      OBVIOUS
    <3>1. e \in Coros
      BY <1>1, ElementFacts
    <3>2. PICK k, t : At(e, k, t)
      BY <3>1 DEF OwnInv, Placed
    <3> QED
      BY <3>2 DEF At
  <2>2. /\ queue[s] \o local[s] \in Seq(Coros)
        /\ IsInjective(queue[s] \o local[s])
        /\ ToSet(queue[s] \o local[s]) = ToSet(queue[s]) \cup ToSet(local[s])
    BY <1>1, <2>1, ConcatFacts
  <2> QED
    BY <1>3, <2>2, EvaluateMoves DEF CleanupBatch
<1> QED
  BY <1>2, <1>3

\* Nothing is moved by the steps that change none of the places.
LEMMA UnmovedStays ==
  ASSUME OwnInv, UNCHANGED <<queue, local, running, scheduled, parked, destination, lost, destroyed>>,
         UNCHANGED co
  PROVE  StaysAll
<1>1. \A e \in Coros : SameAt(e)
  BY DEF SameAt
<1>2. \A e \in Coros : Stays(e)
  BY <1>1, SameStays
<1> QED
  BY <1>2 DEF StaysAll, OwnInv, Distinct

LEMMA ControlStays ==
  ASSUME OwnInv, NEW s \in Schedulers, Control(s) \/ SpuriousWakeup(s)
  PROVE  StaysAll
BY UnmovedStays DEF Control, Suspend_, Resume_, Halt_, SpuriousWakeup, joins, ends

LEMMA AbortStays ==
  ASSUME OwnInv, NEW s \in Schedulers, NEW k, NEW d,
         DestroyThrows(s) \/ SpawnThrows(s, k, d) \/ Throw(s) \/ JoinReady(s, k)
  PROVE  StaysAll
BY UnmovedStays DEF DestroyThrows, SpawnThrows, Throw, JoinReady, thread, joins, ends

\* A refused migration leaves the coroutine running, without its handle.
LEMMA MigrateThrowsStays ==
  ASSUME OwnInv, NEW s \in Schedulers, NEW d \in Schedulers, MigrateThrows(s, d)
  PROVE  StaysAll
<1>1. /\ pc[s] = "running" /\ running[s] \in Coros /\ co[s] \in {NULL, running[s]}
      /\ co' = [co EXCEPT ![s] = NULL]
      /\ UNCHANGED <<queue, local, running, joins, ends>>
  BY DEF MigrateThrows, Running, OwnInv, IInv, TypeOK, Consistent
<1>2. ASSUME NEW e \in Coros, NEW k, NEW t, At(e, k, t)
      PROVE  At(e, k, t)'
  <2>1. e = running[s] => k = "running" /\ t = s
    BY <1>2 DEF At
  <2> QED
    BY <1>1, <1>2, <2>1, NullAssumption DEF At, OwnInv, IInv, TypeOK, joins, ends
<1> QED
  BY <1>1, <1>2 DEF StaysAll, Stays, OwnInv, Distinct

LEMMA ResumeNextMoves ==
  ASSUME OwnInv, NEW s \in Schedulers, ResumeNext(s), NEW c, c = Head(local[s])
  PROVE  c \in Coros /\ Moves(c, "local", s, "running", s) /\ running[s] = NULL
<1>1. /\ local[s] \in Seq(Coros) /\ IsInjective(local[s]) /\ local[s] # <<>>
      /\ running[s] = NULL /\ co[s] = NULL
  <2>1. local[s] \in Seq(Coros) /\ count[s] \in Nat /\ count[s] <= Len(local[s]) /\ count[s] > 0
    BY DEF ResumeNext, OwnInv, IInv, TypeOK, BatchCovered
  <2>2. local[s] # <<>>
    BY <2>1, CoroutineQueues
  <2>3. running[s] = NULL /\ co[s] = NULL
    BY DEF ResumeNext, OwnInv, IInv, Consistent
  <2> QED
    BY <2>1, <2>2, <2>3 DEF OwnInv, Distinct
<1>2. /\ c \in Coros /\ c # NULL
      /\ ToSet(local[s]) = ToSet(Tail(local[s])) \cup {c} /\ c \notin ToSet(Tail(local[s]))
      /\ IsInjective(Tail(local[s]))
  BY <1>1, CoroutineQueues, ElementFacts, DistinctFacts, NullAssumption
<1>3. /\ co' = [co EXCEPT ![s] = c] /\ running' = [running EXCEPT ![s] = c]
      /\ local' = [local EXCEPT ![s] = Tail(local[s])]
      /\ UNCHANGED <<queue, joins, ends>>
  BY DEF ResumeNext
<1>4. Distinct'
  BY <1>2, <1>3 DEF OwnInv, IInv, TypeOK, Distinct
<1>5. At(c, "local", s)
  <2>1. PICK k, t : At(c, k, t)
    BY <1>2 DEF OwnInv, Placed
  <2> QED
    BY <1>2, <2>1 DEF At
<1>6. At(c, "running", s)'
  BY <1>1, <1>2, <1>3, <1>5 DEF At, Places0, OwnInv, IInv, TypeOK, joins, ends
<1>7. ASSUME NEW e \in Coros, e # c
      PROVE  Stays(e)
  <2>1. SameAt(e)
    BY <1>1, <1>2, <1>3, <1>7, NullAssumption DEF SameAt, OwnInv, IInv, TypeOK, joins, ends
  <2> QED
    BY <2>1, SameStays
<1> QED
  BY <1>1, <1>2, <1>4, <1>5, <1>6, <1>7 DEF Moves

-----------------------------------------------------------------------------
(* Coroutines that are scheduled.                                          *)

LEMMA PlaceOf ==
  ASSUME Placed, NEW c \in Coros
  PROVE  /\ c \notin scheduled => At(c, "new", NULL)
         /\ c \in parked => At(c, "blocked", destination[c]) /\ c \in scheduled
         /\ \A s \in Schedulers : running[s] = c => At(c, "running", s)
         /\ \A s \in Schedulers : co[s] = c /\ running[s] # c => At(c, "done", s)
<1>1. PICK k, t : At(c, k, t)
  BY DEF Placed
<1> QED
  BY <1>1 DEF At, Places0

\* A new coroutine is accepted.
LEMMA AcceptMoves ==
  ASSUME OwnInv, NEW caller, NEW c \in Coros, NEW d \in Schedulers, c \notin scheduled,
         scheduled' = scheduled \cup {c}, Schedule_(caller, c, d, pc),
         UNCHANGED <<co, running, parked, destination, ends>>
  PROVE  \E kind \in {"queue", "local"} : Moves(c, "new", NULL, kind, d)
<1>1. At(c, "new", NULL)
  BY PlaceOf DEF OwnInv
<1>2. PICK kind \in {"queue", "local"} : Appended(c, kind, d)
  <2>1. c \notin ToSet(queue[d]) /\ c \notin ToSet(local[d])
    BY <1>1 DEF At
  <2> QED
    BY <2>1, ScheduleAppends DEF OwnInv, IInv
<1>3. At(c, kind, d)'
  BY <1>1, <1>2 DEF At, Places0, Appended, ends
<1>4. ASSUME NEW e \in Coros, e # c
      PROVE  Stays(e)
  <2>1. SameAt(e)
    BY <1>2, <1>4 DEF SameAt, Appended, ends
  <2> QED
    BY <2>1, SameStays
<1> QED
  BY <1>1, <1>2, <1>3, <1>4 DEF Moves, Appended

\* A parked coroutine is resumed.
LEMMA WakeMoves ==
  ASSUME OwnInv, NEW caller, NEW c \in Coros, c \in parked, NEW d, d = destination[c],
         Schedule_(caller, c, d, pc), Unpark(c),
         UNCHANGED <<co, running, scheduled, ends>>
  PROVE  /\ d \in Schedulers
         /\ \E kind \in {"queue", "local"} : Moves(c, "blocked", d, kind, d)
<1>1. At(c, "blocked", d) /\ d \in Schedulers
  BY PlaceOf DEF OwnInv, At
<1>2. PICK kind \in {"queue", "local"} : Appended(c, kind, d)
  <2>1. c \notin ToSet(queue[d]) /\ c \notin ToSet(local[d])
    BY <1>1 DEF At
  <2> QED
    BY <1>1, <2>1, ScheduleAppends DEF OwnInv, IInv
<1>3. /\ parked' = parked \ {c} /\ \A e \in Coros : e # c => destination'[e] = destination[e]
  BY DEF Unpark, OwnInv, IInv, TypeOK
<1>4. At(c, kind, d)'
  BY <1>1, <1>2, <1>3 DEF At, Places0, Appended, ends
<1>5. ASSUME NEW e \in Coros, e # c
      PROVE  Stays(e)
  <2>1. SameAt(e)
    BY <1>2, <1>3, <1>5 DEF SameAt, Appended, ends
  <2> QED
    BY <2>1, SameStays
<1> QED
  BY <1>1, <1>2, <1>4, <1>5 DEF Moves, Appended

LEMMA WakeThrowsMoves ==
  ASSUME OwnInv, NEW caller, NEW c \in Coros, WakeThrows(caller, c)
  PROVE  Moves(c, "blocked", destination[c], "lost", NULL)
<1>1. At(c, "blocked", destination[c])
  BY PlaceOf DEF OwnInv, WakeThrows
<1>2. /\ parked' = parked \ {c} /\ \A e \in Coros : e # c => destination'[e] = destination[e]
      /\ lost' = lost \cup {c}
      /\ UNCHANGED <<queue, local, running, co, scheduled, destroyed>>
  BY DEF WakeThrows, Unpark, thread, OwnInv, IInv, TypeOK
<1>3. At(c, "lost", NULL)'
  BY <1>1, <1>2 DEF At, Places0
<1>4. ASSUME NEW e \in Coros, e # c
      PROVE  Stays(e)
  <2>1. SameAt(e)
    BY <1>2, <1>4 DEF SameAt
  <2> QED
    BY <2>1, SameStays
<1> QED
  BY <1>1, <1>2, <1>3, <1>4 DEF Moves, OwnInv, Distinct

LEMMA ThreadScheduleThrowsMoves ==
  ASSUME OwnInv, NEW t, NEW c \in Coros, NEW d, ThreadScheduleThrows(t, c, d)
  PROVE  Moves(c, "new", NULL, "lost", NULL)
<1>1. At(c, "new", NULL)
  BY PlaceOf DEF OwnInv, ThreadScheduleThrows
<1>2. /\ scheduled' = scheduled \cup {c} /\ lost' = lost \cup {c}
      /\ UNCHANGED <<queue, local, running, co, parked, destination, destroyed>>
  BY DEF ThreadScheduleThrows, thread
<1>3. At(c, "lost", NULL)'
  BY <1>1, <1>2 DEF At, Places0
<1>4. ASSUME NEW e \in Coros, e # c
      PROVE  Stays(e)
  <2>1. SameAt(e)
    BY <1>2, <1>4 DEF SameAt
  <2> QED
    BY <2>1, SameStays
<1> QED
  BY <1>1, <1>2, <1>3, <1>4 DEF Moves, OwnInv, Distinct

-----------------------------------------------------------------------------
(* The running coroutine leaves.                                           *)

LEMMA RunningFacts ==
  ASSUME OwnInv, NEW s \in Schedulers, Running(s)
  PROVE  /\ running[s] \in Coros /\ running[s] # NULL /\ co[s] \in {NULL, running[s]}
         /\ At(running[s], "running", s)
<1>1. running[s] \in Coros /\ running[s] # NULL /\ co[s] \in {NULL, running[s]}
  BY DEF OwnInv, IInv, TypeOK, Consistent, Running
<1> QED
  BY <1>1, PlaceOf DEF OwnInv

LEMMA YieldMoves ==
  ASSUME OwnInv, NEW s \in Schedulers, Yield(s), NEW c, c = running[s]
  PROVE  \/ Moves(c, "running", s, "local", s)
         \/ co[s] = NULL /\ Moves(c, "running", s, "lost", NULL)
<1>1. c \in Coros /\ c # NULL /\ co[s] \in {NULL, c} /\ At(c, "running", s)
  BY RunningFacts DEF Yield
<1>2. /\ running' = [running EXCEPT ![s] = NULL] /\ co' = [co EXCEPT ![s] = NULL]
      /\ UNCHANGED <<queue, joins, destroyed>>
  BY DEF Yield, LeaveResume
<1>3. CASE local' = [local EXCEPT ![s] = Append(@, c)] /\ lost' = lost
  <2>1. /\ ToSet(Append(local[s], c)) = ToSet(local[s]) \cup {c} /\ IsInjective(Append(local[s], c))
    <3>1. local[s] \in Seq(Coros) /\ IsInjective(local[s]) /\ c \notin ToSet(local[s])
      BY <1>1 DEF OwnInv, IInv, TypeOK, Distinct, At
    <3> QED
      BY <1>1, <3>1, ElementFacts, DistinctFacts
  <2>2. Distinct'
    BY <1>2, <1>3, <2>1 DEF OwnInv, IInv, TypeOK, Distinct
  <2>3. At(c, "local", s)'
    BY <1>1, <1>2, <1>3, <2>1 DEF At, Places0, OwnInv, IInv, TypeOK, joins
  <2>4. ASSUME NEW e \in Coros, e # c
        PROVE  Stays(e)
    <3>1. SameAt(e)
      BY <1>1, <1>2, <1>3, <2>1, <2>4, NullAssumption DEF SameAt, OwnInv, IInv, TypeOK, joins
    <3> QED
      BY <3>1, SameStays
  <2> QED
    BY <1>1, <2>2, <2>3, <2>4 DEF Moves
<1>4. CASE co[s] = NULL /\ lost' = lost \cup {c} /\ local' = local
  <2>1. At(c, "lost", NULL)'
    BY <1>1, <1>2, <1>4 DEF At, Places0, OwnInv, IInv, TypeOK, joins
  <2>2. ASSUME NEW e \in Coros, e # c
        PROVE  Stays(e)
    <3>1. SameAt(e)
      BY <1>1, <1>2, <1>4, <2>2, NullAssumption DEF SameAt, OwnInv, IInv, TypeOK, joins
    <3> QED
      BY <3>1, SameStays
  <2>3. Distinct'
    BY <1>2, <1>4 DEF OwnInv, Distinct
  <2> QED
    BY <1>1, <1>4, <2>1, <2>2, <2>3 DEF Moves
<1> QED
  BY <1>3, <1>4 DEF Yield

LEMMA ParkMoves ==
  ASSUME OwnInv, NEW s \in Schedulers, NEW k, Running(s), NEW c, c = running[s], Park(s, c, k)
  PROVE  Moves(c, "running", s, "blocked", s)
<1>1. c \in Coros /\ c # NULL /\ co[s] \in {NULL, c} /\ At(c, "running", s)
  BY RunningFacts
<1>2. /\ running' = [running EXCEPT ![s] = NULL] /\ co' = [co EXCEPT ![s] = NULL]
      /\ parked' = parked \cup {c} /\ destination' = [destination EXCEPT ![c] = s]
      /\ UNCHANGED <<queue, local, scheduled, ends>>
  BY DEF Park, LeaveResume
<1>3. At(c, "blocked", s)'
  BY <1>1, <1>2 DEF At, Places0, OwnInv, IInv, TypeOK, ends
<1>4. ASSUME NEW e \in Coros, e # c
      PROVE  Stays(e)
  <2>1. SameAt(e)
    BY <1>1, <1>2, <1>4, NullAssumption DEF SameAt, OwnInv, IInv, TypeOK, ends
  <2> QED
    BY <2>1, SameStays
<1> QED
  BY <1>1, <1>2, <1>3, <1>4 DEF Moves, OwnInv, Distinct

LEMMA MigrateMoves ==
  ASSUME OwnInv, NEW s \in Schedulers, NEW d \in Schedulers, Migrate(s, d), NEW c, c = running[s]
  PROVE  \E kind \in {"queue", "local"} : Moves(c, "running", s, kind, d)
<1>1. c \in Coros /\ c # NULL /\ co[s] \in {NULL, c} /\ At(c, "running", s)
  BY RunningFacts DEF Migrate
<1>2. /\ running' = [running EXCEPT ![s] = NULL] /\ co' = [co EXCEPT ![s] = NULL]
      /\ UNCHANGED <<joins, ends>>
  BY DEF Migrate, LeaveResume
<1>3. PICK kind \in {"queue", "local"} : Appended(c, kind, d)
  <2>1. c \notin ToSet(queue[d]) /\ c \notin ToSet(local[d])
    BY <1>1 DEF At
  <2> QED
    BY <1>1, <2>1, ScheduleAppends DEF OwnInv, IInv, Migrate
<1>4. At(c, kind, d)'
  BY <1>1, <1>2, <1>3 DEF At, Places0, Appended, OwnInv, IInv, TypeOK, joins, ends
<1>5. ASSUME NEW e \in Coros, e # c
      PROVE  Stays(e)
  <2>1. SameAt(e)
    BY <1>1, <1>2, <1>3, <1>5, NullAssumption DEF SameAt, Appended, OwnInv, IInv, TypeOK, joins, ends
  <2> QED
    BY <2>1, SameStays
<1> QED
  BY <1>1, <1>3, <1>4, <1>5 DEF Moves, Appended

LEMMA ReturnMoves ==
  ASSUME OwnInv, NEW s \in Schedulers, Return(s), NEW c, c = running[s]
  PROVE  \/ Moves(c, "running", s, "done", s)
         \/ co[s] = NULL /\ Moves(c, "running", s, "lost", NULL)
<1>1. c \in Coros /\ c # NULL /\ co[s] \in {NULL, c} /\ At(c, "running", s)
  BY RunningFacts DEF Return
<1>2. /\ running' = [running EXCEPT ![s] = NULL]
      /\ lost' = IF co[s] = NULL THEN lost \cup {c} ELSE lost
      /\ UNCHANGED <<queue, local, co, joins, destroyed>>
  BY DEF Return
<1>3. IF co[s] = NULL THEN At(c, "lost", NULL)' ELSE At(c, "done", s)'
  BY <1>1, <1>2 DEF At, Places0, OwnInv, IInv, TypeOK, joins
<1>4. ASSUME NEW e \in Coros, e # c
      PROVE  Stays(e)
  <2>1. SameAt(e)
    BY <1>1, <1>2, <1>4, NullAssumption DEF SameAt, OwnInv, IInv, TypeOK, joins
  <2> QED
    BY <2>1, SameStays
<1>5. Distinct'
  BY <1>2 DEF OwnInv, Distinct
<1> QED
  BY <1>1, <1>3, <1>4, <1>5 DEF Moves

-----------------------------------------------------------------------------
(* A frame is destroyed, and its joiner resumed.                           *)

Destroys(x, s) == At(x, "done", s) /\ At(x, "destroyed", NULL)'

DestroysAlone(x) ==
  /\ awaiting' = awaiting /\ \A c \in parked : awaiting[c] # x
  /\ \A e \in Coros : e # x => Stays(e)

DestroysWithJoiner(x, c) ==
  /\ c \in parked /\ awaiting[c] = x /\ awaiting' = [awaiting EXCEPT ![c] = NULL]
  /\ \E d \in Schedulers, kind \in {"queue", "local"} : At(c, "blocked", d) /\ At(c, kind, d)'
  /\ \A e \in Coros : e \notin {x, c} => Stays(e)

LEMMA DestroyMoves ==
  ASSUME OwnInv, NEW s \in Schedulers, NEW x, x = co[s], DestroyDone(s)
  PROVE  /\ x \in Coros /\ Destroys(x, s) /\ Distinct'
         /\ DestroysAlone(x) \/ \E c \in Coros : c # x /\ DestroysWithJoiner(x, c)
<1>1. x \in Coros /\ x # NULL /\ running[s] = NULL
  BY DEF DestroyDone, OwnInv, IInv, TypeOK, Consistent
<1>2. At(x, "done", s)
  BY <1>1, PlaceOf, NullAssumption DEF OwnInv
<1>3. /\ destroyed' = destroyed \cup {x} /\ co' = [co EXCEPT ![s] = NULL]
      /\ UNCHANGED <<running, scheduled, lost>>
  BY DEF DestroyDone
<1>4. CASE /\ \A c \in parked : awaiting[c] # x
           /\ UNCHANGED <<queue, local, parked, awaiting, destination>>
  <2>1. At(x, "destroyed", NULL)'
    BY <1>1, <1>2, <1>3, <1>4 DEF At, Places0, OwnInv, IInv, TypeOK
  <2>2. ASSUME NEW e \in Coros, e # x
        PROVE  Stays(e)
    <3>1. SameAt(e)
      BY <1>1, <1>3, <1>4, <2>2, NullAssumption DEF SameAt, OwnInv, IInv, TypeOK
    <3> QED
      BY <3>1, SameStays
  <2>3. Distinct'
    BY <1>4 DEF OwnInv, Distinct
  <2> QED
    BY <1>1, <1>2, <1>4, <2>1, <2>2, <2>3 DEF Destroys, DestroysAlone
<1>5. ASSUME NEW c \in parked, NEW d, d = destination[c], awaiting[c] = x,
             Schedule_(s, c, d, pc), Unpark(c)
      PROVE  \E e \in Coros : e # x /\ DestroysWithJoiner(x, e) /\ Destroys(x, s) /\ Distinct'
  <2>1. c \in Coros
    BY DEF OwnInv, IInv, TypeOK
  <2>2. At(c, "blocked", d) /\ d \in Schedulers /\ c # x
    BY <1>2, <1>5, <2>1, PlaceOf DEF OwnInv, At
  <2>3. PICK kind \in {"queue", "local"} : Appended(c, kind, d)
    <3>1. c \notin ToSet(queue[d]) /\ c \notin ToSet(local[d])
      BY <2>2 DEF At
    <3> QED
      BY <1>5, <2>1, <2>2, <3>1, ScheduleAppends DEF OwnInv, IInv
  <2>4. /\ parked' = parked \ {c} /\ awaiting' = [awaiting EXCEPT ![c] = NULL]
        /\ \A e \in Coros : e # c => destination'[e] = destination[e]
    BY <1>5 DEF Unpark, OwnInv, IInv, TypeOK
  <2>5. At(x, "destroyed", NULL)'
    BY <1>1, <1>2, <1>3, <2>2, <2>3, <2>4 DEF At, Places0, Appended, OwnInv, IInv, TypeOK
  <2>6. At(c, kind, d)'
    <3>1. \A t \in Schedulers : co[t] # c /\ running[t] # c
      BY <2>2 DEF At
    <3>2. \A t \in Schedulers : co'[t] # c
      BY <1>3, <2>1, <3>1, NullAssumption DEF OwnInv, IInv, TypeOK
    <3> QED
      BY <1>3, <2>1, <2>2, <2>3, <2>4, <3>1, <3>2 DEF At, Places0, Appended
  <2>7. ASSUME NEW e \in Coros, e # x, e # c
        PROVE  Stays(e)
    <3>1. SameAt(e)
      BY <1>1, <1>3, <2>3, <2>4, <2>7, NullAssumption DEF SameAt, Appended, OwnInv, IInv, TypeOK
    <3> QED
      BY <3>1, SameStays
  <2> QED
    BY <1>2, <1>5, <2>1, <2>2, <2>3, <2>4, <2>5, <2>6, <2>7 DEF Destroys, DestroysWithJoiner, Appended
<1> QED
  BY <1>1, <1>4, <1>5 DEF DestroyDone

LEMMA DestroyPlaced ==
  ASSUME OwnInv, NEW s \in Schedulers, DestroyDone(s)
  PROVE  Placed' /\ Distinct'
<1>1. PICK x : x = co[s]
  OBVIOUS
<1>2. /\ Destroys(x, s) /\ Distinct'
      /\ DestroysAlone(x) \/ \E c \in Coros : c # x /\ DestroysWithJoiner(x, c)
  BY <1>1, DestroyMoves
<1>3. ASSUME NEW e \in Coros
      PROVE  \E j, t : At(e, j, t)'
  <2>1. CASE e = x
    BY <1>2, <2>1 DEF Destroys
  <2>2. CASE Stays(e)
    BY <2>2 DEF Stays, OwnInv, Placed
  <2>3. CASE e # x /\ ~Stays(e)
    BY <1>2, <2>3 DEF DestroysAlone, DestroysWithJoiner
  <2> QED
    BY <2>1, <2>2, <2>3
<1> QED
  BY <1>2, <1>3 DEF Placed

-----------------------------------------------------------------------------
(* The invariant.                                                          *)

LEMMA OwnStep == OwnInv /\ [Next]_vars => OwnInv'
<1> SUFFICES ASSUME OwnInv, [Next]_vars PROVE Placed' /\ Distinct'
  BY Inductive DEF OwnInv
<1> USE DEF OwnInv
<1>1. ASSUME NEW s \in Schedulers, RunThread(s)
      PROVE  Placed' /\ Distinct'
  <2>1. CASE Locked(s) \/ CleanupBatch(s)
    BY <2>1, LockedStays, StaysPlaced
  <2>2. CASE DestroyDone(s)
    BY <2>2, DestroyPlaced
  <2>3. CASE DestroyThrows(s)
    BY <2>3, AbortStays, StaysPlaced
  <2>4. CASE ResumeNext(s)
    BY <2>4, ResumeNextMoves, MovesPlaced
  <2> QED
    BY <1>1, <2>1, <2>2, <2>3, <2>4 DEF RunThread
<1>2. ASSUME NEW s \in Schedulers, SpuriousWakeup(s) \/ Control(s)
      PROVE  Placed' /\ Distinct'
  BY <1>2, ControlStays, StaysPlaced
<1>3. ASSUME NEW s \in Schedulers, CoroutineStep(s)
      PROVE  Placed' /\ Distinct'
  <2>1. CASE Yield(s)
    BY <2>1, YieldMoves, MovesPlaced, RunningFacts DEF Yield
  <2>2. CASE Block(s)
    BY <2>2, ParkMoves, MovesPlaced, RunningFacts DEF Block
  <2>3. CASE Return(s)
    BY <2>3, ReturnMoves, MovesPlaced, RunningFacts DEF Return
  <2>4. ASSUME NEW k \in Coros, Join(s, k)
        PROVE  Placed' /\ Distinct'
    BY <2>4, ParkMoves, MovesPlaced, RunningFacts DEF Join
  <2>5. ASSUME NEW d \in Schedulers, Migrate(s, d)
        PROVE  Placed' /\ Distinct'
    BY <2>5, MigrateMoves, MovesPlaced, RunningFacts DEF Migrate
  <2>6. ASSUME NEW k \in Coros, Throw(s) \/ JoinReady(s, k)
        PROVE  Placed' /\ Distinct'
    BY <2>6, AbortStays, StaysPlaced
  <2>7. ASSUME NEW k \in Coros, Wake(s, k)
        PROVE  Placed' /\ Distinct'
    BY <2>7, WakeMoves, MovesPlaced DEF Wake
  <2>8. ASSUME NEW k \in Coros, WakeThrows(s, k)
        PROVE  Placed' /\ Distinct'
    BY <2>8, WakeThrowsMoves, MovesPlaced
  <2>9. ASSUME NEW k \in Coros, NEW d \in Schedulers, Spawn(s, k, d)
        PROVE  Placed' /\ Distinct'
    BY <2>9, AcceptMoves, MovesPlaced DEF Spawn
  <2>10. ASSUME NEW k \in Coros, NEW d \in Schedulers, SpawnThrows(s, k, d)
         PROVE  Placed' /\ Distinct'
    BY <2>10, AbortStays, StaysPlaced
  <2>11. ASSUME NEW d \in Schedulers, MigrateThrows(s, d)
         PROVE  Placed' /\ Distinct'
    BY <2>11, MigrateThrowsStays, StaysPlaced
  <2>12. CASE Throw(s)
    BY <2>12, AbortStays, StaysPlaced
  <2> QED
    BY <1>3, <2>1, <2>2, <2>3, <2>4, <2>5, <2>6, <2>7, <2>8, <2>9, <2>10, <2>11, <2>12
    DEF CoroutineStep, Relinquish
<1>4. ASSUME NEW t \in Threads, ThreadStep(t)
      PROVE  Placed' /\ Distinct'
  <2>1. ASSUME NEW c \in Coros, NEW d \in Schedulers, ThreadSchedule(t, c, d)
        PROVE  Placed' /\ Distinct'
    BY <2>1, AcceptMoves, MovesPlaced DEF ThreadSchedule
  <2>2. ASSUME NEW c \in Coros, NEW d \in Schedulers, ThreadScheduleThrows(t, c, d)
        PROVE  Placed' /\ Distinct'
    BY <2>2, ThreadScheduleThrowsMoves, MovesPlaced
  <2>3. ASSUME NEW c \in Coros, ThreadWake(t, c)
        PROVE  Placed' /\ Distinct'
    BY <2>3, WakeMoves, MovesPlaced DEF ThreadWake
  <2>4. ASSUME NEW c \in Coros, WakeThrows(NULL, c)
        PROVE  Placed' /\ Distinct'
    BY <2>4, WakeThrowsMoves, MovesPlaced
  <2> QED
    BY <1>4, <2>1, <2>2, <2>3, <2>4 DEF ThreadStep
<1>5. CASE UNCHANGED vars
  BY <1>5, UnmovedStays, StaysPlaced DEF vars, thread, joins, ends
<1> QED
  BY <1>1, <1>2, <1>3, <1>4, <1>5 DEF Next

LEMMA Ownership == Spec => []OwnInv
<1>1. Init => OwnInv
  BY Initial, OwnInit DEF OwnInv
<1> QED
  BY <1>1, OwnStep, PTL DEF Spec

-----------------------------------------------------------------------------
(* Where a handle is.                                                      *)

LEMMA PlacesAre ==
  ASSUME NEW c, NEW p
  PROVE  p \in Places(c) <=>
           \/ \E s \in Schedulers : \E i \in DOMAIN queue[s] : queue[s][i] = c /\ p = <<"queue", s, i>>
           \/ \E s \in Schedulers : \E i \in DOMAIN local[s] : local[s][i] = c /\ p = <<"local", s, i>>
           \/ \E s \in Schedulers : (co[s] = c \/ running[s] = c) /\ p = <<"co", s, 0>>
           \/ c \in parked /\ p = <<"awaitable", NULL, 0>>
           \/ c \in lost /\ p = <<"lost", NULL, 0>>
           \/ c \in destroyed /\ p = <<"destroyed", NULL, 0>>
<1> DEFINE
  Q == UNION { {<<"queue", s, i>> : i \in {i \in DOMAIN queue[s] : queue[s][i] = c}} : s \in Schedulers }
  L == UNION { {<<"local", s, i>> : i \in {i \in DOMAIN local[s] : local[s][i] = c}} : s \in Schedulers }
  O == { <<"co", s, 0>> : s \in {s \in Schedulers : co[s] = c \/ running[s] = c} }
  A == { <<"awaitable", NULL, 0>> : x \in parked \cap {c} }
  G == { <<"lost", NULL, 0>> : x \in lost \cap {c} }
  D == { <<"destroyed", NULL, 0>> : x \in destroyed \cap {c} }
<1>1. p \in Q <=> \E s \in Schedulers : \E i \in DOMAIN queue[s] : queue[s][i] = c /\ p = <<"queue", s, i>>
  OBVIOUS
<1>2. p \in L <=> \E s \in Schedulers : \E i \in DOMAIN local[s] : local[s][i] = c /\ p = <<"local", s, i>>
  OBVIOUS
<1>3. p \in O <=> \E s \in Schedulers : (co[s] = c \/ running[s] = c) /\ p = <<"co", s, 0>>
  OBVIOUS
<1>4. /\ p \in A <=> c \in parked /\ p = <<"awaitable", NULL, 0>>
      /\ p \in G <=> c \in lost /\ p = <<"lost", NULL, 0>>
      /\ p \in D <=> c \in destroyed /\ p = <<"destroyed", NULL, 0>>
  OBVIOUS
<1>5. Places(c) = Q \cup L \cup O \cup A \cup G \cup D
  BY Zenon DEF Places
<1> HIDE DEF Q, L, O, A, G, D
<1>6. p \in Places(c) <=> p \in Q \/ p \in L \/ p \in O \/ p \in A \/ p \in G \/ p \in D
  BY <1>5
<1> QED
  BY <1>1, <1>2, <1>3, <1>4, <1>6, Zenon

LEMMA Single ==
  ASSUME NEW S, NEW p, \A x : x \in S <=> x = p
  PROVE  \E q \in S : S = {q}
<1>1. p \in S /\ S = {p}
  OBVIOUS
<1> QED
  BY <1>1

\* A scheduled handle is in one slot of one queue, with the run() that executes
\* it, in one awaitable, destroyed or lost, for any number of schedulers,
\* coroutines and threads: no queue swap, re-enqueue, migration or refusal
\* duplicates or drops it.
THEOREM HandlesAreOwned == Spec => []OnePlace
<1>1. ASSUME OwnInv PROVE OnePlace
  <2> SUFFICES ASSUME NEW c \in Coros
               PROVE  IF c \in scheduled THEN \E p \in Places(c) : Places(c) = {p} ELSE Places(c) = {}
    BY DEF OnePlace
  <2>1. PICK k, s : At(c, k, s)
    BY <1>1 DEF OwnInv, Placed
  <2>2. \A t \in Schedulers :
          /\ \A i \in DOMAIN queue[t] : queue[t][i] = c => k = "queue" /\ t = s
          /\ \A i \in DOMAIN local[t] : local[t][i] = c => k = "local" /\ t = s
          /\ co[t] = c \/ running[t] = c => k \in {"running", "done"} /\ t = s
    BY <2>1 DEF At, ToSet
  <2>3. c \in scheduled => k # "new"
    BY <2>1 DEF At
  <2>4. CASE k = "new"
    <3>1. ASSUME NEW p PROVE p \notin Places(c)
      BY <2>1, <2>2, <2>4, PlacesAre DEF At
    <3> QED
      BY <2>1, <2>4, <3>1 DEF At
  <2>5. ASSUME k # "new"
        PROVE  \E p \in Places(c) : Places(c) = {p}
    <3>1. CASE k = "queue"
      <4>1. PICK i \in DOMAIN queue[s] : queue[s][i] = c /\ s \in Schedulers
        BY <2>1, <3>1 DEF At, ToSet
      <4>2. \A j \in DOMAIN queue[s] : queue[s][j] = c => j = i
        BY <1>1, <4>1 DEF OwnInv, Distinct, IsInjective
      <4> DEFINE p == <<"queue", s, i>>
      <4>3. \A x : x \in Places(c) <=> x = p
        <5> SUFFICES ASSUME NEW x PROVE x \in Places(c) <=> x = p
          OBVIOUS
        <5> QED
          BY <2>1, <2>2, <3>1, <4>1, <4>2, PlacesAre DEF At
      <4> HIDE DEF p
      <4> QED
        BY <4>3, Single
    <3>2. CASE k = "local"
      <4>1. PICK i \in DOMAIN local[s] : local[s][i] = c /\ s \in Schedulers
        BY <2>1, <3>2 DEF At, ToSet
      <4>2. \A j \in DOMAIN local[s] : local[s][j] = c => j = i
        BY <1>1, <4>1 DEF OwnInv, Distinct, IsInjective
      <4> DEFINE p == <<"local", s, i>>
      <4>3. \A x : x \in Places(c) <=> x = p
        <5> SUFFICES ASSUME NEW x PROVE x \in Places(c) <=> x = p
          OBVIOUS
        <5> QED
          BY <2>1, <2>2, <3>2, <4>1, <4>2, PlacesAre DEF At
      <4> HIDE DEF p
      <4> QED
        BY <4>3, Single
    <3>3. CASE k \in {"running", "done"}
      <4>1. s \in Schedulers /\ (co[s] = c \/ running[s] = c)
        BY <2>1, <3>3 DEF At
      <4> DEFINE p == <<"co", s, 0>>
      <4>2. \A x : x \in Places(c) <=> x = p
        <5> SUFFICES ASSUME NEW x PROVE x \in Places(c) <=> x = p
          OBVIOUS
        <5> QED
          BY <2>1, <2>2, <3>3, <4>1, PlacesAre DEF At
      <4> HIDE DEF p
      <4> QED
        BY <4>2, Single
    <3>4. CASE k = "blocked"
      <4> DEFINE p == <<"awaitable", NULL, 0>>
      <4>1. \A x : x \in Places(c) <=> x = p
        <5> SUFFICES ASSUME NEW x PROVE x \in Places(c) <=> x = p
          OBVIOUS
        <5> QED
          BY <2>1, <2>2, <3>4, PlacesAre DEF At
      <4> HIDE DEF p
      <4> QED
        BY <4>1, Single
    <3>5. CASE k = "lost"
      <4> DEFINE p == <<"lost", NULL, 0>>
      <4>1. \A x : x \in Places(c) <=> x = p
        <5> SUFFICES ASSUME NEW x PROVE x \in Places(c) <=> x = p
          OBVIOUS
        <5> QED
          BY <2>1, <2>2, <3>5, PlacesAre DEF At
      <4> HIDE DEF p
      <4> QED
        BY <4>1, Single
    <3>6. CASE k = "destroyed"
      <4> DEFINE p == <<"destroyed", NULL, 0>>
      <4>1. \A x : x \in Places(c) <=> x = p
        <5> SUFFICES ASSUME NEW x PROVE x \in Places(c) <=> x = p
          OBVIOUS
        <5> QED
          BY <2>1, <2>2, <3>6, PlacesAre DEF At
      <4> HIDE DEF p
      <4> QED
        BY <4>1, Single
    <3> QED
      BY <2>1, <2>5, <3>1, <3>2, <3>3, <3>4, <3>5, <3>6 DEF At, Places0
  <2> QED
    BY <2>1, <2>4, <2>5 DEF At
<1> QED
  BY <1>1, Ownership, PTL

-----------------------------------------------------------------------------
(* Joins.                                                                  *)

\* The awt of a coroutine is held by one coroutine, until one joins.
OneJoiner ==
  /\ \A k \in Coros : holder[k] # NULL => k \in scheduled
  /\ \A c \in parked : awaiting[c] # NULL =>
       /\ holder[awaiting[c]] = NULL
       /\ \A e \in parked : awaiting[e] = awaiting[c] => e = c

JoinInv == JoinPending /\ OneJoiner

LEMMA JoinInit == Init => JoinInv
BY DEF Init, JoinInv, JoinPending, OneJoiner

\* Fewer are parked, and nothing else that matters changes.
LEMMA JoinFrame ==
  ASSUME JoinInv, parked' \subseteq parked, holder' = holder, scheduled \subseteq scheduled',
         \A c \in parked' : awaiting'[c] = awaiting[c] /\ (awaiting[c] # NULL => awaiting[c] \notin destroyed')
  PROVE  JoinInv'
BY DEF JoinInv, JoinPending, OneJoiner

LEMMA JoinKept == OwnInv /\ JoinInv /\ [Next]_vars => JoinInv'
<1> SUFFICES ASSUME OwnInv, JoinInv, [Next]_vars PROVE JoinInv'
  OBVIOUS
<1>1. /\ parked \subseteq Coros /\ awaiting \in [Coros -> Coros \cup {NULL}]
      /\ holder \in [Coros -> Coros \cup {NULL}]
      /\ \A c \in parked : awaiting[c] # NULL => awaiting[c] \notin destroyed
  BY DEF OwnInv, IInv, TypeOK, JoinInv, JoinPending
<1>2. ASSUME NEW c, Unpark(c), UNCHANGED <<holder, scheduled>>, destroyed' = destroyed
      PROVE  JoinInv'
  BY <1>1, <1>2, JoinFrame DEF Unpark
<1>3. ASSUME UNCHANGED <<parked, awaiting, holder, scheduled, destroyed>>
      PROVE  JoinInv'
  BY <1>1, <1>3, JoinFrame
<1>4. ASSUME NEW c \in Coros, c \notin scheduled, scheduled' = scheduled \cup {c},
             UNCHANGED <<parked, awaiting, destroyed>>,
             \/ holder' = holder
             \/ \E r \in Coros : holder' = [holder EXCEPT ![c] = r]
      PROVE  JoinInv'
  <2>1. \A e \in parked : awaiting[e] # c
    BY <1>1, <1>4, NullAssumption DEF JoinInv, JoinPending
  <2> QED
    BY <1>1, <1>4, <2>1 DEF JoinInv, JoinPending, OneJoiner
<1>5. ASSUME NEW s \in Schedulers, DestroyDone(s)
      PROVE  JoinInv'
  <2>1. PICK x : x = co[s]
    OBVIOUS
  <2>2. destroyed' = destroyed \cup {x} /\ UNCHANGED <<holder, scheduled>>
    BY <1>5, <2>1 DEF DestroyDone
  <2>3. CASE (\A c \in parked : awaiting[c] # x) /\ UNCHANGED <<parked, awaiting>>
    BY <1>1, <2>2, <2>3, JoinFrame
  <2>4. ASSUME NEW c \in parked, awaiting[c] = x, Unpark(c)
        PROVE  JoinInv'
    <3>1. x # NULL
      BY <1>5, <2>1 DEF DestroyDone
    <3>2. \A e \in parked : e # c => awaiting[e] # x
      BY <2>4, <3>1 DEF JoinInv, OneJoiner
    <3> QED
      BY <1>1, <2>2, <2>4, <3>2, JoinFrame DEF Unpark
  <2> QED
    BY <1>5, <2>1, <2>3, <2>4 DEF DestroyDone
<1>6. ASSUME NEW s \in Schedulers, Block(s)
      PROVE  JoinInv'
  <2>1. running[s] \in Coros
    BY <1>6, RunningFacts DEF Block
  <2> QED
    BY <1>1, <1>6, <2>1 DEF Block, Park, ends, JoinInv, JoinPending, OneJoiner
<1>7. ASSUME NEW s \in Schedulers, NEW k \in Coros, Join(s, k)
      PROVE  JoinInv'
  <2>1. running[s] \in Coros /\ running[s] # NULL /\ running[s] \notin parked
    BY <1>7, RunningFacts DEF Join, At
  <2>2. k \in scheduled /\ k \notin destroyed /\ \A e \in parked : awaiting[e] # k
    BY <1>1, <1>7, <2>1, NullAssumption DEF Join, JoinInv, OneJoiner
  <2>3. /\ parked' = parked \cup {running[s]} /\ awaiting' = [awaiting EXCEPT ![running[s]] = k]
        /\ holder' = [holder EXCEPT ![k] = NULL] /\ UNCHANGED <<scheduled, destroyed>>
    BY <1>7 DEF Join, Park, ends
  <2> QED
    BY <1>1, <2>1, <2>2, <2>3, NullAssumption DEF JoinInv, JoinPending, OneJoiner
<1>8. ASSUME NEW s \in Schedulers, NEW k \in Coros, JoinReady(s, k)
      PROVE  JoinInv'
  <2>1. holder' = [holder EXCEPT ![k] = NULL] /\ UNCHANGED <<parked, awaiting, scheduled, destroyed>>
    BY <1>8 DEF JoinReady, ends
  <2> QED
    BY <1>1, <2>1 DEF JoinInv, JoinPending, OneJoiner
<1> USE DEF thread, joins, ends
<1>9. ASSUME NEW s \in Schedulers, RunThread(s)
      PROVE  JoinInv'
  BY <1>3, <1>5, <1>9 DEF RunThread, Locked, CleanupBatch, Evaluate, DestroyThrows, ResumeNext
<1>10. ASSUME NEW s \in Schedulers, SpuriousWakeup(s) \/ Control(s)
       PROVE  JoinInv'
  BY <1>3, <1>10 DEF SpuriousWakeup, Control, Suspend_, Resume_, Halt_
<1>11. ASSUME NEW s \in Schedulers, CoroutineStep(s)
       PROVE  JoinInv'
  <2>1. CASE Relinquish(s)
    BY <1>3, <1>6, <1>7, <2>1 DEF Relinquish, Yield, Return, Migrate
  <2>2. CASE Throw(s)
    BY <1>3, <2>2 DEF Throw
  <2>3. ASSUME NEW k \in Coros, JoinReady(s, k) \/ Wake(s, k) \/ WakeThrows(s, k)
        PROVE  JoinInv'
    BY <1>2, <1>8, <2>3 DEF Wake, WakeThrows
  <2>4. ASSUME NEW k \in Coros, NEW d \in Schedulers, Spawn(s, k, d)
        PROVE  JoinInv'
    <3>1. running[s] \in Coros
      BY <2>4, RunningFacts DEF Spawn
    <3> QED
      BY <1>4, <2>4, <3>1 DEF Spawn
  <2>5. ASSUME NEW k \in Coros, NEW d \in Schedulers, SpawnThrows(s, k, d) \/ MigrateThrows(s, d)
        PROVE  JoinInv'
    BY <1>3, <2>5 DEF SpawnThrows, MigrateThrows
  <2>6. ASSUME NEW d \in Schedulers, MigrateThrows(s, d)
        PROVE  JoinInv'
    BY <1>3, <2>6 DEF MigrateThrows
  <2> QED
    BY <1>11, <2>1, <2>2, <2>3, <2>4, <2>5, <2>6 DEF CoroutineStep
<1>12. ASSUME NEW t \in Threads, ThreadStep(t)
       PROVE  JoinInv'
  BY <1>2, <1>4, <1>12 DEF ThreadStep, ThreadSchedule, ThreadScheduleThrows, ThreadWake, WakeThrows
<1>13. CASE UNCHANGED vars
  BY <1>3, <1>13 DEF vars
<1> QED
  BY <1>9, <1>10, <1>11, <1>12, <1>13 DEF Next

LEMMA Joining == Spec => []JoinInv
BY Ownership, JoinInit, JoinKept, PTL DEF Spec

\* Whoever is parked on a join waits for a coroutine that is still to be
\* destroyed, whatever threads, schedulers and coroutines do meanwhile.
THEOREM JoinersArePending == Spec => []JoinPending
<1>1. JoinInv => JoinPending
  BY DEF JoinInv
<1> QED
  BY <1>1, Joining, PTL

-----------------------------------------------------------------------------
(* Losses.                                                                 *)

SomeHalted == \E s \in Schedulers : state[s] = "halted"

\* A coroutine that continues after a refused migration is owned by nobody,
\* which is how it comes to be lost when it next suspends.
Unowned == \E s \in Schedulers : running[s] # NULL /\ co[s] = NULL

LossInv == lost # {} \/ hung # {} \/ Unowned => SomeHalted

LEMMA LossInit == Init => LossInv
BY DEF Init, LossInv, Unowned

LEMMA LossFrame ==
  ASSUME IInv, LossInv, UNCHANGED <<state, lost, hung>>,
         \A s \in Schedulers : running'[s] # NULL /\ co'[s] = NULL => running[s] # NULL /\ co[s] = NULL
  PROVE  LossInv'
BY DEF LossInv, Unowned, SomeHalted

LEMMA LossHalted ==
  ASSUME SomeHalted, state' = state
  PROVE  LossInv'
BY DEF LossInv, SomeHalted

LEMMA LossKept == OwnInv /\ LossInv /\ [Next]_vars => LossInv'
<1> SUFFICES ASSUME OwnInv, LossInv, [Next]_vars PROVE LossInv'
  OBVIOUS
<1>1. /\ IInv /\ running \in [Schedulers -> Coros \cup {NULL}] /\ co \in [Schedulers -> Coros \cup {NULL}]
      /\ state \in [Schedulers -> States]
  BY DEF OwnInv, IInv, TypeOK
<1>2. ASSUME UNCHANGED <<state, co, running, lost, hung>>
      PROVE  LossInv'
  BY <1>1, <1>2, LossFrame
<1>3. ASSUME NEW s \in Schedulers, running' = [running EXCEPT ![s] = NULL],
             co' = co \/ co' = [co EXCEPT ![s] = NULL],
             state' = state, hung' = hung, lost' = lost \/ (co[s] = NULL /\ running[s] # NULL)
      PROVE  LossInv'
  <2>1. CASE lost' = lost
    BY <1>1, <1>3, <2>1, LossFrame
  <2>2. CASE co[s] = NULL /\ running[s] # NULL
    BY <1>3, <2>2, LossHalted DEF LossInv, Unowned
  <2> QED
    BY <1>3, <2>1, <2>2
<1>4. ASSUME NEW caller, NEW d \in Schedulers, Rejects(caller, d)
      PROVE  SomeHalted
  BY <1>4 DEF Rejects, SomeHalted
<1>5. ASSUME NEW caller, NEW c \in Coros, WakeThrows(caller, c)
      PROVE  LossInv'
  <2>1. destination[c] \in Schedulers
    BY <1>1, <1>5 DEF WakeThrows, IInv, Consistent
  <2> QED
    BY <1>4, <1>5, <2>1, LossHalted DEF WakeThrows
<1> USE DEF thread, joins, ends
<1>6. ASSUME NEW s \in Schedulers, RunThread(s)
      PROVE  LossInv'
  <2>1. CASE Locked(s) \/ CleanupBatch(s)
    <3>1. \A t \in Schedulers : running[t] # NULL => t # s
      BY <1>1, <2>1 DEF Locked, CleanupBatch, IInv, Consistent
    <3>2. UNCHANGED <<state, running, lost, hung>> /\ (co' = co \/ co' = [co EXCEPT ![s] = NULL])
      BY <2>1 DEF Locked, CleanupBatch, Evaluate, LeaveHalted, WaitForResume, TakeBatch, WaitForCoroutines
    <3> QED
      BY <1>1, <3>1, <3>2, LossFrame
  <2>2. CASE DestroyDone(s)
    <3>1. running[s] = NULL
      BY <1>1, <2>2 DEF DestroyDone, IInv, Consistent
    <3> QED
      BY <1>1, <2>2, <3>1, LossFrame DEF DestroyDone
  <2>3. CASE DestroyThrows(s)
    BY <1>2, <2>3 DEF DestroyThrows
  <2>4. CASE ResumeNext(s)
    <3>1. PICK c : c = Head(local[s])
      OBVIOUS
    <3>2. c \in Coros /\ c # NULL
      BY <2>4, <3>1, ResumeNextMoves, NullAssumption
    <3> QED
      BY <1>1, <2>4, <3>1, <3>2, LossFrame DEF ResumeNext
  <2> QED
    BY <1>6, <2>1, <2>2, <2>3, <2>4 DEF RunThread
<1>7. ASSUME NEW s \in Schedulers, SpuriousWakeup(s)
      PROVE  LossInv'
  BY <1>2, <1>7 DEF SpuriousWakeup
<1>8. ASSUME NEW s \in Schedulers, Control(s)
      PROVE  LossInv'
  <2>1. UNCHANGED <<co, running, lost, hung>> /\ (SomeHalted => SomeHalted')
    BY <1>1, <1>8 DEF Control, Suspend_, Resume_, Halt_, SomeHalted
  <2> QED
    BY <2>1 DEF LossInv, Unowned
<1>9. ASSUME NEW s \in Schedulers, CoroutineStep(s)
      PROVE  LossInv'
  <2>1. Running(s) => running[s] # NULL
    BY <1>1 DEF Running, IInv, Consistent
  <2>2. CASE Relinquish(s)
    BY <1>3, <2>1, <2>2 DEF Relinquish, Yield, Block, Return, Join, Migrate, Park, LeaveResume
  <2>3. CASE Throw(s)
    BY <1>2, <2>3 DEF Throw
  <2>4. ASSUME NEW k \in Coros, JoinReady(s, k) \/ Wake(s, k)
        PROVE  LossInv'
    BY <1>2, <2>4 DEF JoinReady, Wake
  <2>5. ASSUME NEW k \in Coros, NEW d \in Schedulers, Spawn(s, k, d) \/ SpawnThrows(s, k, d)
        PROVE  LossInv'
    BY <1>2, <2>5 DEF Spawn, SpawnThrows
  <2>6. ASSUME NEW d \in Schedulers, MigrateThrows(s, d)
        PROVE  LossInv'
    BY <1>4, <2>6, LossHalted DEF MigrateThrows
  <2> QED
    BY <1>5, <1>9, <2>2, <2>3, <2>4, <2>5, <2>6 DEF CoroutineStep
<1>10. ASSUME NEW t \in Threads, ThreadStep(t)
       PROVE  LossInv'
  <2>1. ASSUME NEW c \in Coros, NEW d \in Schedulers, ThreadSchedule(t, c, d) \/ ThreadWake(t, c)
        PROVE  LossInv'
    BY <1>2, <2>1 DEF ThreadSchedule, ThreadWake
  <2>2. ASSUME NEW c \in Coros, ThreadWake(t, c)
        PROVE  LossInv'
    BY <1>2, <2>2 DEF ThreadWake
  <2>3. ASSUME NEW c \in Coros, NEW d \in Schedulers, ThreadScheduleThrows(t, c, d)
        PROVE  LossInv'
    BY <1>4, <2>3, LossHalted DEF ThreadScheduleThrows
  <2> QED
    BY <1>5, <1>10, <2>1, <2>2, <2>3 DEF ThreadStep
<1>11. CASE UNCHANGED vars
  BY <1>2, <1>11 DEF vars
<1> QED
  BY <1>6, <1>7, <1>8, <1>9, <1>10, <1>11 DEF Next

LEMMA Losses == Spec => []LossInv
BY Ownership, LossInit, LossKept, PTL DEF Spec

\* No handle is lost, and no thread hangs in the destructor of an awt, for any
\* number of schedulers, coroutines and threads, while none is halted.
THEOREM LossFollowsHalt == Spec => []LossNeedsHalt
<1>1. LossInv => LossNeedsHalt
  BY DEF LossInv, LossNeedsHalt, SomeHalted
<1> QED
  BY <1>1, Losses, PTL

-----------------------------------------------------------------------------
(* The contract.                                                           *)

LEMMA StageAt ==
  \A c \in Coros : \A k, s : At(c, k, s) => Stage(c) = StageOf(k) /\ Site(c) = s
<1> SUFFICES ASSUME NEW c \in Coros, NEW k, NEW s, At(c, k, s)
             PROVE  Stage(c) = StageOf(k) /\ Site(c) = s
  OBVIOUS
<1>1. Stage(c) = StageOf(k)
  BY DEF At, Places0, Stage, StageOf, RunningOn, Owned
<1>2. \A t \in Schedulers :
        /\ RunningOn(c, t) <=> k = "running" /\ t = s
        /\ Queued(c, t) <=> k \in {"queue", "local"} /\ t = s
        /\ k = "done" => (Owned(c, t) <=> t = s)
  BY DEF At, RunningOn, Queued, Owned
<1>3. Site(c) = s
  <2>1. CASE k = "running"
    BY <1>1, <1>2, <2>1 DEF Site, StageOf, At
  <2>2. CASE k = "done"
    BY <1>1, <1>2, <2>2 DEF Site, StageOf, At
  <2>3. CASE k \in {"queue", "local"}
    BY <1>1, <1>2, <2>3 DEF Site, StageOf, At
  <2>4. CASE k \in {"new", "lost", "destroyed", "blocked"}
    BY <1>1, <2>4 DEF Site, StageOf, At
  <2> QED
    BY <2>1, <2>2, <2>3, <2>4 DEF At, Places0
<1> QED
  BY <1>1, <1>3

LEMMA StageAtNext ==
  \A c \in Coros : \A k, s : At(c, k, s)' => Stage(c)' = StageOf(k) /\ Site(c)' = s
<1>1. (\A c \in Coros : \A k, s : At(c, k, s) => Stage(c) = StageOf(k) /\ Site(c) = s)'
  BY StageAt, PTL
<1> QED
  BY <1>1

LEMMA StaysStage ==
  ASSUME Placed, NEW c \in Coros, Stays(c)
  PROVE  Stage(c)' = Stage(c) /\ Site(c)' = Site(c)
<1>1. PICK k, s : At(c, k, s)
  BY DEF Placed
<1>2. PICK j : At(c, j, s)' /\ StageOf(j) = StageOf(k)
  BY <1>1 DEF Stays
<1> QED
  BY <1>1, <1>2, StageAt, StageAtNext

stages == [c \in Coros |-> Stage(c)]
sites == [c \in Coros |-> Site(c)]

LEMMA StaysMaps ==
  ASSUME Placed, StaysAll
  PROVE  stages' = stages /\ sites' = sites
BY StaysStage DEF StaysAll, stages, sites

LEMMA MovesMaps ==
  ASSUME Placed, NEW c \in Coros, NEW k, NEW s, NEW k2, NEW s2, Moves(c, k, s, k2, s2)
  PROVE  /\ stages[c] = StageOf(k) /\ sites[c] = s
         /\ stages' = [stages EXCEPT ![c] = StageOf(k2)]
         /\ sites' = [sites EXCEPT ![c] = s2]
<1>1. /\ Stage(c) = StageOf(k) /\ Site(c) = s
      /\ Stage(c)' = StageOf(k2) /\ Site(c)' = s2
  BY StageAt, StageAtNext DEF Moves
<1>2. \A e \in Coros : e # c => Stage(e)' = Stage(e) /\ Site(e)' = Site(e)
  BY StaysStage DEF Moves
<1> QED
  BY <1>1, <1>2 DEF stages, sites

LEMMA DestroyMaps ==
  ASSUME OwnInv, JoinInv, NEW s \in Schedulers, DestroyDone(s)
  PROVE  \E k \in Coros : Contract!Destroy(k)
<1>1. PICK x : x = co[s]
  OBVIOUS
<1>2. /\ x \in Coros /\ Destroys(x, s)
      /\ DestroysAlone(x) \/ \E c \in Coros : c # x /\ DestroysWithJoiner(x, c)
  BY <1>1, DestroyMoves
<1>3. /\ Stage(x) = "done" /\ Stage(x)' = "destroyed" /\ Site(x)' = NULL
  BY <1>2, StageAt, StageAtNext DEF Destroys, StageOf
<1>4. \A e \in Coros : Stage(e) = "blocked" <=> e \in parked
  <2> SUFFICES ASSUME NEW e \in Coros PROVE Stage(e) = "blocked" <=> e \in parked
    OBVIOUS
  <2>1. PICK k, t : At(e, k, t)
    BY DEF OwnInv, Placed
  <2>2. Stage(e) = StageOf(k)
    BY <2>1, StageAt
  <2> QED
    BY <2>1, <2>2 DEF At, Places0, StageOf
<1>5. awaiting \in [Coros -> Coros \cup {NULL}] /\ parked \subseteq Coros /\ state' = state
  BY DEF OwnInv, IInv, TypeOK, DestroyDone
<1>6. CASE DestroysAlone(x)
  <2>1. \A e \in Coros : e # x => Stage(e)' = Stage(e) /\ Site(e)' = Site(e)
    BY <1>6, StaysStage DEF DestroysAlone, OwnInv
  <2>2. \A e \in Coros : ~(Stage(e) = "blocked" /\ awaiting[e] = x)
    BY <1>4, <1>6 DEF DestroysAlone
  <2>3. Contract!Destroy(x)
    BY <1>2, <1>3, <1>5, <1>6, <2>1, <2>2 DEF Contract!Destroy, DestroysAlone
  <2> QED
    BY <1>2, <2>3
<1>7. ASSUME NEW c \in Coros, c # x, DestroysWithJoiner(x, c)
      PROVE  Contract!Destroy(x)
  <2>1. Stage(c)' = "ready" /\ Site(c)' = Site(c)
    BY <1>7, StageAt, StageAtNext DEF DestroysWithJoiner, StageOf
  <2>2. \A e \in Coros : e \notin {x, c} => Stage(e)' = Stage(e) /\ Site(e)' = Site(e)
    BY <1>7, StaysStage DEF DestroysWithJoiner, OwnInv
  <2>3. \A e \in Coros : Stage(e) = "blocked" /\ awaiting[e] = x <=> e = c
    BY <1>2, <1>4, <1>7, NullAssumption DEF DestroysWithJoiner, JoinInv, OneJoiner
  <2>4. awaiting' = [e \in Coros |-> IF e = c THEN NULL ELSE awaiting[e]]
    BY <1>5, <1>7 DEF DestroysWithJoiner
  <2>5. {e \in Coros : Stage(e) = "blocked" /\ awaiting[e] = x} = {c}
    BY <1>7, <2>3
  <2> QED
    BY <1>2, <1>3, <1>5, <1>7, <2>1, <2>2, <2>3, <2>4, <2>5 DEF Contract!Destroy
<1> QED
  BY <1>2, <1>6, <1>7

refusers == {s \in Schedulers : state[s] = "halted"}

\* A step of the schedulers that the contract does not see.
LEMMA StutterMaps ==
  ASSUME OwnInv, StaysAll, awaiting' = awaiting, refusers' = refusers
  PROVE  UNCHANGED Contract!vars
BY StaysMaps DEF OwnInv, Contract!vars, stages, sites, refusers

LEMMA AcceptMaps ==
  ASSUME OwnInv, NEW c \in Coros, NEW kind \in {"queue", "local"}, NEW d \in Schedulers,
         Moves(c, "new", NULL, kind, d), UNCHANGED <<awaiting, state>>
  PROVE  Contract!Next
<1>1. Contract!Accept(c, d)
  BY MovesMaps DEF OwnInv, stages, sites, StageOf, Contract!Accept, Contract!Move
<1> QED
  BY <1>1 DEF Contract!Next

LEMMA RequeueMaps ==
  ASSUME OwnInv, NEW c \in Coros, NEW kind \in {"queue", "local"},
         NEW s \in Schedulers, NEW d \in Schedulers,
         Moves(c, "running", s, kind, d), UNCHANGED <<awaiting, state>>
  PROVE  Contract!Next
<1>1. Contract!Requeue(c, d)
  BY MovesMaps DEF OwnInv, stages, sites, StageOf, Contract!Requeue, Contract!Move
<1> QED
  BY <1>1 DEF Contract!Next

LEMMA LoseMaps ==
  ASSUME OwnInv, NEW c \in Coros, NEW k \in {"new", "blocked", "running"}, NEW s,
         Moves(c, k, s, "lost", NULL), UNCHANGED <<awaiting, state>>, SomeHalted
  PROVE  Contract!Next
<1>1. Contract!Lose(c)
  BY MovesMaps, ZenonT(60) DEF OwnInv, stages, sites, StageOf, SomeHalted, Contract!Lose, Contract!Move
<1> QED
  BY <1>1 DEF Contract!Next

LEMMA SuspendMaps ==
  ASSUME OwnInv, NEW c \in Coros, NEW s \in Schedulers, NEW k \in Coros \cup {NULL},
         k # NULL => k \notin destroyed,
         Moves(c, "running", s, "blocked", s),
         awaiting' = [awaiting EXCEPT ![c] = k], state' = state
  PROVE  Contract!Next
<1>1. k # NULL => Stage(k) # "destroyed"
  BY DEF Stage
<1>2. /\ stages[c] = "running" /\ sites[c] = s
      /\ stages' = [stages EXCEPT ![c] = "blocked"] /\ sites' = [sites EXCEPT ![c] = s]
  BY MovesMaps DEF OwnInv, StageOf
<1>3. Contract!Suspend(c, k)
  BY <1>1, <1>2 DEF stages, sites, Contract!Suspend, Contract!Move
<1> QED
  BY <1>3 DEF Contract!Next

LEMMA UnblockMaps ==
  ASSUME OwnInv, NEW caller, NEW c \in parked, awaiting[c] = NULL,
         Schedule_(caller, c, destination[c], pc), Unpark(c),
         UNCHANGED <<state, co, running, scheduled, ends>>
  PROVE  Contract!Next
<1>1. awaiting \in [Coros -> Coros \cup {NULL}] /\ c \in Coros
  BY DEF OwnInv, IInv, TypeOK
<1>2. PICK d : d = destination[c]
  OBVIOUS
<1>3. /\ d \in Schedulers
      /\ \E kind \in {"queue", "local"} : Moves(c, "blocked", d, kind, d)
  BY <1>1, <1>2, WakeMoves
<1>4. awaiting' = awaiting
  BY <1>1 DEF Unpark
<1>5. /\ stages[c] = "blocked" /\ sites[c] = d
      /\ stages' = [stages EXCEPT ![c] = "ready"] /\ sites' = [sites EXCEPT ![c] = d]
  BY <1>1, <1>3, MovesMaps DEF OwnInv, StageOf
<1>6. Contract!Unblock(c)
  BY <1>1, <1>4, <1>5 DEF stages, sites, Contract!Unblock, Contract!Move
<1> QED
  BY <1>1, <1>6 DEF Contract!Next

LEMMA WakeThrowsMaps ==
  ASSUME OwnInv, NEW caller, NEW c \in Coros, WakeThrows(caller, c)
  PROVE  Contract!Next
<1>1. destination[c] \in Schedulers /\ awaiting \in [Coros -> Coros \cup {NULL}]
  BY DEF WakeThrows, OwnInv, IInv, TypeOK, Consistent
<1>2. SomeHalted /\ awaiting' = awaiting /\ state' = state
  BY <1>1 DEF WakeThrows, Rejects, SomeHalted, Unpark
<1> QED
  BY <1>1, <1>2, WakeThrowsMoves, LoseMaps

LEMMA StartMaps ==
  ASSUME OwnInv, NEW s \in Schedulers, ResumeNext(s)
  PROVE  Contract!Next
<1>1. PICK c : c = Head(local[s])
  OBVIOUS
<1>2. c \in Coros /\ Moves(c, "local", s, "running", s) /\ running[s] = NULL
  BY <1>1, ResumeNextMoves
<1>3. \A o \in Coros : Stage(o) = "running" => Site(o) # s
  <2> SUFFICES ASSUME NEW o \in Coros, Stage(o) = "running" PROVE Site(o) # s
    OBVIOUS
  <2>1. PICK k, t : At(o, k, t)
    BY DEF OwnInv, Placed
  <2>2. k = "running" /\ Site(o) = t
    BY <2>1, StageAt DEF At, Places0, StageOf
  <2>3. running[t] = o /\ o # NULL
    BY <2>1, <2>2, NullAssumption DEF At
  <2> QED
    BY <1>2, <2>2, <2>3
<1>4. UNCHANGED <<awaiting, state>>
  BY DEF ResumeNext, joins
<1>5. /\ stages[c] = "ready" /\ sites[c] = s
      /\ stages' = [stages EXCEPT ![c] = "running"] /\ sites' = [sites EXCEPT ![c] = s]
  BY <1>2, MovesMaps DEF OwnInv, StageOf
<1>6. Contract!Start(c)
  BY <1>2, <1>3, <1>4, <1>5 DEF stages, sites, Contract!Start, Contract!Move
<1> QED
  BY <1>2, <1>6 DEF Contract!Next

LEMMA ReturnMaps ==
  ASSUME OwnInv, LossInv, NEW s \in Schedulers, Return(s)
  PROVE  Contract!Next
<1>1. PICK c : c = running[s]
  OBVIOUS
<1>2. c \in Coros /\ c # NULL /\ UNCHANGED <<awaiting, state>>
  BY <1>1, RunningFacts DEF Return, joins
<1>3. CASE Moves(c, "running", s, "done", s)
  <2>1. /\ stages[c] = "running" /\ sites[c] = s
        /\ stages' = [stages EXCEPT ![c] = "done"] /\ sites' = [sites EXCEPT ![c] = s]
    BY <1>2, <1>3, MovesMaps DEF OwnInv, StageOf
  <2>2. Contract!Finish(c)
    BY <1>2, <2>1 DEF stages, sites, Contract!Finish, Contract!Move
  <2> QED
    BY <1>2, <2>2 DEF Contract!Next
<1>4. CASE co[s] = NULL /\ Moves(c, "running", s, "lost", NULL)
  BY <1>1, <1>2, <1>4, LoseMaps DEF LossInv, Unowned
<1> QED
  BY <1>1, <1>3, <1>4, ReturnMoves

LEMMA YieldMaps ==
  ASSUME OwnInv, LossInv, NEW s \in Schedulers, Yield(s)
  PROVE  Contract!Next
<1>1. PICK c : c = running[s]
  OBVIOUS
<1>2. c \in Coros /\ c # NULL /\ UNCHANGED <<awaiting, state>>
  BY <1>1, RunningFacts DEF Yield, joins
<1>3. CASE Moves(c, "running", s, "local", s)
  BY <1>2, <1>3, RequeueMaps
<1>4. CASE co[s] = NULL /\ Moves(c, "running", s, "lost", NULL)
  BY <1>1, <1>2, <1>4, LoseMaps DEF LossInv, Unowned
<1> QED
  BY <1>1, <1>3, <1>4, YieldMoves

LEMMA InitMaps == Init => Contract!Init
<1> SUFFICES ASSUME Init PROVE Contract!Init
  OBVIOUS
<1>1. \A c \in Coros : At(c, "new", NULL)
  <2>1. ToSet(<<>>) = {}
    BY DEF ToSet
  <2> QED
    BY <2>1, NullAssumption DEF Init, At, Places0
<1>2. \A c \in Coros : Stage(c) = "new" /\ Site(c) = NULL
  BY <1>1, StageAt DEF StageOf
<1>3. awaiting = [c \in Coros |-> NULL] /\ {s \in Schedulers : state[s] = "halted"} = {}
  BY DEF Init
<1> QED
  BY <1>2, <1>3 DEF Contract!Init

LEMMA StepMaps == OwnInv /\ JoinInv /\ LossInv /\ [Next]_vars => [Contract!Next]_(Contract!vars)
<1> SUFFICES ASSUME OwnInv, JoinInv, LossInv, [Next]_vars
             PROVE  Contract!Next \/ UNCHANGED Contract!vars
  OBVIOUS
<1>1. ASSUME NEW caller, NEW d \in Schedulers, Rejects(caller, d)
      PROVE  SomeHalted
  BY <1>1 DEF Rejects, SomeHalted
<1>2. ASSUME StaysAll, UNCHANGED <<awaiting, state>>
      PROVE  UNCHANGED Contract!vars
  BY <1>2, StutterMaps DEF refusers
<1>3. ASSUME NEW s \in Schedulers, RunThread(s)
      PROVE  Contract!Next \/ UNCHANGED Contract!vars
  <2>1. CASE Locked(s) \/ CleanupBatch(s)
    <3>1. UNCHANGED <<awaiting, state>>
      BY <2>1 DEF Locked, CleanupBatch, Evaluate, joins
    <3> QED
      BY <1>2, <2>1, <3>1, LockedStays
  <2>2. CASE DestroyDone(s)
    BY <2>2, DestroyMaps DEF Contract!Next
  <2>3. CASE DestroyThrows(s)
    BY <1>2, <2>3, AbortStays DEF DestroyThrows, joins
  <2>4. CASE ResumeNext(s)
    BY <2>4, StartMaps
  <2> QED
    BY <1>3, <2>1, <2>2, <2>3, <2>4 DEF RunThread
<1>4. ASSUME NEW s \in Schedulers, SpuriousWakeup(s) \/ Control(s)
      PROVE  Contract!Next \/ UNCHANGED Contract!vars
  <2>1. StaysAll /\ awaiting' = awaiting /\ state \in [Schedulers -> States]
    BY <1>4, ControlStays
    DEF SpuriousWakeup, Control, Suspend_, Resume_, Halt_, joins, OwnInv, IInv, TypeOK
  <2>2. CASE SpuriousWakeup(s) \/ Suspend_(s) \/ Resume_(s)
    <3>1. refusers' = refusers
      BY <2>1, <2>2 DEF SpuriousWakeup, Suspend_, Resume_, refusers
    <3> QED
      BY <2>1, <3>1, StutterMaps
  <2>3. CASE Halt_(s)
    <3>1. {t \in Schedulers : state[t] = "halted"}' = {t \in Schedulers : state[t] = "halted"} \cup {s}
      BY <2>1, <2>3 DEF Halt_
    <3>2. stages' = stages /\ sites' = sites
      BY <2>1, StaysMaps DEF OwnInv
    <3>3. Contract!Refuse(s)
      BY <2>1, <3>1, <3>2 DEF Contract!Refuse, stages, sites
    <3> QED
      BY <3>3 DEF Contract!Next
  <2> QED
    BY <1>4, <2>2, <2>3 DEF Control
<1>5. ASSUME NEW s \in Schedulers, CoroutineStep(s)
      PROVE  Contract!Next \/ UNCHANGED Contract!vars
  <2>1. CASE Yield(s)
    BY <2>1, YieldMaps
  <2>2. CASE Return(s)
    BY <2>2, ReturnMaps
  <2>3. ASSUME NEW k \in Coros \cup {NULL}, k # NULL => k \notin destroyed,
               Running(s), Park(s, running[s], k)
        PROVE  Contract!Next
    <3>1. PICK c : c = running[s]
      OBVIOUS
    <3>2. c \in Coros /\ Moves(c, "running", s, "blocked", s)
      BY <2>3, <3>1, RunningFacts, ParkMoves
    <3>3. awaiting' = [awaiting EXCEPT ![c] = k] /\ state' = state
      BY <2>3, <3>1 DEF Park
    <3> QED
      BY <2>3, <3>2, <3>3, SuspendMaps
  <2>4. CASE Block(s)
    BY <2>3, <2>4 DEF Block
  <2>5. ASSUME NEW k \in Coros, Join(s, k)
        PROVE  Contract!Next
    BY <2>3, <2>5 DEF Join
  <2>6. ASSUME NEW d \in Schedulers, Migrate(s, d)
        PROVE  Contract!Next
    <3>1. PICK c : c = running[s]
      OBVIOUS
    <3>2. c \in Coros /\ \E kind \in {"queue", "local"} : Moves(c, "running", s, kind, d)
      BY <2>6, <3>1, MigrateMoves, RunningFacts DEF Migrate
    <3>3. UNCHANGED <<awaiting, state>>
      BY <2>6 DEF Migrate, joins
    <3> QED
      BY <3>2, <3>3, RequeueMaps
  <2>7. ASSUME NEW k \in Coros, Throw(s) \/ JoinReady(s, k)
        PROVE  UNCHANGED Contract!vars
    BY <1>2, <2>7, AbortStays DEF Throw, JoinReady, joins
  <2>8. ASSUME NEW k \in Coros, Wake(s, k)
        PROVE  Contract!Next
    BY <2>8, UnblockMaps DEF Wake
  <2>9. ASSUME NEW k \in Coros, WakeThrows(s, k)
        PROVE  Contract!Next
    BY <2>9, WakeThrowsMaps
  <2>10. ASSUME NEW k \in Coros, NEW d \in Schedulers, Spawn(s, k, d)
         PROVE  Contract!Next
    <3>1. \E kind \in {"queue", "local"} : Moves(k, "new", NULL, kind, d)
      BY <2>10, AcceptMoves DEF Spawn
    <3>2. UNCHANGED <<awaiting, state>>
      BY <2>10 DEF Spawn
    <3> QED
      BY <3>1, <3>2, AcceptMaps
  <2>11. ASSUME NEW k \in Coros, NEW d \in Schedulers, SpawnThrows(s, k, d)
         PROVE  UNCHANGED Contract!vars
    BY <1>2, <2>11, AbortStays DEF SpawnThrows, joins
  <2>12. ASSUME NEW d \in Schedulers, MigrateThrows(s, d)
         PROVE  UNCHANGED Contract!vars
    BY <1>2, <2>12, MigrateThrowsStays DEF MigrateThrows, joins
  <2>13. CASE Throw(s)
    BY <1>2, <2>13, AbortStays DEF Throw, joins
  <2> QED
    BY <1>5, <2>1, <2>2, <2>4, <2>5, <2>6, <2>7, <2>8, <2>9, <2>10, <2>11, <2>12, <2>13
    DEF CoroutineStep, Relinquish
<1>6. ASSUME NEW t \in Threads, ThreadStep(t)
      PROVE  Contract!Next
  <2>1. ASSUME NEW c \in Coros, NEW d \in Schedulers, ThreadSchedule(t, c, d)
        PROVE  Contract!Next
    <3>1. \E kind \in {"queue", "local"} : Moves(c, "new", NULL, kind, d)
      BY <2>1, AcceptMoves DEF ThreadSchedule
    <3>2. UNCHANGED <<awaiting, state>>
      BY <2>1 DEF ThreadSchedule
    <3> QED
      BY <3>1, <3>2, AcceptMaps
  <2>2. ASSUME NEW c \in Coros, NEW d \in Schedulers, ThreadScheduleThrows(t, c, d)
        PROVE  Contract!Next
    <3>1. SomeHalted /\ UNCHANGED <<awaiting, state>>
      BY <1>1, <2>2 DEF ThreadScheduleThrows
    <3>2. Moves(c, "new", NULL, "lost", NULL)
      BY <2>2, ThreadScheduleThrowsMoves
    <3> QED
      BY <3>1, <3>2, LoseMaps
  <2>3. ASSUME NEW c \in Coros, ThreadWake(t, c)
        PROVE  Contract!Next
    BY <2>3, UnblockMaps DEF ThreadWake
  <2>4. ASSUME NEW c \in Coros, WakeThrows(NULL, c)
        PROVE  Contract!Next
    BY <2>4, WakeThrowsMaps
  <2> QED
    BY <1>6, <2>1, <2>2, <2>3, <2>4 DEF ThreadStep
<1>7. CASE UNCHANGED vars
  BY <1>2, <1>7, UnmovedStays DEF vars, thread, joins, ends
<1> QED
  BY <1>3, <1>4, <1>5, <1>6, <1>7 DEF Next

\* For any number of schedulers, coroutines and threads, what queues, batches
\* and locks do is a behaviour of the contract: one stage of life at a time,
\* one coroutine at a time on a scheduler, back to the scheduler it was
\* suspended on, joiners only after what they join is destroyed, and no loss
\* without a refusal.
THEOREM SchedulersImplementContract == Spec => ImplementsContract
<1> DEFINE Inv == OwnInv /\ JoinInv /\ LossInv
<1>1. Spec => []Inv
  BY Ownership, Joining, Losses, PTL
<1>2. Inv /\ [Next]_vars => [Contract!Next]_(Contract!vars)
  BY StepMaps
<1> QED
  BY <1>1, <1>2, InitMaps, PTL DEF Spec, ImplementsContract, Contract!Spec

-----------------------------------------------------------------------------
(* Who is parked comes back, and who is queued gets its turn.              *)

LEMMA ScheduleQueues ==
  ASSUME TypeOK, NEW caller, NEW c \in Coros, NEW d \in Schedulers, NEW points,
         Schedule_(caller, c, d, points)
  PROVE  Queued(c, d)'
<1>1. /\ queue[d] \in Seq(Coros) /\ local[d] \in Seq(Coros)
      /\ c \in ToSet(Append(queue[d], c)) /\ c \in ToSet(Append(local[d], c))
  BY ElementFacts DEF TypeOK
<1>2. \/ queue'[d] = Append(queue[d], c)
      \/ local'[d] = Append(local[d], c)
  BY DEF Schedule_, TypeOK
<1> QED
  BY <1>1, <1>2 DEF Queued

\* What may become of a coroutine that an awaitable of scheduler s holds.
ParkedMove(c, s) ==
  c \in parked /\ destination[c] = s =>
    \/ c \in parked' /\ awaiting'[c] = awaiting[c] /\ destination'[c] = s
    \/ Queued(c, s)' /\ (awaiting[c] # NULL => awaiting[c] \in destroyed' \ destroyed)
    \/ c \in lost' /\ awaiting[c] = NULL /\ state[s] = "halted"

ParkedMoves == \A c \in Coros, s \in Schedulers : ParkedMove(c, s)

LEMMA StaysParked ==
  ASSUME UNCHANGED <<parked, awaiting, destination>>
  PROVE  ParkedMoves
BY DEF ParkedMoves, ParkedMove

LEMMA UnparkMoves ==
  ASSUME IInv, NEW caller, NEW e \in parked, NEW points,
         Schedule_(caller, e, destination[e], points), Unpark(e),
         awaiting[e] = NULL \/ awaiting[e] \in destroyed' \ destroyed
  PROVE  ParkedMoves
<1>1. TypeOK /\ e \in Coros
  BY DEF IInv, TypeOK
<1>2. ASSUME NEW s \in Schedulers, destination[e] = s
      PROVE  ParkedMove(e, s)
  BY <1>1, <1>2, ScheduleQueues DEF ParkedMove
<1>3. ASSUME NEW c \in Coros, c # e, NEW s \in Schedulers
      PROVE  ParkedMove(c, s)
  BY <1>1, <1>3 DEF ParkedMove, Unpark, TypeOK
<1>4. ASSUME NEW s \in Schedulers, destination[e] # s
      PROVE  ParkedMove(e, s)
  BY <1>4 DEF ParkedMove
<1> QED
  BY <1>2, <1>3, <1>4 DEF ParkedMoves

LEMMA SuspendsParked ==
  ASSUME OwnInv, NEW s \in Schedulers, NEW k, Running(s), Park(s, running[s], k)
  PROVE  ParkedMoves
<1>1. TypeOK /\ running[s] \notin parked
  <2>1. running[s] \in Coros
    BY RunningFacts
  <2> QED
    BY <2>1, PlaceOf DEF OwnInv, IInv, At
<1> QED
  BY <1>1 DEF ParkedMoves, ParkedMove, Park, TypeOK

LEMMA WakeThrowsParked ==
  ASSUME IInv, NEW caller, NEW e \in Coros, WakeThrows(caller, e)
  PROVE  ParkedMoves
BY DEF IInv, TypeOK, WakeThrows, Rejects, Unpark, ParkedMoves, ParkedMove

LEMMA ParkedStep == OwnInv /\ [Next]_vars => [ParkedMoves]_vars
<1> SUFFICES ASSUME OwnInv, Next PROVE ParkedMoves
  OBVIOUS
<1>0. IInv
  BY DEF OwnInv
<1>1. ASSUME NEW s \in Schedulers, RunThread(s)
      PROVE  ParkedMoves
  <2>1. CASE Locked(s) \/ CleanupBatch(s)
    BY <2>1, StaysParked DEF Locked, CleanupBatch, Evaluate, joins
  <2>2. CASE DestroyDone(s)
    <3>1. CASE UNCHANGED <<parked, awaiting, destination>>
      BY <3>1, StaysParked
    <3>2. ASSUME NEW e \in parked, awaiting[e] = co[s],
                 Schedule_(s, e, destination[e], pc), Unpark(e)
          PROVE  ParkedMoves
      <4>1. co[s] \in destroyed' \ destroyed
        <5>1. PICK k : k = co[s]
          OBVIOUS
        <5>2. k \in Coros /\ Destroys(k, s)
          BY <2>2, <5>1, DestroyMoves
        <5> QED
          BY <5>1, <5>2 DEF Destroys, At
      <4> QED
        BY <1>0, <3>2, <4>1, UnparkMoves
    <3> QED
      BY <2>2, <3>1, <3>2 DEF DestroyDone
  <2>3. CASE DestroyThrows(s) \/ ResumeNext(s)
    BY <2>3, StaysParked DEF DestroyThrows, ResumeNext, joins
  <2> QED
    BY <1>1, <2>1, <2>2, <2>3 DEF RunThread
<1>2. ASSUME NEW s \in Schedulers, SpuriousWakeup(s) \/ Control(s)
      PROVE  ParkedMoves
  BY <1>2, StaysParked DEF SpuriousWakeup, Control, Suspend_, Resume_, Halt_, joins
<1>3. ASSUME NEW t, NEW c \in Coros, Wake(t, c) \/ ThreadWake(t, c) \/ WakeThrows(t, c)
      PROVE  ParkedMoves
  BY <1>0, <1>3, UnparkMoves, WakeThrowsParked DEF Wake, ThreadWake
<1>4. ASSUME NEW s \in Schedulers, CoroutineStep(s)
      PROVE  ParkedMoves
  <2>1. CASE Yield(s) \/ Return(s) \/ Throw(s)
    BY <2>1, StaysParked DEF Yield, Return, Throw, joins
  <2>2. CASE Block(s)
    BY <2>2, SuspendsParked DEF Block
  <2>3. ASSUME NEW k \in Coros, Join(s, k)
        PROVE  ParkedMoves
    BY <2>3, SuspendsParked DEF Join
  <2>4. ASSUME NEW k \in Coros, JoinReady(s, k)
        PROVE  ParkedMoves
    BY <2>4, StaysParked DEF JoinReady
  <2>5. ASSUME NEW d \in Schedulers, Migrate(s, d) \/ MigrateThrows(s, d)
        PROVE  ParkedMoves
    BY <2>5, StaysParked DEF Migrate, MigrateThrows, joins
  <2>6. ASSUME NEW k \in Coros, NEW d \in Schedulers, Spawn(s, k, d) \/ SpawnThrows(s, k, d)
        PROVE  ParkedMoves
    BY <2>6, StaysParked DEF Spawn, SpawnThrows, joins
  <2> QED
    BY <1>3, <1>4, <2>1, <2>2, <2>3, <2>4, <2>5, <2>6 DEF CoroutineStep, Relinquish
<1>5. ASSUME NEW t \in Threads, ThreadStep(t)
      PROVE  ParkedMoves
  <2>1. ASSUME NEW c \in Coros, NEW d \in Schedulers, ThreadSchedule(t, c, d) \/ ThreadScheduleThrows(t, c, d)
        PROVE  ParkedMoves
    BY <2>1, StaysParked DEF ThreadSchedule, ThreadScheduleThrows
  <2> QED
    BY <1>3, <1>5, <2>1 DEF ThreadStep
<1> QED
  BY <1>1, <1>2, <1>4, <1>5 DEF Next

\* A coroutine that is suspended on a scheduler is queued again there and nowhere
\* else, or is lost, and that only if the scheduler is halted.  One that joins is
\* never lost, and is queued in the step that destroys what it joins.
ParkedComeBack ==
  [][\A c \in parked, s \in Schedulers : destination[c] = s =>
       \/ c \in parked' /\ awaiting'[c] = awaiting[c] /\ destination'[c] = s
       \/ Queued(c, s)' /\ (awaiting[c] # NULL => awaiting[c] \in destroyed' \ destroyed)
       \/ c \in lost' /\ awaiting[c] = NULL /\ state[s] = "halted"]_vars

\* Suspending and resuming a coroutine (yield, park, reschedule, the promise's
\* cleanup) bring it back where it was, whoever resumes it and from where.
THEOREM SuspendedComeBack == Spec => ParkedComeBack
<1>1. OwnInv /\ [Next]_vars =>
        [\A c \in parked, s \in Schedulers : destination[c] = s =>
           \/ c \in parked' /\ awaiting'[c] = awaiting[c] /\ destination'[c] = s
           \/ Queued(c, s)' /\ (awaiting[c] # NULL => awaiting[c] \in destroyed' \ destroyed)
           \/ c \in lost' /\ awaiting[c] = NULL /\ state[s] = "halted"]_vars
  <2>1. OwnInv => parked \subseteq Coros
    BY DEF OwnInv, IInv, TypeOK
  <2> QED
    BY <2>1, ParkedStep DEF ParkedMoves, ParkedMove
<1> QED
  BY <1>1, Ownership, PTL DEF Spec, ParkedComeBack

\* What may become of a coroutine that is queued on scheduler s.
Turn(c, s) ==
  Queued(c, s) =>
    \/ RunningOn(c, s)'
    \/ /\ Queued(c, s)'
       /\ c \in ToSet(Batch(s)) => c \in ToSet(Batch(s)')
       /\ Batch(s) = <<>> /\ Batch(s)' # <<>> => c \in ToSet(Batch(s)')

Turns == \A c \in Coros, s \in Schedulers : Turn(c, s)

\* A step that at most appends to queues takes nobody out and begins no batch.
LEMMA TurnsAppend ==
  ASSUME IInv, count' = count, NEW d \in Schedulers, NEW e \in Coros,
         queue' = queue \/ queue' = [queue EXCEPT ![d] = Append(@, e)],
         local' = local \/ local' = [local EXCEPT ![d] = Append(@, e)]
  PROVE  Turns
<1> SUFFICES ASSUME NEW c \in Coros, NEW s \in Schedulers, Queued(c, s) PROVE Turn(c, s)
  BY DEF Turns, Turn
<1>1. /\ queue[s] \in Seq(Coros)
      /\ local[s] \in Seq(Coros) /\ count[s] \in Nat /\ count[s] <= Len(local[s])
  BY BatchSize DEF IInv, TypeOK
<1>2. /\ queue'[s] = queue[s] \/ queue'[s] = Append(queue[s], e)
      /\ local'[s] = local[s] \/ local'[s] = Append(local[s], e)
  BY DEF IInv, TypeOK
<1>3. Batch(s)' = Batch(s)
  BY <1>1, <1>2, BatchFacts DEF Batch
<1>4. Queued(c, s)'
  <2>1. /\ ToSet(Append(queue[s], e)) = ToSet(queue[s]) \cup {e}
        /\ ToSet(Append(local[s], e)) = ToSet(local[s]) \cup {e}
    BY <1>1, ElementFacts
  <2> QED
    BY <1>2, <2>1 DEF Queued
<1> QED
  BY <1>3, <1>4 DEF Turn

LEMMA SameTurns ==
  ASSUME UNCHANGED <<queue, local, count>>
  PROVE  Turns
BY DEF Turns, Turn, Queued, Batch

\* Under the lock all that is queued becomes the batch, or stays queued.
LEMMA TurnsEvaluate ==
  ASSUME IInv, NEW t \in Schedulers, NEW q \in Seq(Coros), Evaluate(t, q), count[t] = 0,
         ToSet(q) = ToSet(queue[t]) \cup ToSet(local[t])
  PROVE  Turns
<1> SUFFICES ASSUME NEW c \in Coros, NEW s \in Schedulers, Queued(c, s) PROVE Turn(c, s)
  BY DEF Turns, Turn
<1>1. CASE s # t
  BY <1>1 DEF IInv, TypeOK, Evaluate, LeaveHalted, WaitForResume, TakeBatch, WaitForCoroutines,
              Turn, Queued, Batch
<1>2. CASE s = t
  <2>1. c \in ToSet(q) /\ Batch(s) = <<>> /\ ToSet(<<>>) = {}
    <3>1. c \in ToSet(q)
      BY <1>2 DEF Queued
    <3>2. Batch(s) = <<>>
      BY <1>2, BatchSize
    <3>3. ToSet(<<>>) = {}
      BY DEF ToSet
    <3> QED
      BY <3>1, <3>2, <3>3
  <2>2. CASE TakeBatch(t, q)
    <3>1. local'[s] = q /\ count'[s] = Len(q)
      BY <1>2, <2>2 DEF TakeBatch, IInv, TypeOK
    <3>2. SubSeq(q, 1, Len(q)) = q
      BY LenProperties, SubSeqProperties
    <3>3. Batch(s)' = q /\ Queued(c, s)'
      BY <2>1, <3>1, <3>2 DEF Batch, Queued
    <3> QED
      BY <2>1, <3>3 DEF Turn
  <2>3. CASE LeaveHalted(t, q) \/ WaitForResume(t, q) \/ WaitForCoroutines(t, q)
    <3>1. queue'[s] = q /\ count'[s] = 0 /\ local'[s] = <<>>
      BY <1>2, <2>3 DEF LeaveHalted, WaitForResume, WaitForCoroutines, IInv, TypeOK
    <3>2. SubSeq(<<>>, 1, 0) = <<>>
      BY EmptyQueue, BatchFacts
    <3>3. Batch(s)' = <<>> /\ Queued(c, s)'
      BY <2>1, <3>1, <3>2 DEF Batch, Queued
    <3> QED
      BY <2>1, <3>3 DEF Turn
  <2> QED
    BY <2>2, <2>3 DEF Evaluate
<1> QED
  BY <1>1, <1>2

\* run() takes the first of the batch, and resumes it.
LEMMA TurnsResume ==
  ASSUME IInv, NEW t \in Schedulers, ResumeNext(t)
  PROVE  Turns
<1> SUFFICES ASSUME NEW c \in Coros, NEW s \in Schedulers, Queued(c, s) PROVE Turn(c, s)
  BY DEF Turns, Turn
<1>1. CASE s # t
  BY <1>1 DEF IInv, TypeOK, ResumeNext, Turn, Queued, Batch
<1>2. CASE s = t
  <2>1. /\ local'[s] = Tail(local[s]) /\ count'[s] = count[s] - 1 /\ count[s] > 0
        /\ queue' = queue /\ running'[s] = Head(local[s])
    BY <1>2 DEF IInv, TypeOK, ResumeNext
  <2>2. local[s] \in Seq(Coros) /\ count[s] \in Nat /\ count[s] <= Len(local[s]) /\ local[s] # <<>>
    BY <2>1, BatchSize, CoroutineQueues
  <2>3. Batch(s) # <<>> /\ Batch(s)' = Tail(Batch(s))
    BY <2>1, <2>2, BatchFacts DEF Batch
  <2>4. Batch(s) \in Seq(Coros) /\ Head(Batch(s)) = Head(local[s])
    BY <2>1, <2>2, SubSeqProperties DEF Batch
  <2>5. CASE c = Head(local[s])
    BY <2>1, <2>5 DEF Turn, RunningOn
  <2>6. CASE c # Head(local[s])
    <3>1. Queued(c, s)'
      BY <2>1, <2>2, <2>6, ElementFacts DEF Queued
    <3>2. c \in ToSet(Batch(s)) => c \in ToSet(Batch(s)')
      BY <2>3, <2>4, <2>6, ElementFacts
    <3> QED
      BY <2>3, <3>1, <3>2 DEF Turn
  <2> QED
    BY <2>5, <2>6
<1> QED
  BY <1>1, <1>2

LEMMA TurnStep == OwnInv /\ [Next]_vars => [Turns]_vars
<1> SUFFICES ASSUME OwnInv, Next PROVE Turns
  OBVIOUS
<1>0. IInv
  BY DEF OwnInv
<1>1. ASSUME NEW t \in Schedulers, RunThread(t)
      PROVE  Turns
  <2>1. CASE Locked(t)
    <3>1. count[t] = 0 /\ local[t] = <<>> /\ queue[t] \in Seq(Coros)
      BY <1>0, <2>1 DEF Locked, IInv, TypeOK, Consistent, BatchCovered
    <3>2. ToSet(queue[t]) = ToSet(queue[t]) \cup ToSet(local[t])
      BY <3>1 DEF ToSet
    <3> QED
      BY <1>0, <2>1, <3>1, <3>2, TurnsEvaluate DEF Locked
  <2>2. CASE CleanupBatch(t)
    <3>1. /\ queue[t] \o local[t] \in Seq(Coros)
          /\ ToSet(queue[t] \o local[t]) = ToSet(queue[t]) \cup ToSet(local[t])
      BY <1>0, ConcatFacts DEF IInv, TypeOK
    <3> QED
      BY <1>0, <2>2, <3>1, TurnsEvaluate DEF CleanupBatch
  <2>3. CASE DestroyDone(t)
    <3>1. CASE UNCHANGED <<queue, local>>
      BY <2>3, <3>1, SameTurns DEF DestroyDone
    <3>2. ASSUME NEW c \in parked, Schedule_(t, c, destination[c], pc)
          PROVE  Turns
      <4>1. c \in Coros /\ destination[c] \in Schedulers
        BY <1>0 DEF IInv, TypeOK, Consistent
      <4> QED
        BY <1>0, <2>3, <3>2, <4>1, TurnsAppend DEF DestroyDone, Schedule_
    <3> QED
      BY <2>3, <3>1, <3>2 DEF DestroyDone
  <2>4. CASE DestroyThrows(t)
    BY <2>4, SameTurns DEF DestroyThrows, thread
  <2>5. CASE ResumeNext(t)
    BY <1>0, <2>5, TurnsResume
  <2> QED
    BY <1>1, <2>1, <2>2, <2>3, <2>4, <2>5 DEF RunThread
<1>2. ASSUME NEW t \in Schedulers, SpuriousWakeup(t) \/ Control(t)
      PROVE  Turns
  BY <1>2, SameTurns DEF SpuriousWakeup, Control, Suspend_, Resume_, Halt_
<1>3. ASSUME NEW t, NEW c \in Coros, NEW d \in Schedulers, NEW points,
             Schedule_(t, c, d, points), count' = count
      PROVE  Turns
  BY <1>0, <1>3, TurnsAppend DEF Schedule_
<1>4. ASSUME NEW t, NEW c \in Coros, Wake(t, c) \/ ThreadWake(t, c) \/ WakeThrows(t, c)
      PROVE  Turns
  <2>1. destination[c] \in Schedulers
    BY <1>0, <1>4 DEF Wake, ThreadWake, WakeThrows, IInv, Consistent
  <2> QED
    BY <1>3, <1>4, <2>1, SameTurns DEF Wake, ThreadWake, WakeThrows, thread
<1>5. ASSUME NEW t \in Schedulers, CoroutineStep(t)
      PROVE  Turns
  <2>0. Running(t) => running[t] \in Coros
    BY RunningFacts
  <2>1. CASE Yield(t)
    BY <1>0, <2>0, <2>1, TurnsAppend DEF Yield
  <2>2. ASSUME NEW k \in Coros, Join(t, k) \/ JoinReady(t, k)
        PROVE  Turns
    BY <2>2, SameTurns DEF Join, Park, JoinReady, thread
  <2>3. CASE Block(t) \/ Return(t) \/ Throw(t)
    BY <2>3, SameTurns DEF Block, Park, Return, Throw, thread
  <2>4. ASSUME NEW d \in Schedulers, Migrate(t, d)
        PROVE  Turns
    BY <1>3, <2>0, <2>4 DEF Migrate
  <2>5. ASSUME NEW k \in Coros, NEW d \in Schedulers, Spawn(t, k, d)
        PROVE  Turns
    BY <1>3, <2>5 DEF Spawn
  <2>6. ASSUME NEW k \in Coros, NEW d \in Schedulers, SpawnThrows(t, k, d)
        PROVE  Turns
    BY <2>6, SameTurns DEF SpawnThrows, thread
  <2>7. ASSUME NEW d \in Schedulers, MigrateThrows(t, d)
        PROVE  Turns
    BY <2>7, SameTurns DEF MigrateThrows
  <2> QED
    BY <1>4, <1>5, <2>1, <2>2, <2>3, <2>4, <2>5, <2>6, <2>7 DEF CoroutineStep, Relinquish
<1>6. ASSUME NEW t \in Threads, ThreadStep(t)
      PROVE  Turns
  <2>1. ASSUME NEW c \in Coros, NEW d \in Schedulers, ThreadSchedule(t, c, d) \/ ThreadScheduleThrows(t, c, d)
        PROVE  Turns
    BY <1>3, <2>1, SameTurns DEF ThreadSchedule, ThreadScheduleThrows, thread
  <2> QED
    BY <1>4, <1>6, <2>1 DEF ThreadStep
<1> QED
  BY <1>1, <1>2, <1>5, <1>6 DEF Next

\* A queued coroutine stays queued on its scheduler until it is resumed there; once in
\* a batch it stays in it; and a batch that begins has all that were queued.
TurnsCome ==
  [][\A c \in Coros, s \in Schedulers : Queued(c, s) =>
       \/ RunningOn(c, s)'
       \/ /\ Queued(c, s)'
          /\ c \in ToSet(Batch(s)) => c \in ToSet(Batch(s)')
          /\ Batch(s) = <<>> /\ Batch(s)' # <<>> => c \in ToSet(Batch(s)')]_vars

\* The safety half of QueuedRuns: no more than the rest of one batch and one batch
\* go before a coroutine that is queued, whoever yields and whatever is pushed.
THEOREM EveryBatchTakesAll == Spec => TurnsCome
<1>1. OwnInv /\ [Next]_vars =>
        [\A c \in Coros, s \in Schedulers : Queued(c, s) =>
           \/ RunningOn(c, s)'
           \/ /\ Queued(c, s)'
              /\ c \in ToSet(Batch(s)) => c \in ToSet(Batch(s)')
              /\ Batch(s) = <<>> /\ Batch(s)' # <<>> => c \in ToSet(Batch(s)')]_vars
  BY TurnStep DEF Turns, Turn
<1> QED
  BY <1>1, Ownership, PTL DEF Spec, TurnsCome
=============================================================================
