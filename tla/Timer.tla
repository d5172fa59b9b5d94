--------------------------------- MODULE Timer ---------------------------------
(***************************************************************************)
(* hce::timer::service: a list of timers sorted by their timeouts, and one *)
(* thread, launched by the first start(), that sleeps on a condition       *)
(* variable, busy-waits when a timeout is near, and resumes the awaitables *)
(* of the timers that have timed out.                                      *)
(*                                                                         *)
(* One action is one critical section of the service's spinlock, or one    *)
(* step taken without it.  Time is the variable clock, which other actions *)
(* read; a sid is the timer it was given to.                               *)
(***************************************************************************)
EXTENDS Integers, Sequences, SequencesExt

CONSTANTS
  Timers,     \* the sids that start() may hand out
  MaxTime,    \* bound: where the clock stops
  BusyWait,   \* busy_wait_threshold_
  EarlyWake,  \* early_wakeup_threshold()
  EarlyLong   \* early_wakeup_long_threshold()

ASSUME ThresholdAssumption == {MaxTime, BusyWait, EarlyWake, EarlyLong} \subseteq Nat

VARIABLES
  clock,      \* the time
  deadline,   \* timer::timeout
  started,    \* timers that were started
  timers_,    \* service::timers_
  running_,   \* service::running_
  waiting_,   \* service::waiting_
  pc,         \* where the service's thread stands
  now,        \* run()'s now
  timeout,    \* run()'s timeout
  timed_out,  \* run()'s timed_out
  canceled,   \* timers that a cancel() took out and is about to resume
  ready,      \* timers whose awaitable is ready_
  result,     \* timers whose awaitable has the result_ true
  stopped,    \* ~service was called
  stuck,      \* a thread spins forever in cancel() and holds the lock
  empty_front \* front() was called on the empty list

clocks == <<clock, now, timeout>>
lists == <<timers_, timed_out, canceled>>
flags == <<running_, waiting_, stopped>>
awaitables == <<ready, result>>
vars == <<clocks, deadline, started, lists, flags, pc, awaitables, stuck, empty_front>>

Times == 0 .. MaxTime
Points == {"off", "top", "sleeping", "waiting", "resuming", "busyRead", "busyCheck", "exited"}

\* An awaitable with the result true is ready.
TypeOK ==
  /\ {clock, now, timeout} \subseteq Times
  /\ deadline \in [Timers -> Times]
  /\ started \in SUBSET Timers
  /\ timers_ \in Seq(Timers)
  /\ timed_out \in Seq(Timers)
  /\ canceled \in SUBSET Timers
  /\ {running_, waiting_, stopped, stuck, empty_front} \subseteq BOOLEAN
  /\ pc \in Points
  /\ ready \in SUBSET Timers
  /\ result \in SUBSET ready

Init ==
  /\ clock = 0 /\ now = 0 /\ timeout = 0
  /\ deadline = [t \in Timers |-> 0]
  /\ started = {}
  /\ timers_ = <<>> /\ timed_out = <<>> /\ canceled = {}
  /\ running_ = FALSE /\ waiting_ = FALSE /\ stopped = FALSE
  /\ pc = "off"
  /\ ready = {} /\ result = {}
  /\ stuck = FALSE /\ empty_front = FALSE

\* Whether the lock can be taken.
Free == ~stuck

-----------------------------------------------------------------------------

\* Mutant: the flag is cleared and nobody is notified.
Mut_notify_(point) == waiting_' = FALSE /\ pc' = point

notify_(point) ==
  /\ waiting_' = FALSE
  /\ pc' = IF waiting_ /\ point \in {"sleeping", "waiting"} THEN "top" ELSE point

\* awaitable::on_resume(), in resume()
Resume(t, m) ==
  /\ ready' = ready \cup {t}
  /\ result' = (IF m THEN result \cup {t} ELSE result)

\* Mutant: the list is not sorted.
Mut_Insert(t, d) == timers_' = Append(timers_, t)

\* push_back() and a stable sort() of a list that was sorted: the timer goes
\* behind those that are not later.
Insert(t, d) ==
  \E k \in 0 .. Len(timers_) :
    /\ \A i \in DOMAIN timers_ : deadline[timers_[i]] <= d <=> i <= k
    /\ timers_' = InsertAt(timers_, k + 1, t)

\* start_(), from any thread; the first one launches the service's thread.
Start(t, d) ==
  /\ Free /\ ~stopped
  /\ t \notin started
  /\ started' = started \cup {t}
  /\ deadline' = [deadline EXCEPT ![t] = d]
  /\ Insert(t, d)
  /\ running_' = TRUE
  /\ notify_(IF running_ THEN pc ELSE "top")
  /\ UNCHANGED <<clocks, timed_out, canceled, stopped, awaitables, stuck, empty_front>>

\* Mutant: a canceled timer stays in the list.
Mut_Cancel(t) ==
  /\ Free /\ ~stopped /\ running_
  /\ t \in started /\ timers_ # <<>>
  /\ t = Head(timers_)
  /\ canceled' = canceled \cup {t}
  /\ notify_(pc)
  /\ UNCHANGED <<clocks, deadline, started, timers_, timed_out, running_, stopped, awaitables,
                 stuck, empty_front>>

\* cancel() of a sid, which may be one whose timer has timed out.  The search
\* never advances its iterator: it ends at the first timer or never.  (With an
\* empty list it returns false and changes nothing.)
Cancel(t) ==
  /\ Free /\ ~stopped /\ running_
  /\ t \in started /\ timers_ # <<>>
  /\ \/ /\ t = Head(timers_)
        /\ timers_' = Tail(timers_)
        /\ canceled' = canceled \cup {t}
        /\ notify_(pc)
        /\ UNCHANGED stuck
     \/ /\ t # Head(timers_)
        /\ stuck' = TRUE
        /\ UNCHANGED <<timers_, canceled, waiting_, pc>>
  /\ UNCHANGED <<clocks, deadline, started, timed_out, running_, stopped, awaitables, empty_front>>

\* The rest of cancel(), after it has released the lock.
ResumeCanceled(t) ==
  /\ t \in canceled
  /\ canceled' = canceled \ {t}
  /\ Resume(t, FALSE)
  /\ UNCHANGED <<clocks, deadline, started, timers_, timed_out, flags, pc, stuck, empty_front>>

-----------------------------------------------------------------------------
(* run(): the service's thread.                                            *)

Exit ==
  /\ pc = "top" /\ Free /\ ~running_
  /\ pc' = "exited"
  /\ UNCHANGED <<clocks, deadline, started, lists, flags, awaitables, stuck, empty_front>>

Sleep ==
  /\ pc = "top" /\ Free /\ running_ /\ timers_ = <<>>
  /\ pc' = "sleeping"
  /\ waiting_' = TRUE
  /\ UNCHANGED <<clocks, deadline, started, lists, running_, stopped, awaitables, stuck, empty_front>>

\* Mutant: a timer that is near its timeout counts as timed out.
Mut_Due(t, n) == deadline[t] <= n + BusyWait

Due(t, n) == deadline[t] <= n

\* The timers at the front of the list leave it, up to the first that is not due.
Expire ==
  /\ pc = "top" /\ Free /\ running_
  /\ timers_ # <<>> /\ Due(Head(timers_), clock)
  /\ now' = clock
  /\ \E k \in DOMAIN timers_ :
       /\ \A i \in 1 .. k : Due(timers_[i], clock)
       /\ k < Len(timers_) => ~Due(timers_[k + 1], clock)
       /\ timed_out' = SubSeq(timers_, 1, k)
       /\ timers_' = SubSeq(timers_, k + 1, Len(timers_))
  /\ pc' = "resuming"
  /\ UNCHANGED <<clock, timeout, deadline, started, canceled, flags, awaitables, stuck, empty_front>>

\* The awaitables are resumed without the lock, which is then taken again.
ResumeExpired ==
  /\ pc = "resuming"
  /\ timed_out # <<>>
  /\ Resume(Head(timed_out), TRUE)
  /\ timed_out' = Tail(timed_out)
  /\ UNCHANGED <<clocks, deadline, started, timers_, canceled, flags, pc, stuck, empty_front>>

Relock ==
  /\ pc = "resuming" /\ Free
  /\ timed_out = <<>>
  /\ pc' = "top"
  /\ UNCHANGED <<clocks, deadline, started, lists, flags, awaitables, stuck, empty_front>>

below_busy_wait_threshold(n, d) == n < d /\ d - n <= BusyWait

default_timeout_algorithm(n, d) ==
  IF d - n > EarlyLong THEN d - EarlyLong
  ELSE IF d - n < EarlyWake THEN d - BusyWait
  ELSE n + EarlyWake

\* No timer is due: busy-wait for the first, or sleep until its timeout or the
\* earlier moment that the algorithm picks.
WaitForFirst ==
  /\ pc = "top" /\ Free /\ running_
  /\ timers_ # <<>> /\ ~Due(Head(timers_), clock)
  /\ now' = clock
  /\ LET first == deadline[Head(timers_)]
         picked == default_timeout_algorithm(clock, first)
     IN \/ /\ below_busy_wait_threshold(clock, first)
           /\ timeout' = first
           /\ pc' = "busyRead"
           /\ UNCHANGED waiting_
        \/ /\ ~below_busy_wait_threshold(clock, first)
           /\ timeout' = IF picked < first THEN picked ELSE first
           /\ pc' = "waiting"
           /\ waiting_' = TRUE
  /\ UNCHANGED <<clock, deadline, started, lists, running_, stopped, awaitables, stuck, empty_front>>

\* wait_until() reaches its timeout.
TimedWake ==
  /\ pc = "waiting" /\ Free /\ clock >= timeout
  /\ pc' = "top"
  /\ UNCHANGED <<clocks, deadline, started, lists, flags, awaitables, stuck, empty_front>>

SpuriousWake ==
  /\ pc \in {"sleeping", "waiting"} /\ Free
  /\ pc' = "top"
  /\ UNCHANGED <<clocks, deadline, started, lists, flags, awaitables, stuck, empty_front>>

\* The busy-wait reads the time without the lock ...
BusyRead ==
  /\ pc = "busyRead"
  /\ now' = clock
  /\ pc' = "busyCheck"
  /\ UNCHANGED <<clock, timeout, deadline, started, lists, flags, awaitables, stuck, empty_front>>

\* ... and with it the first timeout of a list that may have become empty.
BusyCheck ==
  /\ pc = "busyCheck" /\ Free
  /\ \/ /\ timers_ = <<>>
        /\ empty_front' = TRUE
        /\ UNCHANGED <<timeout, pc>>
     \/ /\ timers_ # <<>>
        /\ timeout' = deadline[Head(timers_)]
        /\ pc' = IF below_busy_wait_threshold(now, timeout') THEN "busyRead" ELSE "top"
        /\ UNCHANGED empty_front
  /\ UNCHANGED <<clock, now, deadline, started, lists, flags, awaitables, stuck>>

-----------------------------------------------------------------------------

\* ~service tells the thread to stop, and joins it if there is one.
Stop ==
  /\ Free /\ ~stopped
  /\ stopped' = TRUE
  /\ running_' = FALSE
  /\ notify_(pc)
  /\ UNCHANGED <<clocks, deadline, started, lists, awaitables, stuck, empty_front>>

\* Then it cancels the timers that are left.
Drain ==
  /\ stopped /\ pc \in {"off", "exited"}
  /\ timers_ # <<>>
  /\ timers_' = Tail(timers_)
  /\ Resume(Head(timers_), FALSE)
  /\ UNCHANGED <<clocks, deadline, started, timed_out, canceled, flags, pc, stuck, empty_front>>

\* Time passes; before the first timer nobody reads it.
Tick ==
  /\ started # {} /\ clock < MaxTime
  /\ clock' = clock + 1
  /\ UNCHANGED <<now, timeout, deadline, started, lists, flags, pc, awaitables, stuck, empty_front>>

ServiceThread ==
  \/ Exit \/ Sleep \/ Expire \/ ResumeExpired \/ Relock \/ WaitForFirst \/ TimedWake
  \/ BusyRead \/ BusyCheck

Next ==
  /\ ~empty_front
  /\ \/ \E t \in Timers, d \in Times : Start(t, d)
     \/ \E t \in Timers : Cancel(t) \/ ResumeCanceled(t)
     \/ ServiceThread \/ SpuriousWake \/ Stop \/ Drain \/ Tick

Spec == Init /\ [][Next]_vars

(***************************************************************************)
(* The operating system runs the service's thread and the threads that are *)
(* inside cancel() and ~service; time passes.  Nobody has to start, cancel *)
(* or stop anything, and no spurious wakeup may be counted on.             *)
(***************************************************************************)
Fairness ==
  /\ WF_vars(~empty_front /\ ServiceThread)
  /\ WF_vars(~empty_front /\ Drain)
  /\ WF_vars(~empty_front /\ Tick)
  /\ \A t \in Timers : WF_vars(~empty_front /\ ResumeCanceled(t))

FairSpec == Spec /\ Fairness

-----------------------------------------------------------------------------
(* Properties.                                                             *)

Places(t) ==
  {<<"list", i>> : i \in {i \in DOMAIN timers_ : timers_[i] = t}}
  \cup {<<"expired", i>> : i \in {i \in DOMAIN timed_out : timed_out[i] = t}}
  \cup {<<"canceled", 0>> : u \in canceled \cap {t}}
  \cup {<<"ready", 0>> : u \in ready \cap {t}}

\* The awaitable of a timer that was started is resumed by exactly one of the
\* service's thread, a cancel() and ~service, whatever order they come in: it
\* is in the list, with one of them, or resumed.  (~awaitable terminates the
\* process when nobody has resumed it, and a second resume() would follow a
\* pointer to an awaitable its owner may have freed.)
ResumedOnce == \A t \in started : \E p \in Places(t) : Places(t) = {p}

\* No awaitable says true before its timer's timeout is reached.
NeverEarly == \A t \in result : deadline[t] <= clock

\* The thread never sleeps through a timeout: while it waits and nobody has
\* notified it, no timer in the list is due before it wakes by itself, and
\* it has not been told to stop.
NoOversleep ==
  /\ pc = "sleeping" => timers_ = <<>> /\ running_
  /\ pc = "waiting" => running_ /\ \A i \in DOMAIN timers_ : timeout <= deadline[timers_[i]]

-----------------------------------------------------------------------------
(* The contract of the service.                                            *)

AlarmOf(t) ==
  IF t \in result THEN "true"
  ELSE IF t \in ready THEN "false"
  ELSE IF t \in canceled THEN "canceled"
  ELSE IF t \in ToSet(timed_out) THEN "expired"
  ELSE IF t \in ToSet(timers_) THEN "set" ELSE "new"

Contract ==
  INSTANCE Alarms WITH
    due <- deadline,
    alarm <- [t \in Timers |-> AlarmOf(t)],
    closed <- stopped

\* The service is one of alarms: the list, the batches its thread takes out of it
\* and what it does between two critical sections are not to be seen.
ImplementsAlarms == Contract!Spec

-----------------------------------------------------------------------------
(* Liveness, and what the code does not do.                                *)

\* Every timer's awaitable is eventually resumed, unless a cancel() spins
\* forever or the busy-wait has read from an empty list.
EveryTimerEnds == \A t \in Timers : t \in started ~> (t \in ready \/ stuck \/ empty_front)

\* What the comment of hce::timer::cancel() says (timer.hpp:598): it returns,
\* with false when the timer has already timed out.
CancelReturns == ~stuck
=============================================================================
