---------------------------- MODULE ServicesProofs ----------------------------
(***************************************************************************)
(* Theorems about the timer service, the threadpool and the scope of       *)
(* module Services, for any number of timers, callers, schedulers and      *)
(* adders, any load and any thresholds of the timer's algorithm.           *)
(*                                                                         *)
(* A timer is resumed once and not early because it is always in exactly   *)
(* one place (Placed) and leaves the list, which stays sorted (Sorted),    *)
(* for the thread only when it is due (Late).  The thread oversleeps       *)
(* nothing because whatever changes the list notifies a thread that waits  *)
(* (Watched), and it waits no longer than until the first timeout.         *)
(*                                                                         *)
(* What lightest() picks is the lightest of what it has read by the loop   *)
(* invariant of its two loops (Scanning): the indices between the starting *)
(* index and the current one have been read, and the best reading is kept. *)
(* The other threads change the counts in between, never the readings.     *)
(*                                                                         *)
(* await() joins what was added before because every coroutine that a      *)
(* scope was given is in one place (Accounted): refused by the closed      *)
(* channel, in the channel, in the hands of the root awaiter, or joined.   *)
(* What the root awaiter holds is told by where it stands (RootAt).        *)
(***************************************************************************)
EXTENDS Services, ListFacts

-----------------------------------------------------------------------------
(* The timer service.                                                      *)

Listed == ToSet(timers_)
Expired == ToSet(timed_out)

\* A timer that was started is in the list, with the thread, with a cancel(), or
\* resumed, and in no two of these.
Placed ==
  /\ IsInjective(timers_) /\ IsInjective(timed_out)
  /\ started = Listed \cup Expired \cup canceled \cup ready
  /\ Listed \cap Expired = {} /\ Listed \cap canceled = {} /\ Listed \cap ready = {}
  /\ Expired \cap canceled = {} /\ Expired \cap ready = {} /\ canceled \cap ready = {}

Sorted ==
  \A i, j \in DOMAIN timers_ : i <= j => deadline[timers_[i]] <= deadline[timers_[j]]

\* What the thread takes out of the list, and what it says true to, is due.
Late == \A t \in Expired \cup result : deadline[t] <= clock

\* A thread that waits is notified of every change, and timed_out outlives no
\* turn of its loop.
Watched ==
  /\ pc \in {"sleeping", "waiting"} => waiting_
  /\ pc # "resuming" => timed_out = <<>>
  /\ ~running_ /\ ~stopped => pc = "off"

\* The inductive invariant.
TimerInv == TypeOK /\ Placed /\ Sorted /\ Late /\ Watched /\ NoOversleep

\* The conjuncts of the type invariant, one by one.
LEMMA TimerTyped ==
  TypeOK <=>
    /\ clock \in Times /\ now \in Times /\ timeout \in Times
    /\ deadline \in [Timers -> Times]
    /\ started \in SUBSET Timers
    /\ timers_ \in Seq(Timers) /\ timed_out \in Seq(Timers)
    /\ canceled \in SUBSET Timers
    /\ running_ \in BOOLEAN /\ waiting_ \in BOOLEAN /\ stopped \in BOOLEAN
    /\ stuck \in BOOLEAN /\ empty_front \in BOOLEAN
    /\ pc \in Points
    /\ ready \in SUBSET Timers /\ result \in SUBSET ready
BY DEF TypeOK

LEMMA TimerTypedNext ==
  TypeOK' <=>
    /\ clock' \in Times /\ now' \in Times /\ timeout' \in Times
    /\ deadline' \in [Timers -> Times]
    /\ started' \in SUBSET Timers
    /\ timers_' \in Seq(Timers) /\ timed_out' \in Seq(Timers)
    /\ canceled' \in SUBSET Timers
    /\ running_' \in BOOLEAN /\ waiting_' \in BOOLEAN /\ stopped' \in BOOLEAN
    /\ stuck' \in BOOLEAN /\ empty_front' \in BOOLEAN
    /\ pc' \in Points
    /\ ready' \in SUBSET Timers /\ result' \in SUBSET ready'
BY DEF TypeOK

LEMMA TimesAreNat == /\ Times \subseteq Nat /\ 0 \in Times
                     /\ \A d \in Times, n \in Nat : n <= d => n \in Times
BY ThresholdAssumption DEF Times

LEMMA TimerInit == Init => TimerInv
<1> SUFFICES ASSUME Init PROVE TimerInv
  OBVIOUS
<1>0. ToSet(<<>>) = {} /\ IsInjective(<<>>) /\ <<>> \in Seq(Timers)
  BY DEF ToSet, IsInjective
<1>1. TypeOK
  BY <1>0, TimesAreNat, TimerTyped DEF Init, Points
<1>2. Placed /\ Sorted /\ Late
  BY <1>0 DEF Init, Placed, Sorted, Late, Listed, Expired
<1>3. Watched /\ NoOversleep
  BY DEF Init, Watched, NoOversleep
<1> QED
  BY <1>1, <1>2, <1>3 DEF TimerInv

\* Whatever moves no timer leaves each in its place and in its order.
LEMMA TimersStay ==
  ASSUME Placed, Sorted, Late, TypeOK, clock' \in Times, clock <= clock',
         UNCHANGED <<deadline, started, lists, awaitables>>
  PROVE  Placed' /\ Sorted' /\ Late'
<1>1. Placed' /\ Sorted'
  BY DEF lists, awaitables, Placed, Sorted, Listed, Expired
<1>2. \A t \in Expired \cup result : deadline[t] \in Nat
  <2>1. Expired \subseteq Timers /\ result \subseteq Timers
    BY TimerTyped, ElementFacts DEF Expired
  <2> QED
    BY <2>1, TimerTyped, TimesAreNat
<1>3. clock \in Nat /\ clock' \in Nat
  BY TimerTyped, TimesAreNat
<1>4. Late'
  BY <1>2, <1>3 DEF lists, awaitables, Late, Expired
<1> QED
  BY <1>1, <1>4

\* The steps of the thread, and of others, that only decide where it goes.
LEMMA ControlStep ==
  ASSUME TimerInv,
         Exit \/ Sleep \/ Relock \/ TimedWake \/ SpuriousWake \/ BusyRead \/ BusyCheck \/ Stop \/ Tick
  PROVE  TimerInv'
<1>0. TypeOK /\ Placed /\ Sorted /\ Late /\ Watched /\ NoOversleep
  BY DEF TimerInv
<1>a. clock \in Nat /\ clock + 1 \in Nat /\ (clock < MaxTime => clock + 1 \in Times)
      /\ \A i \in DOMAIN timers_ : deadline[timers_[i]] \in Times
  <2>1. \A i \in DOMAIN timers_ : timers_[i] \in Timers
    BY <1>0, TimerTyped, ElementOfSeq, LenProperties
  <2> QED
    BY <1>0, <2>1, TimerTyped, TimesAreNat, ThresholdAssumption DEF Times
<1>b. timers_ # <<>> => Head(timers_) = timers_[1] /\ 1 \in DOMAIN timers_
  BY <1>0, TimerTyped, QueueFacts, LenProperties
<1>1. TypeOK'
  <2>1. clock' \in Times /\ now' \in Times /\ timeout' \in Times
    BY <1>0, <1>a, <1>b, TimerTyped DEF clocks, Exit, Sleep, Relock, TimedWake, SpuriousWake, BusyRead, BusyCheck, Stop, Tick
  <2>2. pc' \in Points /\ running_' \in BOOLEAN /\ waiting_' \in BOOLEAN /\ stopped' \in BOOLEAN
    BY <1>0, TimerTyped DEF flags, notify_, Points, Exit, Sleep, Relock, TimedWake, SpuriousWake, BusyRead, BusyCheck, Stop, Tick
  <2>3. empty_front' \in BOOLEAN /\ UNCHANGED <<deadline, started, lists, awaitables, stuck>>
    BY <1>0, TimerTyped DEF Exit, Sleep, Relock, TimedWake, SpuriousWake, BusyRead, BusyCheck, Stop, Tick
  <2> QED
    BY <1>0, <2>1, <2>2, <2>3, TimerTyped, TimerTypedNext DEF lists, awaitables
<1>2. Placed' /\ Sorted' /\ Late'
  <2>1. clock <= clock' /\ UNCHANGED <<deadline, started, lists, awaitables>>
    BY <1>a DEF clocks, Exit, Sleep, Relock, TimedWake, SpuriousWake, BusyRead, BusyCheck, Stop, Tick
  <2>2. clock' \in Times
    BY <1>1, TimerTypedNext
  <2> QED
    BY <1>0, <2>1, <2>2, TimersStay
<1>3. Watched'
  BY <1>0 DEF Watched, lists, flags, notify_, Exit, Sleep, Relock, TimedWake, SpuriousWake, BusyRead, BusyCheck, Stop, Tick
<1>4. NoOversleep'
  BY <1>0 DEF NoOversleep, Watched, clocks, lists, flags, notify_,
              Exit, Sleep, Relock, TimedWake, SpuriousWake, BusyRead, BusyCheck, Stop, Tick
<1> QED
  BY <1>1, <1>2, <1>3, <1>4 DEF TimerInv

\* A timer is started: it joins the list behind those that are not later.
LEMMA StartStep ==
  ASSUME TimerInv, NEW t \in Timers, NEW d \in Times, Start(t, d)
  PROVE  TimerInv'
<1>0. TypeOK /\ Placed /\ Sorted /\ Late /\ Watched /\ NoOversleep
  BY DEF TimerInv
<1>a. PICK k \in 0 .. Len(timers_) :
        /\ \A i \in DOMAIN timers_ : deadline[timers_[i]] <= d <=> i <= k
        /\ timers_' = InsertAt(timers_, k + 1, t)
  BY DEF Start, Insert
<1>b. /\ timers_ \in Seq(Timers) /\ Len(timers_) \in Nat /\ DOMAIN timers_ = 1 .. Len(timers_)
      /\ t \notin started
      /\ started' = started \cup {t}
      /\ deadline' = [deadline EXCEPT ![t] = d]
      /\ UNCHANGED <<clock, now, timeout, timed_out, canceled, ready, result, stopped, stuck, empty_front>>
      /\ running_' = TRUE /\ waiting_' = FALSE
  BY <1>0, TimerTyped, LenProperties DEF Start, notify_, clocks, awaitables
<1>c. /\ timers_' \in Seq(Timers) /\ DOMAIN timers_' = 1 .. Len(timers_) + 1
      /\ timers_'[k + 1] = t
      /\ \A i \in 1 .. k : timers_'[i] = timers_[i]
      /\ \A i \in k + 2 .. Len(timers_) + 1 : i - 1 \in DOMAIN timers_ /\ timers_'[i] = timers_[i - 1]
      /\ ToSet(timers_') = ToSet(timers_) \cup {t}
      /\ IsInjective(timers_) /\ t \notin ToSet(timers_) => IsInjective(timers_')
  <2> DEFINE r == InsertAt(timers_, k + 1, t)
  <2>1. timers_ \in Seq(Timers) /\ k \in 0 .. Len(timers_) /\ t \in Timers
    BY <1>b
  <2>2. /\ r \in Seq(Timers) /\ DOMAIN r = 1 .. Len(timers_) + 1
        /\ r[k + 1] = t
        /\ \A i \in 1 .. k : r[i] = timers_[i]
        /\ \A i \in k + 2 .. Len(timers_) + 1 : i - 1 \in DOMAIN timers_ /\ r[i] = timers_[i - 1]
        /\ ToSet(r) = ToSet(timers_) \cup {t}
        /\ IsInjective(timers_) /\ t \notin ToSet(timers_) => IsInjective(r)
    BY <2>1, InsertFacts
  <2>3. timers_' = r
    BY <1>a
  <2> HIDE DEF r
  <2> QED
    BY <2>2, <2>3
<1>d. /\ \A u \in Timers \ {t} : deadline'[u] = deadline[u]
      /\ deadline'[t] = d /\ deadline' \in [Timers -> Times]
  BY <1>0, <1>b, TimerTyped
<1>e. pc' \in Points /\ pc' \notin {"sleeping", "waiting"} /\ (pc' = "resuming" \/ pc # "resuming")
  <2>1. CASE running_
    BY <1>0, <2>1, TimerTyped DEF Watched, Start, notify_, Points
  <2>2. CASE ~running_
    BY <1>0, <2>2, TimerTyped DEF Watched, Start, notify_, Points
  <2> QED
    BY <2>1, <2>2
<1>1. TypeOK'
  BY <1>0, <1>b, <1>c, <1>d, <1>e, TimerTyped, TimerTypedNext
<1>2. Placed'
  BY <1>0, <1>b, <1>c DEF Placed, Listed, Expired
<1>3. Sorted'
  <2>1. \A i \in DOMAIN timers_ : timers_[i] \in Timers \ {t} /\ deadline[timers_[i]] \in Nat
    <3>1. \A i \in DOMAIN timers_ : timers_[i] \in ToSet(timers_)
      BY DEF ToSet
    <3>2. ToSet(timers_) \subseteq started /\ started \subseteq Timers
      BY <1>0, TimerTyped DEF Placed, Listed
    <3> QED
      BY <1>0, <1>b, <3>1, <3>2, TimerTyped, TimesAreNat
  <2>2. k \in Nat /\ d \in Nat /\ k <= Len(timers_)
    BY <1>b, TimesAreNat
  <2> DEFINE key(i) == deadline'[timers_'[i]]
             old(i) == deadline[timers_[i]]
  <2>3. ASSUME NEW i \in DOMAIN timers_'
        PROVE  \/ i <= k /\ i \in DOMAIN timers_ /\ key(i) = old(i) /\ old(i) <= d
               \/ i = k + 1 /\ key(i) = d
               \/ i > k + 1 /\ i - 1 \in DOMAIN timers_ /\ key(i) = old(i - 1) /\ ~(old(i - 1) <= d)
    <3>1. i \in 1 .. k \/ i = k + 1 \/ i \in k + 2 .. Len(timers_) + 1
      BY <1>b, <1>c, <2>2
    <3>2. CASE i \in 1 .. k
      <4>1. i \in DOMAIN timers_ /\ i <= k
        BY <1>b, <2>2, <3>2
      <4>2. timers_'[i] = timers_[i]
        BY <1>c, <3>2
      <4> QED
        BY <1>a, <1>d, <2>1, <4>1, <4>2
    <3>3. CASE i = k + 1
      BY <1>c, <1>d, <3>3
    <3>4. CASE i \in k + 2 .. Len(timers_) + 1
      <4>1. i - 1 \in DOMAIN timers_ /\ timers_'[i] = timers_[i - 1]
        BY <1>c, <3>4
      <4>2. i > k + 1 /\ ~(i - 1 <= k)
        BY <2>2, <3>4
      <4> QED
        BY <1>a, <1>d, <2>1, <4>1, <4>2
    <3> QED
      BY <3>1, <3>2, <3>3, <3>4
  <2>4. \A i, j \in DOMAIN timers_ : i <= j => old(i) <= old(j)
    BY <1>0 DEF Sorted
  <2>5. \A i \in DOMAIN timers_ : old(i) \in Nat
    BY <2>1
  <2>6. DOMAIN timers_' \subseteq Nat
    BY <1>b, <1>c
  <2> HIDE DEF key, old
  <2>7. ASSUME NEW i \in DOMAIN timers_', NEW j \in DOMAIN timers_', i <= j
        PROVE  key(i) <= key(j)
    <3>1. i \in Nat /\ j \in Nat
      BY <2>6
    <3>2. CASE i <= k
      <4>1. i \in DOMAIN timers_ /\ key(i) = old(i) /\ old(i) <= d
        BY <2>2, <2>3, <3>1, <3>2
      <4>2. CASE j <= k
        BY <2>2, <2>3, <2>4, <2>7, <3>1, <4>1, <4>2
      <4>3. CASE j = k + 1
        BY <2>2, <2>3, <3>1, <4>1, <4>3
      <4>4. CASE j > k + 1
        <5>1. j - 1 \in DOMAIN timers_ /\ key(j) = old(j - 1) /\ ~(old(j - 1) <= d)
          BY <2>2, <2>3, <3>1, <4>4
        <5> QED
          BY <2>2, <2>5, <4>1, <5>1
      <4> QED
        BY <2>2, <3>1, <4>2, <4>3, <4>4
    <3>3. CASE i = k + 1
      <4>1. key(i) = d
        BY <2>2, <2>3, <3>1, <3>3
      <4>2. CASE j = k + 1
        BY <2>2, <3>3, <4>1, <4>2
      <4>3. CASE j > k + 1
        <5>1. j - 1 \in DOMAIN timers_ /\ key(j) = old(j - 1) /\ ~(old(j - 1) <= d)
          BY <2>2, <2>3, <3>1, <4>3
        <5> QED
          BY <2>2, <2>5, <4>1, <5>1
      <4> QED
        BY <2>2, <2>7, <3>1, <3>3, <4>2, <4>3
    <3>4. CASE i > k + 1
      <4>1. i - 1 \in DOMAIN timers_ /\ key(i) = old(i - 1)
        BY <2>2, <2>3, <3>1, <3>4
      <4>2. j - 1 \in DOMAIN timers_ /\ key(j) = old(j - 1)
        BY <2>2, <2>3, <2>7, <3>1, <3>4
      <4>3. i - 1 <= j - 1
        BY <2>7, <3>1
      <4> QED
        BY <2>4, <4>1, <4>2, <4>3
    <3> QED
      BY <2>2, <3>1, <3>2, <3>3, <3>4
  <2> QED
    BY <2>7 DEF Sorted, key
<1>4. Late'
  <2>1. Expired' = Expired /\ \A u \in Expired \cup result : u \in Timers \ {t}
    BY <1>0, <1>b, TimerTyped DEF Placed, Expired
  <2> QED
    BY <1>0, <1>b, <1>d, <2>1 DEF Late
<1>5. Watched'
  BY <1>0, <1>b, <1>e DEF Watched
<1>6. NoOversleep'
  BY <1>e DEF NoOversleep
<1> QED
  BY <1>1, <1>2, <1>3, <1>4, <1>5, <1>6 DEF TimerInv

\* The list without its front.
LEMMA PopFront ==
  ASSUME TypeOK, Placed, Sorted, timers_ # <<>>, timers_' = Tail(timers_), UNCHANGED deadline
  PROVE  /\ Head(timers_) \in Timers
         /\ timers_' \in Seq(Timers)
         /\ Listed = Listed' \cup {Head(timers_)} /\ Head(timers_) \notin Listed'
         /\ IsInjective(timers_')
         /\ Sorted'
<1>1. timers_ \in Seq(Timers) /\ IsInjective(timers_)
  BY TimerTyped DEF Placed
<1>2. /\ Head(timers_) \in Timers /\ timers_' \in Seq(Timers)
      /\ Listed = Listed' \cup {Head(timers_)} /\ Head(timers_) \notin Listed'
      /\ IsInjective(timers_')
  BY <1>1, QueueFacts, ElementFacts, DistinctFacts DEF Listed
<1>3. /\ DOMAIN timers_' = 1 .. Len(timers_) - 1 /\ DOMAIN timers_ = 1 .. Len(timers_)
      /\ Len(timers_) \in Nat
      /\ \A i \in 1 .. Len(timers_) - 1 : timers_'[i] = timers_[i + 1]
  <2>1. /\ Len(timers_') = Len(timers_) - 1
        /\ \A i \in 1 .. Len(timers_') : timers_'[i] = timers_[i + 1]
    BY <1>1, HeadTailProperties
  <2> QED
    BY <1>1, <1>2, <2>1, LenProperties
<1>4. Sorted'
  <2> SUFFICES ASSUME NEW i \in DOMAIN timers_', NEW j \in DOMAIN timers_', i <= j
               PROVE  deadline[timers_'[i]] <= deadline[timers_'[j]]
    BY DEF Sorted
  <2>1. i + 1 \in DOMAIN timers_ /\ j + 1 \in DOMAIN timers_ /\ i + 1 <= j + 1
    BY <1>3
  <2>2. timers_'[i] = timers_[i + 1] /\ timers_'[j] = timers_[j + 1]
    BY <1>3
  <2> QED
    BY <2>1, <2>2 DEF Sorted
<1> QED
  BY <1>2, <1>4

\* cancel() takes the front of the list, or spins.
LEMMA CancelStep ==
  ASSUME TimerInv, NEW t \in Timers, Cancel(t)
  PROVE  TimerInv'
<1>0. TypeOK /\ Placed /\ Sorted /\ Late /\ Watched /\ NoOversleep
  BY DEF TimerInv
<1>a. /\ timers_ # <<>> /\ t \in started
      /\ UNCHANGED <<clock, now, timeout, deadline, started, timed_out, running_, stopped, ready, result, empty_front>>
  BY DEF Cancel, clocks, awaitables
<1>1. CASE /\ t = Head(timers_)
           /\ timers_' = Tail(timers_)
           /\ canceled' = canceled \cup {t}
           /\ notify_(pc)
           /\ UNCHANGED stuck
  <2>1. /\ timers_' \in Seq(Timers) /\ Listed = Listed' \cup {t} /\ t \notin Listed'
        /\ IsInjective(timers_') /\ Sorted'
    BY <1>0, <1>a, <1>1, PopFront
  <2>2. pc' \in Points /\ waiting_' = FALSE /\ pc' \notin {"sleeping", "waiting"}
        /\ (pc = "resuming" <=> pc' = "resuming") /\ (pc = "off" => pc' = "off")
    BY <1>0, <1>1, TimerTyped DEF Watched, notify_, Points
  <2>3. TypeOK'
    BY <1>0, <1>1, <1>a, <2>1, <2>2, TimerTyped, TimerTypedNext
  <2>4. Placed'
    <3>1. Expired' = Expired /\ canceled' = canceled \cup {t} /\ ready' = ready /\ started' = started
      BY <1>1, <1>a DEF Expired
    <3>2. t \in Listed /\ IsInjective(timed_out')
      BY <1>0, <1>a, <2>1 DEF Placed
    <3> QED
      BY <1>0, <2>1, <3>1, <3>2 DEF Placed
  <2>5. Late'
    BY <1>0, <1>a DEF Late, Expired
  <2>6. Watched'
    BY <1>0, <1>a, <2>2 DEF Watched
  <2>7. NoOversleep'
    BY <2>2 DEF NoOversleep
  <2> QED
    BY <2>1, <2>3, <2>4, <2>5, <2>6, <2>7 DEF TimerInv
<1>2. CASE stuck' = TRUE /\ UNCHANGED <<timers_, canceled, waiting_, pc>>
  <2>1. TypeOK'
    BY <1>0, <1>2, <1>a, TimerTyped, TimerTypedNext
  <2>2. Placed' /\ Sorted' /\ Late'
    BY <1>0, <1>2, <1>a DEF Placed, Sorted, Late, Listed, Expired
  <2>3. Watched' /\ NoOversleep'
    BY <1>0, <1>2, <1>a DEF Watched, NoOversleep
  <2> QED
    BY <2>1, <2>2, <2>3 DEF TimerInv
<1> QED
  BY <1>1, <1>2 DEF Cancel

\* The rest of cancel().
LEMMA ResumeCanceledStep ==
  ASSUME TimerInv, NEW t \in Timers, ResumeCanceled(t)
  PROVE  TimerInv'
<1>0. TypeOK /\ Placed /\ Sorted /\ Late /\ Watched /\ NoOversleep
  BY DEF TimerInv
<1>a. /\ t \in canceled /\ canceled' = canceled \ {t}
      /\ ready' = ready \cup {t} /\ result' = result
      /\ UNCHANGED <<clock, now, timeout, deadline, started, timers_, timed_out, running_,
                     waiting_, stopped, pc, stuck, empty_front>>
  BY DEF ResumeCanceled, Resume, clocks, flags
<1>1. TypeOK'
  BY <1>0, <1>a, TimerTyped, TimerTypedNext
<1>2. Placed'
  BY <1>0, <1>a DEF Placed, Listed, Expired
<1>3. Sorted' /\ Late' /\ Watched' /\ NoOversleep'
  BY <1>0, <1>a DEF Sorted, Late, Expired, Watched, NoOversleep
<1> QED
  BY <1>1, <1>2, <1>3 DEF TimerInv

\* The thread takes the timers that are due.
LEMMA ExpireStep ==
  ASSUME TimerInv, Expire
  PROVE  TimerInv'
<1>0. TypeOK /\ Placed /\ Sorted /\ Late /\ Watched /\ NoOversleep
  BY DEF TimerInv
<1>a. PICK k \in DOMAIN timers_ :
        /\ \A i \in 1 .. k : Due(timers_[i], clock)
        /\ timed_out' = SubSeq(timers_, 1, k)
        /\ timers_' = SubSeq(timers_, k + 1, Len(timers_))
  BY DEF Expire
<1>b. /\ timers_ \in Seq(Timers) /\ Len(timers_) \in Nat /\ DOMAIN timers_ = 1 .. Len(timers_)
      /\ k \in 0 .. Len(timers_) /\ k \in Nat
  BY <1>0, TimerTyped, LenProperties
<1>c. /\ timed_out' \in Seq(Timers) /\ DOMAIN timed_out' = 1 .. k
      /\ \A i \in 1 .. k : timed_out'[i] = timers_[i]
      /\ timers_' \in Seq(Timers) /\ DOMAIN timers_' = 1 .. Len(timers_) - k
      /\ \A i \in 1 .. Len(timers_) - k : i + k \in DOMAIN timers_ /\ timers_'[i] = timers_[i + k]
      /\ Listed = Expired' \cup Listed'
      /\ IsInjective(timers_) =>
           IsInjective(timed_out') /\ IsInjective(timers_') /\ Expired' \cap Listed' = {}
  <2> DEFINE front == SubSeq(timers_, 1, k)
             back == SubSeq(timers_, k + 1, Len(timers_))
  <2>1. timers_ \in Seq(Timers) /\ k \in 0 .. Len(timers_)
    BY <1>b
  <2>2. /\ front \in Seq(Timers) /\ DOMAIN front = 1 .. k
        /\ \A i \in 1 .. k : i \in DOMAIN timers_ /\ front[i] = timers_[i]
        /\ back \in Seq(Timers) /\ DOMAIN back = 1 .. Len(timers_) - k
        /\ \A i \in 1 .. Len(timers_) - k : i + k \in DOMAIN timers_ /\ back[i] = timers_[i + k]
        /\ ToSet(timers_) = ToSet(front) \cup ToSet(back)
        /\ IsInjective(timers_) =>
             IsInjective(front) /\ IsInjective(back) /\ ToSet(front) \cap ToSet(back) = {}
    BY <2>1, SplitFacts
  <2>3. timed_out' = front /\ timers_' = back
    BY <1>a
  <2> HIDE DEF front, back
  <2> QED
    BY <2>2, <2>3 DEF Listed, Expired
<1>d. /\ pc = "top" /\ pc' = "resuming" /\ now' = clock
      /\ UNCHANGED <<clock, timeout, deadline, started, canceled, running_, waiting_, stopped,
                     ready, result, stuck, empty_front>>
  BY DEF Expire, flags, awaitables
<1>1. TypeOK'
  BY <1>0, <1>c, <1>d, TimerTyped, TimerTypedNext DEF Points
<1>2. Placed'
  <2>1. Expired = {}
    BY <1>0, <1>d DEF Watched, Expired, ToSet
  <2> QED
    BY <1>0, <1>c, <1>d, <2>1 DEF Placed
<1>3. Sorted'
  <2> SUFFICES ASSUME NEW i \in DOMAIN timers_', NEW j \in DOMAIN timers_', i <= j
               PROVE  deadline[timers_'[i]] <= deadline[timers_'[j]]
    BY <1>d DEF Sorted
  <2>1. i + k <= j + k
    BY <1>b, <1>c
  <2>2. /\ i + k \in DOMAIN timers_ /\ timers_'[i] = timers_[i + k]
        /\ j + k \in DOMAIN timers_ /\ timers_'[j] = timers_[j + k]
    BY <1>c
  <2> QED
    BY <1>0, <2>1, <2>2 DEF Sorted
<1>4. Late'
  <2>1. \A u \in Expired' : deadline[u] <= clock
    <3> SUFFICES ASSUME NEW i \in DOMAIN timed_out' PROVE deadline[timed_out'[i]] <= clock
      BY DEF Expired, ToSet
    <3>1. i \in 1 .. k /\ timed_out'[i] = timers_[i]
      BY <1>c
    <3> QED
      BY <1>a, <3>1 DEF Due
  <2> QED
    BY <1>0, <1>d, <2>1 DEF Late
<1>5. Watched' /\ NoOversleep'
  BY <1>0, <1>d DEF Watched, NoOversleep
<1> QED
  BY <1>1, <1>2, <1>3, <1>4, <1>5 DEF TimerInv

\* ... and resumes their awaitables, one after the other.
LEMMA ResumeExpiredStep ==
  ASSUME TimerInv, ResumeExpired
  PROVE  TimerInv'
<1>0. TypeOK /\ Placed /\ Sorted /\ Late /\ Watched /\ NoOversleep
  BY DEF TimerInv
<1> DEFINE t == Head(timed_out)
<1>a. /\ timed_out # <<>> /\ timed_out' = Tail(timed_out) /\ pc = "resuming"
      /\ ready' = ready \cup {t} /\ result' = result \cup {t}
      /\ UNCHANGED <<clock, now, timeout, deadline, started, timers_, canceled, running_,
                     waiting_, stopped, pc, stuck, empty_front>>
  BY DEF ResumeExpired, Resume, clocks, flags
<1>b. /\ t \in Timers /\ timed_out' \in Seq(Timers)
      /\ Expired = Expired' \cup {t} /\ t \notin Expired' /\ IsInjective(timed_out')
  <2>1. timed_out \in Seq(Timers) /\ IsInjective(timed_out)
    BY <1>0, TimerTyped DEF Placed
  <2> QED
    BY <1>a, <2>1, QueueFacts, ElementFacts, DistinctFacts DEF Expired
<1> HIDE DEF t
<1>1. TypeOK'
  BY <1>0, <1>a, <1>b, TimerTyped, TimerTypedNext
<1>2. Placed'
  <2>1. Listed' = Listed /\ canceled' = canceled /\ started' = started
    BY <1>a DEF Listed
  <2> QED
    BY <1>0, <1>a, <1>b, <2>1 DEF Placed
<1>3. Late'
  BY <1>0, <1>a, <1>b DEF Late
<1>4. Sorted' /\ Watched' /\ NoOversleep'
  BY <1>0, <1>a DEF Sorted, Watched, NoOversleep
<1> QED
  BY <1>1, <1>2, <1>3, <1>4 DEF TimerInv

\* ~service cancels what is left.
LEMMA DrainStep ==
  ASSUME TimerInv, Drain
  PROVE  TimerInv'
<1>0. TypeOK /\ Placed /\ Sorted /\ Late /\ Watched /\ NoOversleep
  BY DEF TimerInv
<1> DEFINE t == Head(timers_)
<1>a. /\ timers_ # <<>> /\ timers_' = Tail(timers_) /\ pc \in {"off", "exited"}
      /\ ready' = ready \cup {t} /\ result' = result
      /\ UNCHANGED <<clock, now, timeout, deadline, started, timed_out, canceled, running_,
                     waiting_, stopped, pc, stuck, empty_front>>
  BY DEF Drain, Resume, clocks, flags
<1>b. /\ t \in Timers /\ timers_' \in Seq(Timers) /\ Listed = Listed' \cup {t} /\ t \notin Listed'
      /\ IsInjective(timers_') /\ Sorted'
  BY <1>0, <1>a, PopFront
<1> HIDE DEF t
<1>1. TypeOK'
  BY <1>0, <1>a, <1>b, TimerTyped, TimerTypedNext
<1>2. Placed'
  <2>1. Expired' = Expired /\ canceled' = canceled /\ started' = started /\ timed_out' = timed_out
    BY <1>a DEF Expired
  <2> QED
    BY <1>0, <1>a, <1>b, <2>1 DEF Placed
<1>3. Late' /\ Watched' /\ NoOversleep'
  BY <1>0, <1>a DEF Late, Expired, Watched, NoOversleep
<1> QED
  BY <1>1, <1>2, <1>3, <1>b DEF TimerInv

\* The thread decides how to wait for the first timer.
LEMMA WaitStep ==
  ASSUME TimerInv, WaitForFirst
  PROVE  TimerInv'
<1>0. TypeOK /\ Placed /\ Sorted /\ Late /\ Watched /\ NoOversleep
  BY DEF TimerInv
<1> DEFINE first == deadline[Head(timers_)]
           picked == default_timeout_algorithm(clock, first)
<1>a. /\ pc = "top" /\ running_ /\ timers_ # <<>> /\ ~(first <= clock) /\ now' = clock
      /\ UNCHANGED <<clock, deadline, started, timers_, timed_out, canceled, running_, stopped,
                     ready, result, stuck, empty_front>>
  BY DEF WaitForFirst, Due, lists, awaitables
<1>b. /\ Head(timers_) = timers_[1] /\ 1 \in DOMAIN timers_ /\ first \in Times /\ clock \in Times
      /\ DOMAIN timers_ \subseteq Nat \ {0}
      /\ \A i \in DOMAIN timers_ : deadline[timers_[i]] \in Nat
  <2>1. \A i \in DOMAIN timers_ : timers_[i] \in Timers
    BY <1>0, TimerTyped, ElementOfSeq, LenProperties
  <2> QED
    <3>1. timers_ \in Seq(Timers) /\ deadline \in [Timers -> Times] /\ clock \in Times
      BY <1>0, TimerTyped
    <3>2. Len(timers_) \in Nat /\ Len(timers_) # 0 /\ DOMAIN timers_ = 1 .. Len(timers_)
      BY <1>a, <3>1, QueueFacts, LenProperties
    <3>3. 1 \in DOMAIN timers_ /\ DOMAIN timers_ \subseteq Nat \ {0} /\ Head(timers_) = timers_[1]
      BY <1>a, <3>2
    <3>4. \A i \in DOMAIN timers_ : deadline[timers_[i]] \in Times
      BY <2>1, <3>1
    <3> QED
      BY <3>1, <3>3, <3>4, TimesAreNat
<1>c. \/ timeout' = first /\ pc' = "busyRead" /\ UNCHANGED waiting_
      \/ /\ ~below_busy_wait_threshold(clock, first)
         /\ timeout' = IF picked < first THEN picked ELSE first
         /\ pc' = "waiting" /\ waiting_' = TRUE
  BY DEF WaitForFirst
<1>d. first \in Nat /\ clock \in Nat /\ {BusyWait, EarlyWake, EarlyLong} \subseteq Nat
  BY <1>b, TimesAreNat, ThresholdAssumption
<1>e. timeout' \in Times /\ timeout' <= first
  <2>1. CASE timeout' = first
    BY <1>b, <1>d, <2>1
  <2>2. CASE ~below_busy_wait_threshold(clock, first) /\ picked < first /\ timeout' = picked
    <3> HIDE DEF first
    <3>1. ~(first - clock <= BusyWait)
      BY <1>a, <1>d, <2>2 DEF below_busy_wait_threshold
    <3>2. picked \in Nat
      BY <1>a, <1>d, <3>1 DEF default_timeout_algorithm
    <3> HIDE DEF picked
    <3> QED
      BY <1>b, <1>d, <2>2, <3>2, TimesAreNat
  <2> QED
    BY <1>c, <2>1, <2>2
<1>1. TypeOK'
  BY <1>0, <1>a, <1>c, <1>e, TimerTyped, TimerTypedNext DEF Points
<1>2. Placed' /\ Sorted' /\ Late'
  BY <1>0, <1>a DEF Placed, Sorted, Late, Listed, Expired
<1>3. Watched'
  BY <1>0, <1>a, <1>c DEF Watched
<1>4. NoOversleep'
  <2>1. \A i \in DOMAIN timers_ : first <= deadline[timers_[i]]
    <3> SUFFICES ASSUME NEW i \in DOMAIN timers_ PROVE first <= deadline[timers_[i]]
      OBVIOUS
    <3>1. 1 <= i
      BY <1>b
    <3> QED
      BY <1>0, <1>b, <3>1 DEF Sorted
  <2>2. timeout' \in Nat
    BY <1>e, TimesAreNat
  <2>3. \A i \in DOMAIN timers_ : timeout' <= deadline[timers_[i]]
    BY <1>b, <1>d, <1>e, <2>1, <2>2
  <2> QED
    BY <1>a, <1>c, <2>3 DEF NoOversleep
<1> QED
  BY <1>1, <1>2, <1>3, <1>4 DEF TimerInv

\* Steps of the other services, and stuttering.
LEMMA TimerFrame ==
  ASSUME TimerInv, UNCHANGED vars
  PROVE  TimerInv'
<1>0. TypeOK /\ Placed /\ Sorted /\ Late /\ Watched /\ NoOversleep
  BY DEF TimerInv
<1>1. TypeOK'
  BY <1>0, TimerTyped, TimerTypedNext DEF vars, clocks, lists, flags, awaitables
<1>2. Placed' /\ Sorted' /\ Late'
  BY <1>0 DEF Placed, Sorted, Late, Listed, Expired, vars, clocks, lists, awaitables
<1>3. Watched' /\ NoOversleep'
  BY <1>0 DEF Watched, NoOversleep, vars, clocks, lists, flags
<1> QED
  BY <1>1, <1>2, <1>3 DEF TimerInv

LEMMA TimerInvariant == ServicesSpec => []TimerInv
<1>1. ServicesInit => TimerInv
  BY TimerInit DEF ServicesInit
<1>2. TimerInv /\ [ServicesNext]_servicesVars => TimerInv'
  <2> SUFFICES ASSUME TimerInv, [ServicesNext]_servicesVars PROVE TimerInv'
    OBVIOUS
  <2>1. CASE Next
    BY <2>1, ControlStep, StartStep, CancelStep, ResumeCanceledStep, ExpireStep,
       ResumeExpiredStep, DrainStep, WaitStep DEF Next, ServiceThread
  <2>2. CASE UNCHANGED vars
    BY <2>2, TimerFrame
  <2> QED
    BY <2>1, <2>2 DEF ServicesNext, servicesVars
<1> QED
  BY <1>1, <1>2, PTL DEF ServicesSpec

\* Whatever starts, expires, is canceled or shut down meanwhile, a timer that was
\* started is in one place, so that its awaitable is resumed once.
THEOREM TimersResumeOnce == ServicesSpec => []ResumedOnce
<1>1. TimerInv => ResumedOnce
  <2> SUFFICES ASSUME TimerInv, NEW t \in started PROVE \E p \in Places(t) : Places(t) = {p}
    BY DEF ResumedOnce
  <2>0. Placed
    BY DEF TimerInv
  <2> DEFINE L1 == {<<"list", i>> : i \in {i \in DOMAIN timers_ : timers_[i] = t}}
             L2 == {<<"expired", i>> : i \in {i \in DOMAIN timed_out : timed_out[i] = t}}
             L3 == {<<"canceled", 0>> : u \in canceled \cap {t}}
             L4 == {<<"ready", 0>> : u \in ready \cap {t}}
  <2>1. Places(t) = L1 \cup L2 \cup L3 \cup L4
    BY DEF Places
  <2>2. /\ t \notin Listed => L1 = {}
        /\ t \notin Expired => L2 = {}
        /\ t \notin canceled => L3 = {}
        /\ t \notin ready => L4 = {}
    BY DEF Listed, Expired, ToSet
  <2>3. t \in Listed => \E p \in L1 : L1 = {p}
    <3> SUFFICES ASSUME NEW i \in DOMAIN timers_, timers_[i] = t PROVE \E p \in L1 : L1 = {p}
      BY DEF Listed, ToSet
    <3>1. \A j \in DOMAIN timers_ : timers_[j] = t => j = i
      BY <2>0 DEF Placed, IsInjective
    <3>2. {j \in DOMAIN timers_ : timers_[j] = t} = {i}
      BY <3>1
    <3>3. L1 = {<<"list", i>>}
      BY <3>2
    <3> QED
      BY <3>3
  <2>4. t \in Expired => \E p \in L2 : L2 = {p}
    <3> SUFFICES ASSUME NEW i \in DOMAIN timed_out, timed_out[i] = t PROVE \E p \in L2 : L2 = {p}
      BY DEF Expired, ToSet
    <3>1. \A j \in DOMAIN timed_out : timed_out[j] = t => j = i
      BY <2>0 DEF Placed, IsInjective
    <3>2. {j \in DOMAIN timed_out : timed_out[j] = t} = {i}
      BY <3>1
    <3>3. L2 = {<<"expired", i>>}
      BY <3>2
    <3> QED
      BY <3>3
  <2>5. t \in canceled => \E p \in L3 : L3 = {p}
    OBVIOUS
  <2>6. t \in ready => \E p \in L4 : L4 = {p}
    OBVIOUS
  <2> HIDE DEF L1, L2, L3, L4
  <2> QED
    BY <2>0, <2>1, <2>2, <2>3, <2>4, <2>5, <2>6 DEF Placed
<1> QED
  BY <1>1, TimerInvariant, PTL

\* No awaitable says true before its timeout, for all thresholds.
THEOREM TimersAreNotEarly == ServicesSpec => []NeverEarly
<1>1. TimerInv => NeverEarly
  BY DEF TimerInv, Late, NeverEarly
<1> QED
  BY <1>1, TimerInvariant, PTL

\* The thread sleeps through no timeout and no shutdown, whatever its algorithm
\* picks: the timeout it waits for is at most the first, and every change notifies
\* it.
THEOREM TimeoutsAreNotSlept == ServicesSpec => []NoOversleep
<1>1. TimerInv => NoOversleep
  BY DEF TimerInv
<1> QED
  BY <1>1, TimerInvariant, PTL

-----------------------------------------------------------------------------
(* The timer service is one of alarms.  Beyond TimerInv this needs that     *)
(* the timers which are taken out of the list stay in its order, and that   *)
(* the thread expires none after it was told to stop.                       *)

Expiring ==
  /\ \A i, j \in DOMAIN timed_out : i <= j => deadline[timed_out[i]] <= deadline[timed_out[j]]
  /\ stopped => ~running_

\* What the contract sees.
Seen == [t \in Timers |-> AlarmOf(t)]

\* One step of the contract.
Rung == [Contract!Next]_(Contract!vars)

\* Each timer is in the one place that the contract shows.
LEMMA AlarmFacts ==
  ASSUME TypeOK, Placed, NEW t \in Timers
  PROVE  /\ AlarmOf(t) = "true" <=> t \in result
         /\ AlarmOf(t) = "false" <=> t \in ready \ result
         /\ AlarmOf(t) = "canceled" <=> t \in canceled
         /\ AlarmOf(t) = "expired" <=> t \in Expired
         /\ AlarmOf(t) = "set" <=> t \in Listed
         /\ AlarmOf(t) = "new" <=> t \notin started
<1>1. result \subseteq ready
  BY TimerTyped
<1> QED
  BY <1>1 DEF AlarmOf, Placed, Listed, Expired

\* A step that changes where one timer stands.
LEMMA AlarmMoves ==
  ASSUME NEW t \in Timers, NEW to, AlarmOf(t)' = to,
         \A u \in Timers \ {t} : AlarmOf(u)' = AlarmOf(u)
  PROVE  Seen' = [Seen EXCEPT ![t] = to]
BY DEF Seen

\* A step that moves no timer.
LEMMA AlarmsStay ==
  ASSUME UNCHANGED <<timers_, timed_out, canceled, awaitables>>
  PROVE  Seen' = Seen
<1>1. ASSUME NEW t \in Timers PROVE AlarmOf(t)' = AlarmOf(t)
  BY DEF AlarmOf, awaitables
<1> QED
  BY <1>1 DEF Seen

LEMMA SetStep ==
  ASSUME TimerInv, TimerInv', Expiring, NEW t \in Timers, NEW d \in Times, Start(t, d)
  PROVE  Expiring' /\ Rung
<1>0. TypeOK /\ Placed /\ TypeOK' /\ Placed' /\ Watched
  BY DEF TimerInv
<1>a. /\ t \notin started /\ ~stopped /\ started' = started \cup {t}
      /\ deadline' = [deadline EXCEPT ![t] = d]
      /\ UNCHANGED <<clock, timed_out, canceled, ready, result, stopped>>
  BY DEF Start, clocks, awaitables
<1>b. Listed' = Listed \cup {t}
  <2>1. PICK k \in 0 .. Len(timers_) : timers_' = InsertAt(timers_, k + 1, t)
    BY DEF Start, Insert
  <2> DEFINE r == InsertAt(timers_, k + 1, t)
  <2>2. timers_ \in Seq(Timers) /\ k \in 0 .. Len(timers_) /\ t \in Timers
    BY <1>0, <2>1, TimerTyped
  <2>3. /\ r \in Seq(Timers) /\ DOMAIN r = 1 .. Len(timers_) + 1
        /\ r[k + 1] = t
        /\ \A i \in 1 .. k : r[i] = timers_[i]
        /\ \A i \in k + 2 .. Len(timers_) + 1 : i - 1 \in DOMAIN timers_ /\ r[i] = timers_[i - 1]
        /\ ToSet(r) = ToSet(timers_) \cup {t}
        /\ IsInjective(timers_) /\ t \notin ToSet(timers_) => IsInjective(r)
    BY <2>2, InsertFacts
  <2>4. timers_' = r
    BY <2>1
  <2> HIDE DEF r
  <2> QED
    BY <2>3, <2>4 DEF Listed
<1>1. Expiring'
  <2>1. \A i \in DOMAIN timed_out : timed_out[i] \in Timers \ {t}
    <3>1. \A i \in DOMAIN timed_out : timed_out[i] \in Expired
      BY DEF Expired, ToSet
    <3> QED
      BY <1>0, <1>a, <3>1, TimerTyped DEF Placed
  <2>2. \A u \in Timers \ {t} : deadline'[u] = deadline[u]
    BY <1>0, <1>a, TimerTyped
  <2> QED
    BY <1>a, <2>1, <2>2 DEF Expiring
<1>2. Seen' = [Seen EXCEPT ![t] = "set"] /\ Seen[t] = "new"
  <2>1. AlarmOf(t)' = "set"
    <3>1. t \notin result /\ t \notin ready /\ t \notin canceled /\ t \notin Expired /\ t \in Listed'
      BY <1>0, <1>a, <1>b, TimerTyped DEF Placed
    <3> QED
      BY <1>a, <3>1 DEF AlarmOf, Listed, Expired
  <2>2. \A u \in Timers \ {t} : AlarmOf(u)' = AlarmOf(u)
    BY <1>a, <1>b DEF AlarmOf, Listed
  <2>3. AlarmOf(t) = "new"
    BY <1>0, <1>a, AlarmFacts
  <2> QED
    BY <2>1, <2>2, <2>3, AlarmMoves DEF Seen
<1>3. Contract!Set(t)
  BY <1>a, <1>2 DEF Contract!Set, Contract!Move, Seen
<1> QED
  BY <1>1, <1>3 DEF Rung, Contract!Next

LEMMA CancelAlarmStep ==
  ASSUME TimerInv, TimerInv', Expiring, NEW t \in Timers, Cancel(t)
  PROVE  Expiring' /\ Rung
<1>0. TypeOK /\ Placed /\ Sorted
  BY DEF TimerInv
<1>a. /\ ~stopped /\ timers_ # <<>>
      /\ UNCHANGED <<clock, deadline, timed_out, ready, result, stopped, running_>>
  BY DEF Cancel, clocks, awaitables
<1>1. Expiring'
  BY <1>a DEF Expiring
<1>2. CASE t = Head(timers_) /\ timers_' = Tail(timers_) /\ canceled' = canceled \cup {t}
  <2>1. Listed = Listed' \cup {t} /\ t \notin Listed'
    BY <1>0, <1>2, <1>a, PopFront
  <2>2. AlarmOf(t)' = "canceled" /\ AlarmOf(t) = "set"
    <3>1. AlarmOf(t) = "set"
      BY <1>0, <2>1, AlarmFacts
    <3>2. t \notin result /\ t \notin ready
      BY <1>0, <2>1, TimerTyped DEF Placed
    <3> QED
      BY <1>2, <1>a, <3>1, <3>2 DEF AlarmOf
  <2>3. \A u \in Timers \ {t} : AlarmOf(u)' = AlarmOf(u)
    BY <1>2, <1>a, <2>1 DEF AlarmOf, Listed
  <2>4. Seen' = [Seen EXCEPT ![t] = "canceled"] /\ Seen[t] = "set"
    BY <2>2, <2>3, AlarmMoves DEF Seen
  <2>5. Contract!Cancel(t)
    BY <1>a, <2>4 DEF Contract!Cancel, Contract!Move, Seen
  <2> QED
    BY <1>1, <2>5 DEF Rung, Contract!Next
<1>3. CASE UNCHANGED <<timers_, canceled>>
  <2>1. Seen' = Seen
    BY <1>3, <1>a, AlarmsStay DEF awaitables
  <2> QED
    BY <1>1, <1>a, <2>1 DEF Rung, Contract!vars, Seen
<1> QED
  BY <1>2, <1>3 DEF Cancel

\* The list is sorted: what leaves it is all that is due.
LEMMA ExpireAlarmStep ==
  ASSUME TimerInv, TimerInv', Expiring, Expire
  PROVE  Expiring' /\ Rung
<1>0. TypeOK /\ Placed /\ Sorted /\ Watched /\ Placed' /\ TypeOK'
  BY DEF TimerInv
<1>a. /\ pc = "top" /\ running_ /\ timers_ # <<>>
      /\ UNCHANGED <<clock, deadline, started, canceled, ready, result, stopped, running_>>
  BY DEF Expire, flags, awaitables
<1>b. PICK k \in DOMAIN timers_ :
        /\ \A i \in 1 .. k : Due(timers_[i], clock)
        /\ k < Len(timers_) => ~Due(timers_[k + 1], clock)
        /\ timed_out' = SubSeq(timers_, 1, k)
        /\ timers_' = SubSeq(timers_, k + 1, Len(timers_))
  BY DEF Expire
<1>c. /\ timers_ \in Seq(Timers) /\ Len(timers_) \in Nat /\ DOMAIN timers_ = 1 .. Len(timers_)
      /\ k \in 0 .. Len(timers_) /\ k \in Nat /\ k >= 1 /\ IsInjective(timers_)
  BY <1>0, TimerTyped, LenProperties DEF Placed
<1>d. /\ DOMAIN timed_out' = 1 .. k
      /\ \A i \in 1 .. k : timed_out'[i] = timers_[i]
      /\ DOMAIN timers_' = 1 .. Len(timers_) - k
      /\ \A i \in 1 .. Len(timers_) - k : i + k \in DOMAIN timers_ /\ timers_'[i] = timers_[i + k]
      /\ Listed = Expired' \cup Listed'
      /\ Expired' \cap Listed' = {}
  <2> DEFINE front == SubSeq(timers_, 1, k)
             back == SubSeq(timers_, k + 1, Len(timers_))
  <2>0. timers_ \in Seq(Timers) /\ k \in 0 .. Len(timers_)
    BY <1>c
  <2>1. /\ front \in Seq(Timers) /\ DOMAIN front = 1 .. k
        /\ \A i \in 1 .. k : i \in DOMAIN timers_ /\ front[i] = timers_[i]
        /\ back \in Seq(Timers) /\ DOMAIN back = 1 .. Len(timers_) - k
        /\ \A i \in 1 .. Len(timers_) - k : i + k \in DOMAIN timers_ /\ back[i] = timers_[i + k]
        /\ ToSet(timers_) = ToSet(front) \cup ToSet(back)
        /\ IsInjective(timers_) =>
             IsInjective(front) /\ IsInjective(back) /\ ToSet(front) \cap ToSet(back) = {}
    BY <2>0, SplitFacts
  <2>2. timed_out' = front /\ timers_' = back
    BY <1>b
  <2> HIDE DEF front, back
  <2> QED
    BY <1>c, <2>1, <2>2 DEF Listed, Expired
<1>e. \A i \in DOMAIN timers_ : deadline[timers_[i]] \in Nat
  <2>1. \A i \in DOMAIN timers_ : timers_[i] \in Timers
    BY <1>0, TimerTyped, ElementOfSeq, LenProperties
  <2> QED
    BY <1>0, <2>1, TimerTyped, TimesAreNat
<1>f. clock \in Nat
  BY <1>0, TimerTyped, TimesAreNat
<1>1. Expiring'
  <2>1. \A i \in 1 .. k : i \in DOMAIN timers_
    BY <1>c
  <2> QED
    BY <1>0, <1>a, <1>d, <2>1 DEF Expiring, Sorted
<1>2. Expired = {}
  BY <1>0, <1>a DEF Watched, Expired, ToSet
<1>3. \A u \in Expired' : u \in Listed /\ deadline[u] <= clock
  <2>1. \A i \in DOMAIN timed_out' : deadline[timed_out'[i]] <= clock
    BY <1>b, <1>d DEF Due
  <2> QED
    BY <1>d, <2>1 DEF Expired, ToSet
<1>4. \A u \in Listed' : ~(deadline[u] <= clock)
  <2> SUFFICES ASSUME NEW i \in DOMAIN timers_' PROVE ~(deadline[timers_'[i]] <= clock)
    BY DEF Listed, ToSet
  <2>1. i \in Nat /\ i >= 1 /\ i + k \in DOMAIN timers_ /\ timers_'[i] = timers_[i + k]
    BY <1>d
  <2>2. k < Len(timers_) /\ k + 1 \in DOMAIN timers_ /\ k + 1 <= i + k
    BY <1>c, <2>1
  <2>3. deadline[timers_[k + 1]] <= deadline[timers_[i + k]]
    BY <1>0, <2>1, <2>2 DEF Sorted
  <2>4. ~(deadline[timers_[k + 1]] <= clock)
    BY <1>b, <2>2 DEF Due
  <2>5. deadline[timers_[k + 1]] \in Nat /\ deadline[timers_[i + k]] \in Nat
    BY <1>e, <2>1, <2>2
  <2> QED
    BY <1>f, <2>1, <2>3, <2>4, <2>5
<1>5. Contract!Overdue = Expired'
  <2>1. \A u \in Timers : Seen[u] = "set" <=> u \in Listed
    BY <1>0, AlarmFacts DEF Seen
  <2>2. Expired' \subseteq Timers
    BY <1>0, TimerTypedNext, ElementFacts DEF Expired
  <2> QED
    BY <1>3, <1>4, <1>d, <2>1, <2>2 DEF Contract!Overdue, Seen
<1>6. Seen' = [u \in Timers |-> IF u \in Expired' THEN "expired" ELSE Seen[u]]
  <2>1. ASSUME NEW u \in Timers PROVE AlarmOf(u)' = IF u \in Expired' THEN "expired" ELSE AlarmOf(u)
    <3>1. CASE u \in Expired'
      <4>1. u \notin canceled /\ u \notin ready /\ u \notin result
        BY <1>0, <1>a, <3>1, TimerTyped DEF Placed
      <4> QED
        BY <1>a, <3>1, <4>1 DEF AlarmOf, Expired
    <3>2. CASE u \notin Expired'
      <4>1. u \in Listed' <=> u \in Listed
        BY <1>d, <3>2
      <4> QED
        BY <1>2, <1>a, <3>2, <4>1 DEF AlarmOf, Expired, Listed
    <3> QED
      BY <3>1, <3>2
  <2> QED
    BY <2>1 DEF Seen
<1>7. Contract!Expire
  <2>1. Expired' # {}
    <3>1. 1 \in DOMAIN timed_out'
      BY <1>c, <1>d
    <3> QED
      BY <3>1 DEF Expired, ToSet
  <2>2. ~stopped
    BY <1>a DEF Expiring
  <2>3. Seen' = [u \in Timers |-> IF u \in Contract!Overdue THEN "expired" ELSE Seen[u]]
    BY <1>5, <1>6
  <2> QED
    BY <1>5, <1>a, <2>1, <2>2, <2>3 DEF Contract!Expire, Seen
<1> QED
  BY <1>1, <1>7 DEF Rung, Contract!Next

\* The thread resumes the earliest of what it took out.
LEMMA RingStep ==
  ASSUME TimerInv, TimerInv', Expiring, ResumeExpired
  PROVE  Expiring' /\ Rung
<1>0. TypeOK /\ Placed
  BY DEF TimerInv
<1>p. timed_out # <<>>
  BY DEF ResumeExpired
<1>b. timed_out \in Seq(Timers) /\ IsInjective(timed_out)
  BY <1>0, TimerTyped DEF Placed
<1>t. PICK t \in Timers : t = Head(timed_out)
  BY <1>p, <1>b, QueueFacts
<1>a. /\ timed_out # <<>> /\ timed_out' = Tail(timed_out)
      /\ ready' = ready \cup {t} /\ result' = result \cup {t}
      /\ UNCHANGED <<clock, deadline, timers_, canceled, running_, stopped>>
  BY <1>t DEF ResumeExpired, Resume, clocks, flags
<1>c. /\ t \in Timers /\ t = timed_out[1] /\ 1 \in DOMAIN timed_out
      /\ DOMAIN timed_out \subseteq Nat \ {0}
      /\ Expired = Expired' \cup {t} /\ t \notin Expired'
  <2>1. t \in Timers /\ Expired = Expired' \cup {t} /\ t \notin Expired'
    BY <1>a, <1>b, <1>t, QueueFacts, ElementFacts, DistinctFacts DEF Expired
  <2>2. Len(timed_out) \in Nat /\ Len(timed_out) # 0 /\ DOMAIN timed_out = 1 .. Len(timed_out)
    BY <1>a, <1>b, QueueFacts, LenProperties
  <2>3. t = timed_out[1]
    BY <1>a, <1>b, <1>t
  <2> QED
    BY <2>1, <2>2, <2>3
<1>d. /\ DOMAIN timed_out' = 1 .. Len(timed_out) - 1 /\ DOMAIN timed_out = 1 .. Len(timed_out)
      /\ Len(timed_out) \in Nat
      /\ \A i \in 1 .. Len(timed_out) - 1 : timed_out'[i] = timed_out[i + 1]
  <2>1. /\ Len(timed_out') = Len(timed_out) - 1
        /\ \A i \in 1 .. Len(timed_out') : timed_out'[i] = timed_out[i + 1]
    BY <1>a, <1>b, HeadTailProperties
  <2>2. timed_out' \in Seq(Timers)
    BY <1>a, <1>b, QueueFacts
  <2> QED
    BY <1>b, <2>1, <2>2, LenProperties
<1>1. Expiring'
  <2>1. ASSUME NEW i \in DOMAIN timed_out', NEW j \in DOMAIN timed_out', i <= j
        PROVE  deadline[timed_out'[i]] <= deadline[timed_out'[j]]
    <3>1. i + 1 \in DOMAIN timed_out /\ j + 1 \in DOMAIN timed_out /\ i + 1 <= j + 1
      BY <1>d, <2>1
    <3>2. timed_out'[i] = timed_out[i + 1] /\ timed_out'[j] = timed_out[j + 1]
      BY <1>d
    <3> QED
      BY <3>1, <3>2 DEF Expiring
  <2> QED
    BY <1>a, <2>1 DEF Expiring
<1>2. \A u \in Timers : Seen[u] = "expired" => deadline[t] <= deadline[u]
  <2> SUFFICES ASSUME NEW u \in Timers, Seen[u] = "expired" PROVE deadline[t] <= deadline[u]
    OBVIOUS
  <2>1. u \in Expired
    BY <1>0, AlarmFacts DEF Seen
  <2>2. PICK i \in DOMAIN timed_out : u = timed_out[i]
    BY <2>1 DEF Expired, ToSet
  <2>3. 1 <= i
    BY <1>c
  <2> QED
    BY <1>c, <2>2, <2>3 DEF Expiring
<1>3. Seen' = [Seen EXCEPT ![t] = "true"] /\ Seen[t] = "expired"
  <2>1. AlarmOf(t)' = "true"
    BY <1>a DEF AlarmOf
  <2>2. \A u \in Timers \ {t} : AlarmOf(u)' = AlarmOf(u)
    BY <1>a, <1>c DEF AlarmOf, Expired
  <2>3. AlarmOf(t) = "expired"
    BY <1>0, <1>c, AlarmFacts
  <2> QED
    BY <1>c, <2>1, <2>2, <2>3, AlarmMoves DEF Seen
<1>4. Contract!Ring(t)
  BY <1>2, <1>3, <1>a DEF Contract!Ring, Contract!Move, Seen
<1> QED
  BY <1>1, <1>4, <1>c DEF Rung, Contract!Next

\* A timer that was canceled, or that ~service finds in the list, is resumed.
LEMMA FailStep ==
  ASSUME TimerInv, TimerInv', Expiring, Drain \/ \E t \in Timers : ResumeCanceled(t)
  PROVE  Expiring' /\ Rung
<1>0. TypeOK /\ Placed /\ Sorted
  BY DEF TimerInv
<1>1. ASSUME NEW t \in Timers, ResumeCanceled(t) PROVE Expiring' /\ Rung
  <2>a. /\ t \in canceled /\ canceled' = canceled \ {t}
        /\ ready' = ready \cup {t} /\ result' = result
        /\ UNCHANGED <<clock, deadline, timers_, timed_out, running_, stopped>>
    BY <1>1 DEF ResumeCanceled, Resume, clocks, flags
  <2>1. AlarmOf(t)' = "false"
    <3>1. t \notin result
      BY <1>0, <2>a, TimerTyped DEF Placed
    <3> QED
      BY <2>a, <3>1 DEF AlarmOf
  <2>2. \A u \in Timers \ {t} : AlarmOf(u)' = AlarmOf(u)
    BY <2>a DEF AlarmOf
  <2>3. AlarmOf(t) = "canceled"
    BY <1>0, <2>a, AlarmFacts
  <2>4. Seen' = [Seen EXCEPT ![t] = "false"] /\ Seen[t] = "canceled"
    BY <2>1, <2>2, <2>3, AlarmMoves DEF Seen
  <2>5. Contract!Fail(t)
    BY <2>a, <2>4 DEF Contract!Fail, Contract!Move, Seen
  <2> QED
    BY <2>5, <2>a DEF Rung, Contract!Next, Expiring
<1>2. CASE Drain
  <2>t. PICK t \in Timers : t = Head(timers_)
    BY <1>0, <1>2, TimerTyped, QueueFacts DEF Drain
  <2>a. /\ stopped /\ timers_ # <<>> /\ timers_' = Tail(timers_)
        /\ ready' = ready \cup {t} /\ result' = result
        /\ UNCHANGED <<clock, deadline, timed_out, canceled, running_, stopped>>
    BY <1>2, <2>t DEF Drain, Resume, clocks, flags
  <2>b. t \in Timers /\ Listed = Listed' \cup {t} /\ t \notin Listed'
    BY <1>0, <1>2, <2>a, <2>t, PopFront DEF Drain
  <2>1. AlarmOf(t)' = "false"
    <3>1. t \notin result
      BY <1>0, <2>b, TimerTyped DEF Placed
    <3> QED
      BY <2>a, <3>1 DEF AlarmOf
  <2>2. \A u \in Timers \ {t} : AlarmOf(u)' = AlarmOf(u)
    BY <2>a, <2>b DEF AlarmOf, Listed
  <2>3. AlarmOf(t) = "set"
    BY <1>0, <2>b, AlarmFacts
  <2>4. Seen' = [Seen EXCEPT ![t] = "false"] /\ Seen[t] = "set"
    BY <2>1, <2>2, <2>3, <2>b, AlarmMoves DEF Seen
  <2>5. Contract!Fail(t)
    BY <2>a, <2>4 DEF Contract!Fail, Contract!Move, Seen
  <2> QED
    BY <2>5, <2>a, <2>b DEF Rung, Contract!Next, Expiring
<1> QED
  BY <1>1, <1>2

\* The steps that move no timer.
LEMMA QuietStep ==
  ASSUME TimerInv, Expiring,
         \/ Exit \/ Sleep \/ Relock \/ WaitForFirst \/ TimedWake \/ SpuriousWake \/ BusyRead
         \/ BusyCheck \/ Stop \/ Tick \/ UNCHANGED vars
  PROVE  Expiring' /\ Rung
<1>1. UNCHANGED <<deadline, timers_, timed_out, canceled, awaitables>>
  BY DEF Exit, Sleep, Relock, WaitForFirst, TimedWake, SpuriousWake, BusyRead, BusyCheck, Stop,
         Tick, vars, lists
<1>2. Seen' = Seen
  BY <1>1, AlarmsStay
<1>3. CASE Stop
  <2>1. stopped' = TRUE /\ running_' = FALSE /\ clock' = clock
    BY <1>3 DEF Stop, clocks
  <2>2. Contract!Close
    BY <1>1, <1>2, <2>1 DEF Contract!Close, Seen
  <2> QED
    BY <1>1, <2>1, <2>2 DEF Expiring, Rung, Contract!Next
<1>4. CASE Tick
  <2>1. clock' = clock + 1 /\ stopped' = stopped /\ running_' = running_
    BY <1>4 DEF Tick, flags
  <2>2. Contract!Tick
    BY <1>1, <1>2, <2>1 DEF Contract!Tick, Seen
  <2> QED
    BY <1>1, <2>1, <2>2 DEF Expiring, Rung, Contract!Next
<1>5. CASE \/ Exit \/ Sleep \/ Relock \/ WaitForFirst \/ TimedWake \/ SpuriousWake \/ BusyRead
           \/ BusyCheck \/ UNCHANGED vars
  <2>1. UNCHANGED <<clock, stopped, running_>>
    BY <1>5 DEF Exit, Sleep, Relock, WaitForFirst, TimedWake, SpuriousWake, BusyRead, BusyCheck,
                vars, flags, clocks
  <2> QED
    BY <1>1, <1>2, <2>1 DEF Expiring, Rung, Contract!vars, Seen
<1> QED
  BY <1>3, <1>4, <1>5

\* Whatever its thread waits for and whoever cancels, the service does to timers what
\* the contract says: each that was set ends once, with true only if its timeout was
\* reached and before it was canceled or the service closed; all that are due expire
\* together, are told in the order of their timeouts, and none is overlooked.
THEOREM TimersAreAlarms == ServicesSpec => ImplementsAlarms
<1>1. ServicesInit => Contract!Init /\ Expiring
  <2> SUFFICES ASSUME ServicesInit PROVE Contract!Init /\ Expiring
    OBVIOUS
  <2>1. /\ clock = 0 /\ deadline = [t \in Timers |-> 0] /\ timers_ = <<>> /\ timed_out = <<>>
        /\ canceled = {} /\ ready = {} /\ result = {} /\ ~running_ /\ stopped = FALSE
    BY DEF ServicesInit, Init
  <2>2. \A t \in Timers : AlarmOf(t) = "new"
    BY <2>1 DEF AlarmOf, ToSet
  <2> QED
    BY <2>1, <2>2 DEF Contract!Init, Expiring
<1>2. TimerInv /\ TimerInv' /\ Expiring /\ [ServicesNext]_servicesVars => Expiring' /\ Rung
  <2> SUFFICES ASSUME TimerInv, TimerInv', Expiring, [ServicesNext]_servicesVars
               PROVE  Expiring' /\ Rung
    OBVIOUS
  <2>1. CASE Next
    BY <2>1, SetStep, CancelAlarmStep, ExpireAlarmStep, RingStep, FailStep, QuietStep
       DEF Next, ServiceThread
  <2>2. CASE UNCHANGED vars
    BY <2>2, QuietStep
  <2> QED
    BY <2>1, <2>2 DEF ServicesNext, servicesVars
<1> QED
  BY <1>1, <1>2, TimerInvariant, PTL DEF ServicesSpec, ImplementsAlarms, Contract!Spec, Rung

-----------------------------------------------------------------------------
(* The threadpool.                                                         *)

\* A reading of scheduler i.
Read(readings, i) == \E r \in readings : r[1] = i

\* Where the loops are, and what a caller has read by then.
Progress(c) ==
  /\ pass[c] = "first" =>
       /\ lightest_workload[c] # 0
       /\ starting_index[c] < index[c] /\ index[c] < worker_count
       /\ \A i \in starting_index[c] .. index[c] - 1 : Read(seen[c], i)
  /\ pass[c] = "second" =>
       /\ lightest_workload[c] # 0
       /\ index[c] < starting_index[c]
       /\ \A i \in starting_index[c] .. worker_count - 1 : Read(seen[c], i)
       /\ \A i \in 0 .. index[c] - 1 : Read(seen[c], i)
  /\ pass[c] = "chosen" =>
       lightest_workload[c] = 0 \/ \A i \in 0 .. worker_count - 1 : Read(seen[c], i)

Scanning(c) ==
  pass[c] # "idle" =>
    /\ starting_index[c] < worker_count
    /\ <<lightest_scheduler[c], lightest_workload[c]>> \in seen[c]
    /\ \A r \in seen[c] : lightest_workload[c] <= r[2]
    /\ Progress(c)

\* The inductive invariant.
PoolInv == T!TypeOK /\ IndexInRange /\ \A c \in Callers : Scanning(c)

-----------------------------------------------------------------------------
(* Types.                                                                  *)

\* The sets that readings are taken from.
LEMMA PoolSets ==
  /\ T!Indices \subseteq Nat /\ 0 \in T!Indices
  /\ T!Loads \subseteq Nat /\ 0 \in T!Loads
  /\ \A n \in 1 .. MaxWorkers : n \in Nat /\ \A i \in Nat : i < n => i \in T!Indices
BY PoolAssumption DEF T!Indices, T!Loads

\* The conjuncts of the type invariant, one by one.
LEMMA PoolTyped ==
  T!TypeOK <=>
    /\ worker_count \in 1 .. MaxWorkers
    /\ scheduled_count \in [T!Indices -> T!Loads]
    /\ pass \in [Callers -> T!Passes]
    /\ tl_rotatable_start_index \in [Callers -> T!Indices]
    /\ starting_index \in [Callers -> T!Indices]
    /\ index \in [Callers -> T!Indices]
    /\ lightest_scheduler \in [Callers -> T!Indices]
    /\ lightest_workload \in [Callers -> T!Loads]
    /\ seen \in [Callers -> SUBSET (T!Indices \X T!Loads)]
    /\ shrunk \in BOOLEAN /\ overrun \in BOOLEAN
BY DEF T!TypeOK

LEMMA PoolTypedNext ==
  T!TypeOK' <=>
    /\ worker_count' \in 1 .. MaxWorkers
    /\ scheduled_count' \in [T!Indices -> T!Loads]
    /\ pass' \in [Callers -> T!Passes]
    /\ tl_rotatable_start_index' \in [Callers -> T!Indices]
    /\ starting_index' \in [Callers -> T!Indices]
    /\ index' \in [Callers -> T!Indices]
    /\ lightest_scheduler' \in [Callers -> T!Indices]
    /\ lightest_workload' \in [Callers -> T!Loads]
    /\ seen' \in [Callers -> SUBSET (T!Indices \X T!Loads)]
    /\ shrunk' \in BOOLEAN /\ overrun' \in BOOLEAN
BY DEF T!TypeOK

LEMMA PoolInit == T!Init => PoolInv
<1> SUFFICES ASSUME T!Init PROVE PoolInv
  OBVIOUS
<1>1. T!TypeOK
  BY PoolSets, PoolTyped DEF T!Init, T!Passes
<1>2. IndexInRange
  BY PoolAssumption DEF T!Init, IndexInRange, T!IndexInRange
<1>3. \A c \in Callers : Scanning(c)
  BY DEF T!Init, Scanning
<1> QED
  BY <1>1, <1>2, <1>3 DEF PoolInv

\* The start index of the next call fits the pool.
LEMMA RotatedInRange ==
  ASSUME T!TypeOK, NEW i \in T!Indices
  PROVE  T!Rotated(i) \in T!Indices /\ T!Rotated(i) < worker_count
BY PoolSets, PoolAssumption, PoolTyped DEF T!Rotated, T!Indices

\* A caller that does not move keeps its readings and its place.
LEMMA ScanningFrame ==
  ASSUME NEW c \in Callers, Scanning(c),
         worker_count' = worker_count,
         pass'[c] = pass[c], starting_index'[c] = starting_index[c], index'[c] = index[c],
         lightest_scheduler'[c] = lightest_scheduler[c],
         lightest_workload'[c] = lightest_workload[c], seen'[c] = seen[c]
  PROVE  Scanning(c)'
BY DEF Scanning, Progress, Read

-----------------------------------------------------------------------------
(* Steps.                                                                  *)

\* What Advance and Choose do to the variables they write.
LEMMA AdvanceTypes ==
  ASSUME T!TypeOK, NEW c \in Callers, NEW p \in {"first", "second"},
         NEW i \in T!Indices, NEW start \in T!Indices,
         i < worker_count, start < worker_count,
         T!Advance(c, p, i, start)
  PROVE  /\ pass' \in [Callers -> T!Passes]
         /\ index' \in [Callers -> T!Indices]
         /\ \A d \in Callers \ {c} : pass'[d] = pass[d] /\ index'[d] = index[d]
         /\ \/ /\ i + 1 < (IF p = "first" THEN worker_count ELSE start)
               /\ pass'[c] = p /\ index'[c] = i + 1
            \/ /\ p = "first" /\ i + 1 = worker_count /\ start > 0
               /\ pass'[c] = "second" /\ index'[c] = 0
            \/ /\ pass'[c] = "chosen"
               /\ IF p = "first" THEN i + 1 = worker_count /\ start = 0 ELSE i + 1 = start
<1>1. i + 1 < worker_count => i + 1 \in T!Indices
  BY PoolSets, PoolTyped
<1>2. i + 1 < start => i + 1 \in T!Indices
  BY PoolSets, PoolTyped
<1>3. pass \in [Callers -> T!Passes] /\ index \in [Callers -> T!Indices] /\ 0 \in T!Indices
  BY PoolSets, PoolTyped
<1>4. CASE /\ i + 1 < (IF p = "first" THEN worker_count ELSE start)
           /\ index' = [index EXCEPT ![c] = i + 1]
           /\ pass' = [pass EXCEPT ![c] = p]
  BY <1>1, <1>2, <1>3, <1>4 DEF T!Passes
<1>5. CASE /\ p = "first" /\ i + 1 = worker_count /\ start > 0
           /\ index' = [index EXCEPT ![c] = 0]
           /\ pass' = [pass EXCEPT ![c] = "second"]
  BY <1>3, <1>5 DEF T!Passes
<1>6. CASE /\ IF p = "first" THEN i + 1 = worker_count /\ start = 0 ELSE i + 1 = start
           /\ T!Choose(c)
  BY <1>3, <1>6 DEF T!Passes, T!Choose
<1> QED
  BY <1>4, <1>5, <1>6 DEF T!Advance

LEMMA BeginStep ==
  ASSUME PoolInv, NEW c \in Callers, T!Begin(c)
  PROVE  PoolInv'
<1> DEFINE start == tl_rotatable_start_index[c]
           load == scheduled_count[start]
<1>1. /\ start \in T!Indices /\ load \in T!Loads /\ start \in Nat /\ load \in Nat
      /\ worker_count \in Nat /\ T!TypeOK /\ 0 \in T!Indices
  BY PoolSets, PoolTyped DEF PoolInv
<1> HIDE DEF start, load
<1>2. /\ tl_rotatable_start_index' \in [Callers -> T!Indices]
      /\ ~shrunk => \A d \in Callers : tl_rotatable_start_index'[d] < worker_count
  <2>1. T!Rotated(start) \in T!Indices /\ T!Rotated(start) < worker_count
    BY <1>1, RotatedInRange
  <2>2. tl_rotatable_start_index' = [tl_rotatable_start_index EXCEPT ![c] = T!Rotated(start)]
    BY DEF T!Begin, start
  <2> QED
    BY <2>1, <2>2, <1>1, PoolTyped DEF PoolInv, IndexInRange, T!IndexInRange
<1>3. UNCHANGED <<worker_count, scheduled_count, shrunk>>
  BY DEF T!Begin
<1>4. CASE start >= worker_count /\ overrun' = TRUE /\ UNCHANGED T!locals
  <2>1. T!TypeOK'
    BY <1>1, <1>2, <1>3, <1>4, PoolTyped, PoolTypedNext DEF T!locals
  <2>2. IndexInRange'
    BY <1>2, <1>3, <1>4, <1>1 DEF PoolInv, IndexInRange, T!IndexInRange, start
  <2>3. \A d \in Callers : Scanning(d)'
    BY <1>3, <1>4, ScanningFrame DEF PoolInv, T!locals
  <2> QED
    BY <2>1, <2>2, <2>3 DEF PoolInv
<1>5. CASE /\ start < worker_count
           /\ starting_index' = [starting_index EXCEPT ![c] = start]
           /\ lightest_scheduler' = [lightest_scheduler EXCEPT ![c] = start]
           /\ lightest_workload' = [lightest_workload EXCEPT ![c] = load]
           /\ seen' = [seen EXCEPT ![c] = {<<start, load>>}]
           /\ IF load = 0 \/ worker_count = 1
                THEN T!Choose(c)
                ELSE T!Advance(c, "first", start, start)
           /\ UNCHANGED overrun
  <2>1. /\ pass' \in [Callers -> T!Passes] /\ index' \in [Callers -> T!Indices]
        /\ \A d \in Callers \ {c} : pass'[d] = pass[d] /\ index'[d] = index[d]
    <3>1. CASE load = 0 \/ worker_count = 1
      BY <1>1, <1>5, <3>1, PoolTyped DEF T!Choose, T!Passes
    <3>2. CASE ~(load = 0 \/ worker_count = 1)
      BY <1>1, <1>5, <3>2, AdvanceTypes
    <3> QED
      BY <3>1, <3>2
  <2>2. /\ starting_index' \in [Callers -> T!Indices] /\ starting_index'[c] = start
        /\ lightest_scheduler' \in [Callers -> T!Indices] /\ lightest_scheduler'[c] = start
        /\ lightest_workload' \in [Callers -> T!Loads] /\ lightest_workload'[c] = load
        /\ seen' \in [Callers -> SUBSET (T!Indices \X T!Loads)] /\ seen'[c] = {<<start, load>>}
    BY <1>1, <1>5, PoolTyped
  <2>3. \A d \in Callers \ {c} :
          /\ starting_index'[d] = starting_index[d]
          /\ lightest_scheduler'[d] = lightest_scheduler[d]
          /\ lightest_workload'[d] = lightest_workload[d] /\ seen'[d] = seen[d]
    BY <1>1, <1>5, PoolTyped
  <2>4. T!TypeOK'
    BY <1>1, <1>2, <1>3, <1>5, <2>1, <2>2, PoolTyped, PoolTypedNext
  <2>5. IndexInRange'
    BY <1>2, <1>3, <1>5 DEF PoolInv, IndexInRange, T!IndexInRange
  <2>6. Read(seen'[c], start)
    BY <2>2 DEF Read
  <2>7. Progress(c)'
    <3>1. CASE load = 0
      <4>1. pass'[c] = "chosen"
        BY <1>1, <1>5, <3>1, PoolTyped DEF T!Choose
      <4> QED
        BY <4>1, <3>1, <2>2 DEF Progress
    <3>2. CASE load # 0 /\ worker_count = 1
      <4>1. pass'[c] = "chosen"
        BY <1>1, <1>5, <3>2, PoolTyped DEF T!Choose
      <4>2. start = 0
        BY <1>1, <1>5, <3>2
      <4> QED
        BY <4>1, <4>2, <3>2, <2>6, <1>3 DEF Progress
    <3>3. CASE load # 0 /\ worker_count # 1
      <4>1. T!Advance(c, "first", start, start)
        BY <1>5, <3>3
      <4>2. \/ start + 1 < worker_count /\ pass'[c] = "first" /\ index'[c] = start + 1
            \/ start + 1 = worker_count /\ start > 0 /\ pass'[c] = "second" /\ index'[c] = 0
            \/ pass'[c] = "chosen" /\ start + 1 = worker_count /\ start = 0
        BY <4>1, <1>1, <1>5, AdvanceTypes
      <4>3. \A i \in start .. start : Read(seen'[c], i)
        BY <2>6, <1>1
      <4>4. CASE start + 1 < worker_count /\ pass'[c] = "first" /\ index'[c] = start + 1
        BY <4>3, <4>4, <2>2, <3>3, <1>1, <1>3 DEF Progress
      <4>5. CASE start + 1 = worker_count /\ start > 0 /\ pass'[c] = "second" /\ index'[c] = 0
        <5>1. \A j \in start .. worker_count - 1 : Read(seen'[c], j)
          BY <4>3, <4>5, <1>1
        <5> QED
          BY <5>1, <4>5, <2>2, <3>3, <1>1, <1>3 DEF Progress
      <4>6. CASE pass'[c] = "chosen" /\ start + 1 = worker_count /\ start = 0
        BY <4>3, <4>6, <2>2, <1>1, <1>3 DEF Progress
      <4> QED
        BY <4>2, <4>4, <4>5, <4>6
    <3> QED
      BY <3>1, <3>2, <3>3
  <2>8. Scanning(c)'
    BY <2>2, <2>7, <1>1, <1>3, <1>5 DEF Scanning
  <2>9. \A d \in Callers \ {c} : Scanning(d)'
    BY <2>1, <2>3, <1>3, ScanningFrame DEF PoolInv
  <2> QED
    BY <2>4, <2>5, <2>8, <2>9 DEF PoolInv
<1> QED
  BY <1>4, <1>5 DEF T!Begin, T!See, start, load

LEMMA IterateStep ==
  ASSUME PoolInv, NEW c \in Callers, T!IterateWorkloads(c)
  PROVE  PoolInv'
<1> DEFINE i == index[c]
           load == scheduled_count[i]
           start == starting_index[c]
           best == lightest_workload[c]
<1>1. /\ i \in T!Indices /\ load \in T!Loads /\ start \in T!Indices /\ best \in T!Loads
      /\ i \in Nat /\ load \in Nat /\ start \in Nat /\ best \in Nat /\ worker_count \in Nat
      /\ T!TypeOK /\ Scanning(c) /\ IndexInRange
  BY PoolSets, PoolTyped DEF PoolInv
<1>2. pass[c] \in {"first", "second"}
  BY DEF T!IterateWorkloads
<1>3. /\ start < worker_count /\ best # 0 /\ i < worker_count
      /\ <<lightest_scheduler[c], best>> \in seen[c]
      /\ \A r \in seen[c] : best <= r[2]
      /\ pass[c] = "first" => start < i /\ \A j \in start .. i - 1 : Read(seen[c], j)
      /\ pass[c] = "second" =>
           /\ i < start
           /\ \A j \in start .. worker_count - 1 : Read(seen[c], j)
           /\ \A j \in 0 .. i - 1 : Read(seen[c], j)
  BY <1>1, <1>2 DEF Scanning, Progress
<1>4. /\ seen' = [seen EXCEPT ![c] = @ \cup {<<i, load>>}]
      /\ lightest_scheduler' = [lightest_scheduler EXCEPT ![c] = IF load < best THEN i ELSE @]
      /\ lightest_workload' = [lightest_workload EXCEPT ![c] = IF load < best THEN load ELSE @]
      /\ IF load = 0 THEN T!Choose(c) ELSE T!Advance(c, pass[c], i, start)
      /\ UNCHANGED <<worker_count, scheduled_count, tl_rotatable_start_index, starting_index,
                     shrunk, overrun>>
  BY DEF T!IterateWorkloads, T!See
<1> HIDE DEF i, load, start, best
<1>5. /\ pass' \in [Callers -> T!Passes] /\ index' \in [Callers -> T!Indices]
      /\ \A d \in Callers \ {c} : pass'[d] = pass[d] /\ index'[d] = index[d]
  <2>1. CASE load = 0
    BY <1>1, <1>4, <2>1, PoolTyped DEF T!Choose, T!Passes
  <2>2. CASE load # 0
    BY <1>1, <1>2, <1>3, <1>4, <2>2, AdvanceTypes
  <2> QED
    BY <2>1, <2>2
<1>6. /\ lightest_scheduler' \in [Callers -> T!Indices]
      /\ lightest_workload' \in [Callers -> T!Loads]
      /\ lightest_scheduler'[c] = IF load < best THEN i ELSE lightest_scheduler[c]
      /\ lightest_workload'[c] = IF load < best THEN load ELSE best
  BY <1>1, <1>4, PoolTyped DEF best
<1>7. /\ seen' \in [Callers -> SUBSET (T!Indices \X T!Loads)]
      /\ seen'[c] = seen[c] \cup {<<i, load>>}
  BY <1>1, <1>4, PoolTyped
<1>8. \A d \in Callers \ {c} :
        /\ lightest_scheduler'[d] = lightest_scheduler[d]
        /\ lightest_workload'[d] = lightest_workload[d] /\ seen'[d] = seen[d]
  BY <1>1, <1>4, PoolTyped
<1>9. T!TypeOK'
  BY <1>1, <1>4, <1>5, <1>6, <1>7, PoolTyped, PoolTypedNext
<1>10. IndexInRange'
  BY <1>1, <1>4 DEF IndexInRange, T!IndexInRange
<1>11. /\ <<lightest_scheduler'[c], lightest_workload'[c]>> \in seen'[c]
       /\ \A r \in seen'[c] : lightest_workload'[c] <= r[2]
  <2>1. seen[c] \subseteq T!Indices \X T!Loads
    BY <1>1, PoolTyped
  <2>2. \A r \in seen[c] : r[2] \in Nat
    BY <2>1, PoolSets
  <2>3. CASE load < best
    BY <2>2, <2>3, <1>1, <1>3, <1>6, <1>7
  <2>4. CASE ~(load < best)
    BY <2>2, <2>4, <1>1, <1>3, <1>6, <1>7
  <2> QED
    BY <2>3, <2>4
<1>12. Read(seen'[c], i) /\ \A j : Read(seen[c], j) => Read(seen'[c], j)
  <2>1. <<i, load>> \in seen'[c] /\ <<i, load>>[1] = i /\ seen[c] \subseteq seen'[c]
    BY <1>7
  <2> QED
    BY <2>1 DEF Read
<1>13. Progress(c)'
  <2>1. CASE load = 0
    <3>1. pass'[c] = "chosen" /\ lightest_workload'[c] = 0
      BY <1>1, <1>3, <1>4, <1>6, <2>1, PoolTyped DEF T!Choose
    <3> QED
      BY <3>1 DEF Progress
  <2>2. CASE load # 0
    <3>1. lightest_workload'[c] # 0 /\ starting_index'[c] = start
      BY <2>2, <1>1, <1>3, <1>4, <1>6 DEF start
    <3>2. T!Advance(c, pass[c], i, start) /\ worker_count' = worker_count
      BY <2>2, <1>4
    <3>3. \/ /\ i + 1 < (IF pass[c] = "first" THEN worker_count ELSE start)
             /\ pass'[c] = pass[c] /\ index'[c] = i + 1
          \/ /\ pass[c] = "first" /\ i + 1 = worker_count /\ start > 0
             /\ pass'[c] = "second" /\ index'[c] = 0
          \/ /\ pass'[c] = "chosen"
             /\ IF pass[c] = "first" THEN i + 1 = worker_count /\ start = 0 ELSE i + 1 = start
      BY <3>2, <1>1, <1>2, <1>3, AdvanceTypes
    <3>4. CASE pass[c] = "first"
      <4>1. \A j \in start .. i : Read(seen'[c], j)
        BY <1>1, <1>3, <1>12, <3>4
      <4>2. CASE i + 1 < worker_count /\ pass'[c] = "first" /\ index'[c] = i + 1
        <5>1. index'[c] - 1 = i /\ start < index'[c]
          BY <1>1, <1>3, <3>4, <4>2
        <5>2. starting_index'[c] .. index'[c] - 1 = start .. i
          BY <4>2, <5>1, <3>1
        <5> QED
          BY <4>1, <4>2, <5>1, <5>2, <3>1, <3>2 DEF Progress
      <4>3. CASE i + 1 = worker_count /\ start > 0 /\ pass'[c] = "second" /\ index'[c] = 0
        <5>1. \A j \in start .. worker_count - 1 : Read(seen'[c], j)
          BY <4>1, <4>3, <1>1
        <5> QED
          BY <5>1, <4>3, <3>1, <1>1, <3>2 DEF Progress
      <4>4. CASE pass'[c] = "chosen" /\ i + 1 = worker_count /\ start = 0
        <5>1. \A j \in 0 .. worker_count - 1 : Read(seen'[c], j)
          BY <4>1, <4>4, <1>1
        <5> QED
          BY <5>1, <4>4, <3>2 DEF Progress
      <4> QED
        BY <3>3, <3>4, <4>2, <4>3, <4>4
    <3>5. CASE pass[c] = "second"
      <4>1. /\ \A j \in 0 .. i : Read(seen'[c], j)
            /\ \A j \in start .. worker_count - 1 : Read(seen'[c], j)
        BY <1>1, <1>3, <1>12, <3>5
      <4>2. CASE i + 1 < start /\ pass'[c] = "second" /\ index'[c] = i + 1
        <5>1. index'[c] - 1 = i
          BY <1>1, <4>2
        <5>2. /\ 0 .. index'[c] - 1 = 0 .. i
              /\ starting_index'[c] .. worker_count' - 1 = start .. worker_count - 1
          BY <4>2, <5>1, <3>1, <3>2
        <5> QED
          BY <4>1, <4>2, <5>1, <5>2, <3>1 DEF Progress
      <4>3. CASE pass'[c] = "chosen" /\ i + 1 = start
        <5>1. \A j \in 0 .. worker_count - 1 : Read(seen'[c], j)
          BY <4>1, <4>3, <1>1
        <5> QED
          BY <5>1, <4>3, <3>2 DEF Progress
      <4> QED
        BY <3>3, <3>5, <4>2, <4>3
    <3> QED
      BY <3>4, <3>5, <1>2
  <2> QED
    BY <2>1, <2>2
<1>14. Scanning(c)'
  BY <1>3, <1>4, <1>11, <1>13 DEF Scanning, start
<1>15. \A d \in Callers \ {c} : Scanning(d)'
  BY <1>4, <1>5, <1>8, ScanningFrame DEF PoolInv
<1> QED
  BY <1>9, <1>10, <1>14, <1>15 DEF PoolInv

LEMMA ScheduleStep ==
  ASSUME PoolInv, NEW c \in Callers, T!Schedule(c)
  PROVE  PoolInv'
<1>1. /\ lightest_scheduler[c] \in T!Indices
      /\ scheduled_count[lightest_scheduler[c]] + 1 \in T!Loads
  <2>1. scheduled_count[lightest_scheduler[c]] < MaxLoad
    BY DEF T!Schedule
  <2>2. scheduled_count[lightest_scheduler[c]] \in T!Loads
    BY PoolTyped DEF PoolInv
  <2> QED
    BY <2>1, <2>2, PoolTyped, PoolAssumption DEF PoolInv, T!Loads
<1>2. T!TypeOK'
  BY <1>1, PoolTyped, PoolTypedNext DEF PoolInv, T!Schedule, T!Passes
<1>3. IndexInRange'
  BY DEF PoolInv, T!Schedule, IndexInRange, T!IndexInRange
<1>4. Scanning(c)'
  BY PoolTyped DEF PoolInv, T!Schedule, Scanning
<1>5. \A d \in Callers \ {c} : Scanning(d)'
  BY ScanningFrame, PoolTyped DEF PoolInv, T!Schedule
<1> QED
  BY <1>2, <1>3, <1>4, <1>5 DEF PoolInv

LEMMA CountStep ==
  ASSUME PoolInv, NEW i \in T!Indices, T!CountChanges(i)
  PROVE  PoolInv'
<1>1. PICK n \in T!Loads : scheduled_count' = [scheduled_count EXCEPT ![i] = n]
  BY DEF T!CountChanges
<1>2. UNCHANGED <<worker_count, tl_rotatable_start_index, T!locals, shrunk, overrun>>
  BY DEF T!CountChanges
<1>3. T!TypeOK'
  BY <1>1, <1>2, PoolTyped, PoolTypedNext DEF PoolInv, T!locals
<1>4. IndexInRange'
  BY <1>2 DEF PoolInv, IndexInRange, T!IndexInRange
<1>5. \A d \in Callers : Scanning(d)'
  BY <1>2, ScanningFrame DEF PoolInv, T!locals
<1> QED
  BY <1>3, <1>4, <1>5 DEF PoolInv

LEMMA RestartStep ==
  ASSUME PoolInv, NEW n \in 1 .. MaxWorkers, T!Restart(n)
  PROVE  PoolInv'
<1>1. T!TypeOK'
  BY PoolSets, PoolTyped, PoolTypedNext DEF PoolInv, T!Restart, T!locals
<1>2. IndexInRange'
  <2>1. SUFFICES ASSUME ~shrunk' PROVE ~overrun /\ \A c \in Callers : tl_rotatable_start_index[c] < n
    BY DEF T!Restart, IndexInRange, T!IndexInRange
  <2>2. ~shrunk /\ ~(n < worker_count)
    BY <2>1, PoolTyped DEF PoolInv, T!Restart
  <2>3. \A c \in Callers : tl_rotatable_start_index[c] \in Nat
    BY PoolTyped, PoolSets DEF PoolInv
  <2>4. worker_count \in Nat /\ n \in Nat /\ MaxWorkers \in Nat
    BY PoolTyped, PoolAssumption DEF PoolInv
  <2> QED
    BY <2>2, <2>3, <2>4 DEF PoolInv, IndexInRange, T!IndexInRange
<1>3. \A d \in Callers : Scanning(d)'
  BY DEF T!Restart, T!locals, Scanning
<1> QED
  BY <1>1, <1>2, <1>3 DEF PoolInv

\* Steps of the other services, and stuttering.
LEMMA PoolFrame ==
  ASSUME PoolInv, UNCHANGED poolVars
  PROVE  PoolInv'
<1>1. T!TypeOK'
  BY PoolTyped, PoolTypedNext DEF PoolInv, poolVars
<1>2. IndexInRange'
  BY DEF PoolInv, poolVars, IndexInRange, T!IndexInRange
<1>3. \A d \in Callers : Scanning(d)'
  BY ScanningFrame DEF PoolInv, poolVars
<1> QED
  BY <1>1, <1>2, <1>3 DEF PoolInv

-----------------------------------------------------------------------------
(* Theorems.                                                               *)

LEMMA PoolInvariant == ServicesSpec => []PoolInv
<1>1. ServicesInit => PoolInv
  BY PoolInit DEF ServicesInit
<1>2. PoolInv /\ [ServicesNext]_servicesVars => PoolInv'
  <2> SUFFICES ASSUME PoolInv, [ServicesNext]_servicesVars PROVE PoolInv'
    OBVIOUS
  <2>1. CASE T!Next
    BY <2>1, BeginStep, IterateStep, ScheduleStep, CountStep, RestartStep DEF T!Next
  <2>2. CASE UNCHANGED poolVars
    BY <2>2, PoolFrame
  <2> QED
    BY <2>1, <2>2 DEF ServicesNext, servicesVars
<1> QED
  BY <1>1, <1>2, PTL DEF ServicesSpec

\* lightest() picks the best of what it has read, and has read an idle scheduler
\* or all of them, however the counts change in between.
THEOREM LightestIsChosen == ServicesSpec => []ChosenIsLightest
<1>1. PoolInv => ChosenIsLightest
  <2> SUFFICES ASSUME PoolInv, NEW c \in Callers, pass[c] = "chosen"
               PROVE  /\ <<lightest_scheduler[c], lightest_workload[c]>> \in seen[c]
                      /\ \A r \in seen[c] : lightest_workload[c] <= r[2]
                      /\ \/ lightest_workload[c] = 0
                         \/ \A i \in 0 .. worker_count - 1 : \E r \in seen[c] : r[1] = i
    BY DEF ChosenIsLightest, T!ChosenIsLightest
  <2> QED
    BY DEF PoolInv, Scanning, Progress, Read
<1> QED
  BY <1>1, PoolInvariant, PTL

\* The schedulers are never indexed beyond their end, unless a smaller pool has
\* replaced the one that a thread's start index was rotated for.
THEOREM StartIndexFits == ServicesSpec => []IndexInRange
<1>1. PoolInv => IndexInRange
  BY DEF PoolInv
<1> QED
  BY <1>1, PoolInvariant, PTL

-----------------------------------------------------------------------------
(* The scope.                                                              *)

\* Of the variables, what the steps need of their types.
ScopeTyped ==
  /\ sends \in 0 .. MaxSends
  /\ buf \in Seq(Nat) /\ received \in Seq(Nat)
  /\ DOMAIN call = S!Adders \cup {Root}
  /\ DOMAIN adopted = S!Adders
  /\ parked_send = <<>>

\* What the root awaiter has received and not joined.
Held == IF S!InHand THEN {S!Received} ELSE {}

\* The root awaiter, its call and the channel's receivers agree.
RootAt ==
  /\ \/ /\ root \in {"none", "receiving", "done"}
        /\ call[Root] = S!root_ch_!Idle /\ parked_recv = <<>>
     \/ /\ root = "receiving"
        /\ call[Root] = S!root_ch_!Blocked("recv", 0) /\ parked_recv = <<Root>>
        /\ buf = <<>> /\ ~closed_flag
     \/ /\ root = "receiving"
        /\ call[Root] = S!root_ch_!Done("recv", 0, "closed") /\ parked_recv = <<>>
        /\ buf = <<>> /\ closed_flag
     \/ /\ root \in {"receiving", "joining"}
        /\ call[Root] = S!root_ch_!Done("recv", S!Received, "success") /\ parked_recv = <<>>
  /\ root = "done" => closed_flag /\ buf = <<>>
  /\ owner = "none" => root = "none"

\* Everything that was released is accounted for.
Accounted ==
  /\ IsInjective(buf)
  /\ ToSet(received) = joined \cup Held /\ joined \cap Held = {}
  /\ 1 .. sends = refused \cup ToSet(received) \cup ToSet(buf)
  /\ refused \cap ToSet(received) = {} /\ refused \cap ToSet(buf) = {}
  /\ ToSet(received) \cap ToSet(buf) = {}
  /\ refused # {} => closed_flag
  /\ joined \subseteq complete

\* What an add() has released or answered for was released.
Answered == added \subseteq 1 .. sends /\ \A a \in S!Adders : adopted[a] \subseteq 1 .. sends

\* The inductive invariant.
ScopeInv == ScopeTyped /\ RootAt /\ Accounted /\ Answered

LEMMA ScopeInit == S!Init => ScopeInv
<1> SUFFICES ASSUME S!Init PROVE ScopeInv
  OBVIOUS
<1>0. ToSet(<<>>) = {} /\ IsInjective(<<>>) /\ <<>> \in Seq(Nat) /\ 1 .. 0 = {}
  BY DEF ToSet, IsInjective
<1>1. /\ closed_flag = FALSE /\ buf = <<>> /\ parked_send = <<>> /\ parked_recv = <<>>
      /\ call = [a \in S!Adders \cup {Root} |-> S!root_ch_!Idle]
      /\ sends = 0 /\ received = <<>>
      /\ adopted = [a \in S!Adders |-> {}]
      /\ added = {} /\ refused = {} /\ root = "none" /\ joined = {} /\ complete = {}
  BY DEF S!Init, S!root_ch_!Init
<1>2. call[Root] = S!root_ch_!Idle
  BY <1>1
<1>3. Held = {}
  BY <1>2 DEF Held, S!InHand, S!root_ch_!Idle
<1>4. ScopeTyped
  BY <1>0, <1>1, ScopeAssumption DEF ScopeTyped
<1>5. RootAt
  BY <1>1, <1>2 DEF RootAt
<1>6. Accounted /\ Answered
  BY <1>0, <1>1, <1>3 DEF Accounted, Answered
<1> QED
  BY <1>4, <1>5, <1>6 DEF ScopeInv

\* Whatever leaves the channel, the root awaiter and what it joined alone.
LEMMA ScopeSame ==
  ASSUME ScopeInv, call'[Root] = call[Root], DOMAIN call' = DOMAIN call,
         UNCHANGED <<closed_flag, buf, parked_send, parked_recv, sends, received, refused, root, joined>>,
         complete \subseteq complete', owner' = owner \/ owner' # "none",
         DOMAIN adopted' = DOMAIN adopted, Answered'
  PROVE  ScopeInv'
<1>0. ScopeTyped /\ RootAt /\ Accounted
  BY DEF ScopeInv
<1>1. ScopeTyped'
  BY <1>0 DEF ScopeTyped
<1>2. S!Received' = S!Received /\ S!InHand' = S!InHand /\ Held' = Held
  BY DEF S!Received, S!InHand, Held
<1>3. RootAt'
  BY <1>0, <1>2 DEF RootAt
<1>4. Accounted'
  BY <1>0, <1>2 DEF Accounted
<1> QED
  BY <1>1, <1>3, <1>4 DEF ScopeInv

\* What a send does to the channel, when it is open or not.
LEMMA Sending ==
  ASSUME ScopeInv, NEW a \in S!Adders, S!send(a)
  PROVE  /\ sends' = sends + 1 /\ sends' \in 0 .. MaxSends
         /\ UNCHANGED <<closed_flag, parked_send>> /\ DOMAIN call' = DOMAIN call
         /\ \/ closed_flag /\ UNCHANGED <<buf, parked_recv, received>> /\ call'[Root] = call[Root]
            \/ /\ ~closed_flag /\ parked_recv = <<>>
               /\ buf' = Append(buf, sends') /\ call'[Root] = call[Root]
               /\ UNCHANGED <<parked_recv, received>>
            \/ /\ ~closed_flag /\ parked_recv = <<Root>> /\ buf = <<>> /\ root = "receiving"
               /\ buf' = <<>> /\ parked_recv' = <<>> /\ received' = Append(received, sends')
               /\ call'[Root] = S!root_ch_!Done("recv", sends', "success")
               /\ call[Root] = S!root_ch_!Blocked("recv", 0)
<1>0. ScopeTyped /\ RootAt
  BY DEF ScopeInv
<1>a. a # Root /\ a \in DOMAIN call /\ Root \in DOMAIN call
  BY <1>0, ScopeAssumption DEF ScopeTyped, S!Adders
<1>1. sends' = sends + 1 /\ sends' \in 0 .. MaxSends
  BY <1>0, ScopeAssumption
     DEF ScopeTyped, S!send, S!root_ch_!Send, S!root_ch_!SendAs, S!root_ch_!TakesValue, S!root_ch_!NextValue
<1>2. CASE closed_flag /\ S!root_ch_!Answer(a, "send", S!root_ch_!NextValue, "closed")
  BY <1>1, <1>2, <1>a DEF S!root_ch_!Answer
<1>3. CASE /\ ~closed_flag
           /\ S!root_ch_!Store(a, "send", S!root_ch_!NextValue)
           /\ UNCHANGED <<closed_flag, parked_send, broken>>
  <2>1. S!root_ch_!NextValue = sends'
    BY <1>1 DEF S!root_ch_!NextValue
  <2>2. CASE parked_recv = <<>>
    BY <1>1, <1>3, <1>a, <2>1, <2>2 DEF S!root_ch_!Store
  <2>3. CASE parked_recv # <<>>
    <3>1. /\ parked_recv = <<Root>> /\ buf = <<>> /\ root = "receiving"
          /\ call[Root] = S!root_ch_!Blocked("recv", 0)
      BY <1>0, <2>3 DEF RootAt
    <3>2. Head(parked_recv) = Root /\ Tail(parked_recv) = <<>>
      BY <3>1
    <3>3. Head(Append(buf, sends')) = sends' /\ Tail(Append(buf, sends')) = <<>>
      BY <3>1
    <3>4. /\ buf' = <<>> /\ received' = Append(received, sends') /\ parked_recv' = <<>>
          /\ call' = [call EXCEPT ![a] = S!root_ch_!Done("send", sends', "success"),
                                  ![Root] = S!root_ch_!Done("recv", sends', "success")]
      BY <1>3, <2>1, <2>3, <3>2, <3>3 DEF S!root_ch_!Store
    <3> QED
      BY <1>1, <1>3, <1>a, <3>1, <3>4
  <2> QED
    BY <2>2, <2>3
<1> QED
  BY <1>2, <1>3 DEF S!send, S!root_ch_!Send, S!root_ch_!SendAs

\* add_() releases an awaitable.
LEMMA AddStep ==
  ASSUME ScopeInv, NEW a \in S!Adders, S!add_(a)
  PROVE  ScopeInv'
<1>0. ScopeTyped /\ RootAt /\ Accounted /\ Answered
  BY DEF ScopeInv
<1>a. /\ sends \in Nat /\ sends' = sends + 1 /\ sends' \in 0 .. MaxSends /\ sends' \in Nat
      /\ 1 .. sends' = 1 .. sends \cup {sends'} /\ sends' \notin 1 .. sends
      /\ UNCHANGED <<closed_flag, parked_send>> /\ DOMAIN call' = DOMAIN call
  <2>1. /\ sends' = sends + 1 /\ sends' \in 0 .. MaxSends
        /\ UNCHANGED <<closed_flag, parked_send>> /\ DOMAIN call' = DOMAIN call
    BY Sending DEF S!add_
  <2>2. sends \in Nat
    BY <1>0, ScopeAssumption DEF ScopeTyped
  <2> QED
    BY <2>1, <2>2
<1>b. /\ UNCHANGED <<added, root, joined, complete, owner>>
      /\ adopted' = [adopted EXCEPT ![a] = @ \cup {sends'}]
      /\ refused' = IF closed_flag THEN refused \cup {sends'} ELSE refused
  BY DEF S!add_
<1>1. Answered' /\ DOMAIN adopted' = S!Adders
  BY <1>0, <1>a, <1>b DEF Answered, ScopeTyped
<1>c. sends' \notin ToSet(buf) /\ sends' \notin ToSet(received) /\ sends' \notin joined /\ sends' \notin refused
  BY <1>0, <1>a DEF Accounted
<1>2. CASE closed_flag /\ UNCHANGED <<buf, parked_recv, received>> /\ call'[Root] = call[Root]
  <2>1. ScopeTyped'
    BY <1>0, <1>1, <1>2, <1>a DEF ScopeTyped
  <2>2. S!Received' = S!Received /\ S!InHand' = S!InHand /\ Held' = Held
    BY <1>2 DEF S!Received, S!InHand, Held
  <2>3. RootAt'
    BY <1>0, <1>2, <1>a, <1>b, <2>2 DEF RootAt
  <2>4. Accounted'
    BY <1>0, <1>2, <1>a, <1>b, <1>c, <2>2 DEF Accounted
  <2> QED
    BY <1>1, <2>1, <2>3, <2>4 DEF ScopeInv
<1>3. CASE /\ ~closed_flag /\ parked_recv = <<>>
           /\ buf' = Append(buf, sends') /\ call'[Root] = call[Root]
           /\ UNCHANGED <<parked_recv, received>>
  <2>0. buf' \in Seq(Nat) /\ ToSet(buf') = ToSet(buf) \cup {sends'} /\ IsInjective(buf')
    <3>1. buf \in Seq(Nat) /\ IsInjective(buf)
      BY <1>0 DEF ScopeTyped, Accounted
    <3> QED
      BY <1>3, <1>a, <1>c, <3>1, QueueFacts, ElementFacts, DistinctFacts
  <2>1. ScopeTyped'
    BY <1>0, <1>1, <1>3, <1>a, <2>0 DEF ScopeTyped
  <2>2. S!Received' = S!Received /\ S!InHand' = S!InHand /\ Held' = Held
    BY <1>3 DEF S!Received, S!InHand, Held
  <2>3. RootAt'
    <3>1. call[Root] # S!root_ch_!Blocked("recv", 0) /\ call[Root] # S!root_ch_!Done("recv", 0, "closed")
      BY <1>0, <1>3 DEF RootAt, S!root_ch_!Blocked, S!root_ch_!Done, S!root_ch_!Idle
    <3> QED
      BY <1>0, <1>3, <1>a, <1>b, <2>2, <3>1 DEF RootAt
  <2>4. Accounted'
    BY <1>0, <1>3, <1>a, <1>b, <1>c, <2>0, <2>2 DEF Accounted
  <2> QED
    BY <1>1, <2>1, <2>3, <2>4 DEF ScopeInv
<1>4. CASE /\ ~closed_flag /\ parked_recv = <<Root>> /\ buf = <<>> /\ root = "receiving"
           /\ buf' = <<>> /\ parked_recv' = <<>> /\ received' = Append(received, sends')
           /\ call'[Root] = S!root_ch_!Done("recv", sends', "success")
           /\ call[Root] = S!root_ch_!Blocked("recv", 0)
  <2>0. received' \in Seq(Nat) /\ ToSet(received') = ToSet(received) \cup {sends'}
    <3>1. received \in Seq(Nat)
      BY <1>0 DEF ScopeTyped
    <3> QED
      BY <1>4, <1>a, <3>1, QueueFacts, ElementFacts, SMTT(20)
  <2>1. ScopeTyped'
    BY <1>0, <1>1, <1>4, <1>a, <2>0 DEF ScopeTyped
  <2>2. S!Received' = sends' /\ Held' = {sends'} /\ Held = {}
    BY <1>4 DEF S!Received, S!InHand, Held, S!root_ch_!Done, S!root_ch_!Blocked
  <2>3. RootAt'
    BY <1>0, <1>4, <1>a, <1>b, <2>2 DEF RootAt
  <2>4. Accounted'
    BY <1>0, <1>4, <1>a, <1>b, <1>c, <2>0, <2>2 DEF Accounted
  <2> QED
    BY <1>1, <2>1, <2>3, <2>4 DEF ScopeInv
<1>5. S!send(a)
  BY DEF S!add_
<1> QED
  BY <1>2, <1>3, <1>4, <1>5, Sending

\* The root awaiter receives, parks, or learns that the channel is closed.
LEMMA RecvStep ==
  ASSUME ScopeInv, S!Recv
  PROVE  ScopeInv'
<1>0. ScopeTyped /\ RootAt /\ Accounted /\ Answered
  BY DEF ScopeInv
<1>a. /\ root = "receiving" /\ S!root_ch_!Recv(Root)
      /\ UNCHANGED <<adopted, added, refused, root, joined, complete, owner>>
      /\ sends' = sends
  BY DEF S!Recv, S!adders, S!root_ch_!Recv
<1>b. call[Root] = S!root_ch_!Idle /\ parked_recv = <<>> /\ Root \in DOMAIN call
  BY <1>0, <1>a DEF ScopeTyped, RootAt, S!root_ch_!Recv, S!root_ch_!Ready, S!root_ch_!Blocked, S!root_ch_!Done
<1>c. Held = {}
  BY <1>b DEF Held, S!InHand, S!root_ch_!Idle
<1>1. Answered'
  BY <1>0, <1>a DEF Answered
<1>2. CASE buf = <<>> /\ closed_flag /\ S!root_ch_!Answer(Root, "recv", 0, "closed")
  <2>1. /\ call'[Root] = S!root_ch_!Done("recv", 0, "closed") /\ DOMAIN call' = DOMAIN call
        /\ UNCHANGED <<closed_flag, buf, parked_send, parked_recv, received>>
    BY <1>2, <1>b DEF S!root_ch_!Answer
  <2>2. Held' = {}
    BY <2>1 DEF Held, S!InHand, S!root_ch_!Done
  <2>3. ScopeTyped'
    BY <1>0, <1>a, <2>1 DEF ScopeTyped
  <2>4. RootAt'
    BY <1>0, <1>2, <1>a, <1>b, <2>1 DEF RootAt
  <2>5. Accounted'
    BY <1>0, <1>a, <1>c, <2>1, <2>2 DEF Accounted
  <2> QED
    BY <1>1, <2>3, <2>4, <2>5 DEF ScopeInv
<1>3. CASE buf = <<>> /\ ~closed_flag /\ S!root_ch_!ParkReceiver(Root)
  <2>1. /\ call'[Root] = S!root_ch_!Blocked("recv", 0) /\ DOMAIN call' = DOMAIN call
        /\ parked_recv' = <<Root>>
        /\ UNCHANGED <<closed_flag, buf, parked_send, received>>
    BY <1>3, <1>b DEF S!root_ch_!ParkReceiver
  <2>2. Held' = {}
    BY <2>1 DEF Held, S!InHand, S!root_ch_!Blocked
  <2>3. ScopeTyped'
    BY <1>0, <1>a, <2>1 DEF ScopeTyped
  <2>4. RootAt'
    BY <1>0, <1>3, <1>a, <1>b, <2>1 DEF RootAt
  <2>5. Accounted'
    BY <1>0, <1>a, <1>c, <2>1, <2>2 DEF Accounted
  <2> QED
    BY <1>1, <2>3, <2>4, <2>5 DEF ScopeInv
<1>4. CASE /\ buf # <<>> /\ S!root_ch_!Take(Root, "recv")
           /\ UNCHANGED <<closed_flag, parked_send, parked_recv, broken>>
  <2> DEFINE v == Head(buf)
  <2>1. /\ call'[Root] = S!root_ch_!Done("recv", v, "success") /\ DOMAIN call' = DOMAIN call
        /\ buf' = Tail(buf) /\ received' = Append(received, v)
    BY <1>4, <1>b DEF S!root_ch_!Take
  <2>2. /\ v \in Nat /\ buf' \in Seq(Nat) /\ IsInjective(buf')
        /\ ToSet(buf) = ToSet(buf') \cup {v} /\ v \notin ToSet(buf')
        /\ received' \in Seq(Nat) /\ ToSet(received') = ToSet(received) \cup {v}
    <3>1. buf \in Seq(Nat) /\ received \in Seq(Nat) /\ IsInjective(buf)
      BY <1>0 DEF ScopeTyped, Accounted
    <3>2. /\ v \in Nat /\ Tail(buf) \in Seq(Nat) /\ IsInjective(Tail(buf))
          /\ ToSet(buf) = ToSet(Tail(buf)) \cup {v} /\ v \notin ToSet(Tail(buf))
      BY <1>4, <3>1, QueueFacts, ElementFacts, DistinctFacts
    <3>3. Append(received, v) \in Seq(Nat) /\ ToSet(Append(received, v)) = ToSet(received) \cup {v}
      BY <3>1, <3>2, QueueFacts, ElementFacts
    <3> QED
      BY <2>1, <3>2, <3>3
  <2> HIDE DEF v
  <2>3. Held' = {v} /\ S!Received' = v
    BY <2>1 DEF Held, S!InHand, S!Received, S!root_ch_!Done
  <2>4. ScopeTyped'
    BY <1>0, <1>4, <1>a, <2>1, <2>2 DEF ScopeTyped
  <2>5. RootAt'
    BY <1>0, <1>4, <1>a, <1>b, <2>1, <2>3 DEF RootAt
  <2>6. Accounted'
    BY <1>0, <1>4, <1>a, <1>c, <2>2, <2>3 DEF Accounted
  <2> QED
    BY <1>1, <2>4, <2>5, <2>6 DEF ScopeInv
<1> QED
  BY <1>2, <1>3, <1>4, <1>a DEF S!root_ch_!Recv

\* It starts to join what it has received, or returns.
LEMMA RecvReturnsStep ==
  ASSUME ScopeInv, S!RecvReturns
  PROVE  ScopeInv'
<1>0. ScopeTyped /\ RootAt /\ Accounted /\ Answered
  BY DEF ScopeInv
<1>a. /\ root = "receiving" /\ call[Root].phase = "done"
      /\ UNCHANGED <<adopted, added, refused, joined, complete, owner>>
  BY DEF S!RecvReturns, S!adders
<1>1. CASE call[Root].result = "success" /\ root' = "joining" /\ UNCHANGED S!channel
  <2>0. UNCHANGED <<closed_flag, buf, parked_send, parked_recv, call, sends, received>>
    BY <1>1 DEF S!channel
  <2>1. call[Root] = S!root_ch_!Done("recv", S!Received, "success") /\ parked_recv = <<>>
    BY <1>0, <1>1, <1>a DEF RootAt, S!root_ch_!Idle, S!root_ch_!Blocked, S!root_ch_!Done
  <2>2. Held' = Held /\ S!Received' = S!Received
    BY <2>0 DEF Held, S!InHand, S!Received
  <2>3. ScopeTyped' /\ Accounted' /\ Answered'
    BY <1>0, <1>a, <2>0, <2>2 DEF ScopeTyped, Accounted, Answered
  <2>4. RootAt'
    BY <1>0, <1>1, <1>a, <2>0, <2>1, <2>2 DEF RootAt
  <2> QED
    BY <2>3, <2>4 DEF ScopeInv
<1>2. CASE call[Root].result = "closed" /\ S!root_ch_!Return(Root) /\ root' = "done"
  <2>0. /\ UNCHANGED <<closed_flag, buf, parked_send, parked_recv, sends, received>>
        /\ call' = [call EXCEPT ![Root] = S!root_ch_!Idle]
    BY <1>2 DEF S!root_ch_!Return
  <2>1. /\ call[Root] = S!root_ch_!Done("recv", 0, "closed") /\ parked_recv = <<>>
        /\ buf = <<>> /\ closed_flag
    BY <1>0, <1>2, <1>a DEF RootAt, S!root_ch_!Idle, S!root_ch_!Blocked, S!root_ch_!Done
  <2>2. call'[Root] = S!root_ch_!Idle /\ DOMAIN call' = DOMAIN call
    BY <1>0, <2>0 DEF ScopeTyped
  <2>3. Held' = {} /\ Held = {}
    BY <2>1, <2>2 DEF Held, S!InHand, S!root_ch_!Idle, S!root_ch_!Done
  <2>4. ScopeTyped' /\ Accounted' /\ Answered'
    BY <1>0, <1>a, <2>0, <2>2, <2>3 DEF ScopeTyped, Accounted, Answered
  <2>5. RootAt'
    BY <1>0, <1>2, <1>a, <2>0, <2>1, <2>2 DEF RootAt
  <2> QED
    BY <2>4, <2>5 DEF ScopeInv
<1> QED
  BY <1>1, <1>2 DEF S!RecvReturns

\* It has joined an awaitable.
LEMMA JoinedStep ==
  ASSUME ScopeInv, S!Joined
  PROVE  ScopeInv'
<1>0. ScopeTyped /\ RootAt /\ Accounted /\ Answered
  BY DEF ScopeInv
<1>a. /\ root = "joining" /\ root' = "receiving"
      /\ S!Received \in complete /\ joined' = joined \cup {S!Received}
      /\ UNCHANGED <<adopted, added, refused, complete, owner>>
      /\ UNCHANGED <<closed_flag, buf, parked_send, parked_recv, sends, received>>
      /\ call' = [call EXCEPT ![Root] = S!root_ch_!Idle]
  BY DEF S!Joined, S!adders, S!root_ch_!Return
<1>1. call[Root] = S!root_ch_!Done("recv", S!Received, "success") /\ parked_recv = <<>>
  BY <1>0, <1>a DEF RootAt
<1>2. call'[Root] = S!root_ch_!Idle /\ DOMAIN call' = DOMAIN call
  BY <1>0, <1>a DEF ScopeTyped
<1>3. Held' = {} /\ Held = {S!Received}
  <2>1. S!InHand
    BY <1>1 DEF S!InHand, S!root_ch_!Done
  <2>2. ~S!InHand'
    BY <1>2 DEF S!InHand, S!root_ch_!Idle
  <2> QED
    BY <2>1, <2>2 DEF Held
<1>4. ScopeTyped' /\ Answered'
  BY <1>0, <1>a, <1>2 DEF ScopeTyped, Answered
<1>5. Accounted'
  BY <1>0, <1>a, <1>3 DEF Accounted
<1>6. RootAt'
  BY <1>0, <1>a, <1>1, <1>2 DEF RootAt
<1> QED
  BY <1>4, <1>5, <1>6 DEF ScopeInv

\* The channel is closed, by await() or the destructor.
LEMMA CloseScopeStep ==
  ASSUME ScopeInv, S!await \/ S!DestroyBegin
  PROVE  ScopeInv'
<1>0. ScopeTyped /\ RootAt /\ Accounted /\ Answered
  BY DEF ScopeInv
<1>a. /\ S!CloseChannel /\ owner' # "none"
      /\ UNCHANGED <<adopted, added, refused, root, joined, complete>>
  BY DEF S!await, S!DestroyBegin, S!adders
<1>1. CASE closed_flag /\ UNCHANGED S!channel
  BY <1>0, <1>1, <1>a, ScopeSame DEF S!channel, Answered
<1>2. CASE ~closed_flag /\ S!root_ch_!Close(Owner)
  <2>1. /\ closed_flag' = TRUE /\ call' = S!root_ch_!CloseCalls
        /\ parked_send' = <<>> /\ parked_recv' = <<>>
        /\ UNCHANGED <<buf, sends, received>>
    BY <1>2 DEF S!root_ch_!Close
  <2>2. /\ DOMAIN call' = S!Adders \cup {Root}
        /\ Root \in ToSet(parked_recv) => call'[Root] = S!root_ch_!Done("recv", 0, "closed")
        /\ Root \notin ToSet(parked_recv) => call'[Root] = call[Root]
    <3>1. S!root_ch_!ToSet(parked_send) = {}
      BY <1>0 DEF ScopeTyped, S!root_ch_!ToSet
    <3>2. S!root_ch_!ToSet(parked_recv) = ToSet(parked_recv)
      BY DEF S!root_ch_!ToSet, ToSet
    <3> QED
      BY <2>1, <3>1, <3>2 DEF S!root_ch_!CloseCalls
  <2>3. ScopeTyped' /\ Answered'
    BY <1>0, <1>a, <2>1, <2>2 DEF ScopeTyped, Answered
  <2>4. CASE parked_recv = <<>>
    <3>1. call'[Root] = call[Root]
      BY <2>2, <2>4 DEF ToSet
    <3>2. Held' = Held /\ S!Received' = S!Received
      BY <3>1 DEF Held, S!InHand, S!Received
    <3>3. Accounted'
      BY <1>0, <1>a, <2>1, <3>2 DEF Accounted
    <3>4. RootAt'
      BY <1>0, <1>2, <1>a, <2>1, <2>4, <3>1, <3>2 DEF RootAt
    <3> QED
      BY <2>3, <3>3, <3>4 DEF ScopeInv
  <2>5. CASE parked_recv # <<>>
    <3>0. /\ parked_recv = <<Root>> /\ root = "receiving" /\ buf = <<>>
          /\ call[Root] = S!root_ch_!Blocked("recv", 0)
      BY <1>0, <2>5 DEF RootAt
    <3>1. call'[Root] = S!root_ch_!Done("recv", 0, "closed")
      BY <2>2, <3>0 DEF ToSet
    <3>2. Held' = {} /\ Held = {}
      BY <3>0, <3>1 DEF Held, S!InHand, S!root_ch_!Blocked, S!root_ch_!Done
    <3>3. Accounted'
      BY <1>0, <1>a, <2>1, <3>2 DEF Accounted
    <3>4. RootAt'
      BY <1>a, <2>1, <3>0, <3>1 DEF RootAt
    <3> QED
      BY <2>3, <3>3, <3>4 DEF ScopeInv
  <2> QED
    BY <2>4, <2>5
<1> QED
  BY <1>1, <1>2, <1>a DEF S!CloseChannel

\* The scope is constructed.
LEMMA ConstructStep ==
  ASSUME ScopeInv, NEW n, S!construct(n)
  PROVE  ScopeInv'
<1>0. ScopeTyped /\ RootAt /\ Accounted /\ Answered
  BY DEF ScopeInv
<1>a. /\ owner = "none" /\ owner' = "holds" /\ root' = "receiving"
      /\ UNCHANGED <<closed_flag, buf, parked_send, parked_recv, call, sends, received,
                     adopted, added, refused, joined, complete>>
  BY DEF S!construct, S!channel
<1>1. call[Root] = S!root_ch_!Idle /\ parked_recv = <<>>
  BY <1>0, <1>a DEF RootAt
<1>2. Held' = Held
  BY <1>a DEF Held, S!InHand, S!Received
<1>3. ScopeTyped' /\ Accounted' /\ Answered'
  BY <1>0, <1>a, <1>2 DEF ScopeTyped, Accounted, Answered
<1>4. RootAt'
  BY <1>a, <1>1 DEF RootAt
<1> QED
  BY <1>3, <1>4 DEF ScopeInv

\* The other steps of those who add, of the owner and of what was added.
LEMMA ScopeOtherSteps ==
  ASSUME ScopeInv,
         \/ \E a \in S!Adders : S!AddInCoroutine(a) \/ S!SendReturns(a) \/ \E n \in 1 .. 2 : S!add(a, n)
         \/ \E v \in S!Awaitables : S!Complete(v)
         \/ S!AwaitReturns \/ S!DestroyEnd \/ UNCHANGED scopeVars
  PROVE  ScopeInv'
<1>0. ScopeTyped /\ Answered
  BY DEF ScopeInv
<1>1. ASSUME NEW a \in S!Adders, NEW n, S!add(a, n) PROVE ScopeInv'
  <2>1. /\ UNCHANGED <<closed_flag, buf, parked_send, parked_recv, call, sends, received,
                       added, refused, root, joined, complete, owner>>
        /\ adopted' = [adopted EXCEPT ![a] = {}]
    BY <1>1 DEF S!add, S!channel
  <2>2. Answered' /\ DOMAIN adopted' = DOMAIN adopted
    BY <1>0, <2>1 DEF Answered, ScopeTyped
  <2> QED
    BY <2>1, <2>2, ScopeSame
<1>2. ASSUME NEW a \in S!Adders, S!SendReturns(a) PROVE ScopeInv'
  <2>1. /\ UNCHANGED <<closed_flag, buf, parked_send, parked_recv, sends, received,
                       adopted, refused, root, joined, complete, owner>>
        /\ call' = [call EXCEPT ![a] = S!root_ch_!Idle]
        /\ added' = added \/ added' = added \cup adopted[a]
    BY <1>2 DEF S!SendReturns, S!root_ch_!Return
  <2>2. a # Root /\ Root \in DOMAIN call
    BY <1>0, ScopeAssumption DEF ScopeTyped, S!Adders
  <2>3. Answered' /\ call'[Root] = call[Root] /\ DOMAIN call' = DOMAIN call
    BY <1>0, <2>1, <2>2 DEF Answered
  <2> QED
    BY <2>1, <2>3, ScopeSame
<1>3. ASSUME NEW a \in S!Adders, S!AddInCoroutine(a) PROVE ScopeInv'
  BY <1>0, <1>3, ScopeSame DEF S!AddInCoroutine, S!channel, S!adders, Answered
<1>4. ASSUME NEW v, S!Complete(v) PROVE ScopeInv'
  BY <1>0, <1>4, ScopeSame DEF S!Complete, S!channel, S!adders, Answered
<1>5. CASE S!AwaitReturns \/ S!DestroyEnd
  BY <1>0, <1>5, ScopeSame DEF S!AwaitReturns, S!DestroyEnd, S!channel, S!adders, Answered
<1>6. CASE UNCHANGED scopeVars
  BY <1>0, <1>6, ScopeSame DEF scopeVars, Answered
<1> QED
  BY <1>1, <1>2, <1>3, <1>4, <1>5, <1>6

LEMMA ScopeInvariant == ServicesSpec => []ScopeInv
<1>1. ServicesInit => ScopeInv
  BY ScopeInit DEF ServicesInit
<1>2. ScopeInv /\ [ServicesNext]_servicesVars => ScopeInv'
  <2> SUFFICES ASSUME ScopeInv, [ServicesNext]_servicesVars PROVE ScopeInv'
    OBVIOUS
  <2>1. CASE S!Next
    BY <2>1, AddStep, RecvStep, RecvReturnsStep, JoinedStep, CloseScopeStep, ConstructStep,
       ScopeOtherSteps DEF S!Next, S!AdderStep, S!RootStep, S!OwnerStep
  <2>2. CASE UNCHANGED scopeVars
    BY <2>2, ScopeOtherSteps
  <2> QED
    BY <2>1, <2>2 DEF ServicesNext, servicesVars
<1> QED
  BY <1>1, <1>2, PTL DEF ServicesSpec

\* An awaitable that the scope's open channel took is in one place, however adds,
\* the root awaiter and the closing of the channel interleave, and the await of the
\* scope ends after it is awaited. What an add() released to a channel that was
\* closed since its check is in nobody's hands.
THEOREM ScopeAwaitsAll == ServicesSpec => []TakenAreAwaited
<1>1. ScopeInv => TakenAreAwaited
  <2> SUFFICES ASSUME ScopeInv PROVE TakenAreAwaited
    OBVIOUS
  <2>0. ScopeTyped /\ RootAt /\ Accounted /\ Answered
    BY DEF ScopeInv
  <2>1. S!Range(received \o buf) = ToSet(received) \cup ToSet(buf) /\ S!Range(buf) = ToSet(buf)
    <3>1. ToSet(received \o buf) = ToSet(received) \cup ToSet(buf)
      BY <2>0, ConcatFacts DEF ScopeTyped
    <3> QED
      BY <3>1 DEF S!Range, ToSet
  <2>2. ASSUME NEW v \in (1 .. sends) \ refused
        PROVE  v \in joined <=> v \notin ToSet(buf) /\ (S!InHand => v # S!Received)
    BY <2>0 DEF Accounted, Held
  <2>3. root = "done" => closed_flag /\ (1 .. sends) \ refused \subseteq joined
    <3> SUFFICES ASSUME root = "done" PROVE closed_flag /\ (1 .. sends) \ refused \subseteq joined
      OBVIOUS
    <3>1. closed_flag /\ ToSet(buf) = {}
      BY <2>0 DEF RootAt, ToSet
    <3>2. Held = {}
      BY <2>0 DEF RootAt, Held, S!InHand, S!root_ch_!Idle
    <3> QED
      BY <2>0, <3>1, <3>2 DEF Accounted
  <2>4. joined \subseteq complete /\ (refused # {} => closed_flag) /\ refused \cap S!Range(received \o buf) = {}
    BY <2>0, <2>1 DEF Accounted
  <2> QED
    BY <2>1, <2>2, <2>3, <2>4 DEF TakenAreAwaited, S!TakenAreAwaited
<1> QED
  BY <1>1, ScopeInvariant, PTL
=============================================================================
