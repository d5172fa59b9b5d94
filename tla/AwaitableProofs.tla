--------------------------- MODULE AwaitableProofs ---------------------------
(***************************************************************************)
(* Theorems about module Awaitable, for any coroutines, threads and        *)
(* resumers.                                                               *)
(*                                                                         *)
(* That a resume() is not lost rests on the lock: whoever is about to      *)
(* suspend holds it (Locked), so a resumer that is inside (Positioned)     *)
(* finds the awaiter before it has asked or after it has suspended, and    *)
(* what it takes out of the awaitable is taken once (Suspended, Blocked).  *)
(* So an await is a OneShot: what a resumer still has to do refers to an   *)
(* awaiter that the contract lets go on.                                   *)
(***************************************************************************)
EXTENDS Awaitable, TLAPS

\* Who is about to suspend holds the lock, and the operation is not complete; an
\* await returns only when it is.
Locked ==
  \A a \in Awaiters :
    /\ pc[a] = "locked" => holder[LockOf(a)] = a /\ a \notin ready
    /\ pc[a] = "done" => a \in ready

\* An awaitable in a list of the channel is the channel's, and was not resumed.
Parked ==
  \A a \in parked :
    /\ family[a] = "shared" /\ a \notin ready
    /\ pc[a] \in {"locked", "suspended", "waiting", "woken"}

\* The handle of a suspended coroutine is in the awaitable or with one resumer.
Suspended ==
  /\ \A c \in handle_ : pc[c] = "suspended" /\ c \notin ready
  /\ \A c \in Coroutines : pc[c] = "suspended" =>
       c \in handle_ \/ \E r \in Resumers : at[r] = "scheduling" /\ target[r] = c

\* A blocked thread is in its awaitable, or its flag is set; the one that set the
\* flag of a sleeping thread has yet to notify it.
Blocked ==
  /\ \A t \in tt_ : pc[t] \in {"waiting", "woken"} /\ t \notin ready
  /\ \A t \in Threads :
       /\ pc[t] \in {"waiting", "woken"} => t \in tt_ \cup flag
       /\ pc[t] = "woken" /\ t \notin spurious => t \in flag
       /\ t \in flag /\ pc[t] = "waiting" =>
            \E r \in Resumers : at[r] = "notifying" /\ target[r] = t

Alone(r) == \A q \in Resumers : target[q] = target[r] /\ at[q] = at[r] => q = r

\* What a resumer holds, and what it may still touch.
Position(r) ==
  /\ at[r] = "idle" => target[r] = NULL /\ holder[Channel] # r
  /\ at[r] = "inside" /\ target[r] = NULL => holder[Channel] = r
  /\ at[r] = "inside" /\ target[r] # NULL =>
       /\ family[target[r]] = "own" /\ Lives(target[r])
       /\ holder[target[r]] = r /\ holder[Channel] # r /\ target[r] \notin ready
  /\ at[r] = "scheduling" =>
       /\ target[r] \in Coroutines /\ pc[target[r]] = "suspended"
       /\ target[r] \in ready \ handle_ /\ Alone(r)
  /\ at[r] = "notifying" =>
       /\ target[r] \in Threads
       /\ target[r] \notin spurious => pc[target[r]] = "waiting" /\ target[r] \in flag /\ Alone(r)

Positioned == \A r \in Resumers : Position(r)

\* The inductive invariant.
AwaitInv == AwaitableTyped /\ FlagIsFresh /\ Locked /\ Parked /\ Suspended /\ Blocked /\ Positioned

LEMMA AwaitInit == AwaitableInit => AwaitInv
<1> SUFFICES ASSUME AwaitableInit PROVE AwaitInv
  OBVIOUS
<1>1. AwaitableTyped
  BY DEF AwaitableInit, AwaitableTyped, Points
<1>2. FlagIsFresh /\ Parked /\ Suspended /\ Blocked
  BY DEF AwaitableInit, FlagIsFresh, Parked, Suspended, Blocked, Awaiters
<1>3. Locked
  BY DEF AwaitableInit, Locked
<1>4. Positioned
  BY AwaitersAssumption DEF AwaitableInit, Positioned, Position, Locks
<1> QED
  BY <1>1, <1>2, <1>3, <1>4 DEF AwaitInv

-----------------------------------------------------------------------------
(* Awaiters.                                                               *)

LEMMA ConstructStep ==
  ASSUME AwaitInv, NEW a \in Awaiters, NEW k \in {"own", "shared"}, Construct(a, k)
  PROVE  AwaitInv'
<1> USE DEF awaiting, blocked, resumer
<1>1. /\ pc[a] = "idle" /\ pc' = [pc EXCEPT ![a] = "holds"] /\ family' = [family EXCEPT ![a] = k]
      /\ ready' \in {ready \ {a}, ready \cup {a}}
      /\ UNCHANGED <<parked, blocked, spurious, holder, resumer>>
  BY DEF Construct
<1>2. AwaitableTyped'
  BY <1>1 DEF AwaitInv, AwaitableTyped, Points
<1>3. FlagIsFresh' /\ Parked' /\ Suspended' /\ Blocked'
  BY <1>1 DEF AwaitInv, AwaitableTyped, FlagIsFresh, Parked, Suspended, Blocked, Awaiters
<1>4. Locked'
  BY <1>1 DEF AwaitInv, AwaitableTyped, Locked, LockOf
<1>5. Positioned'
  BY <1>1, AwaitersAssumption DEF AwaitInv, AwaitableTyped, Positioned, Position, Lives, Alone, Awaiters
<1> QED
  BY <1>2, <1>3, <1>4, <1>5 DEF AwaitInv

LEMMA ReadyNowStep ==
  ASSUME AwaitInv, NEW a \in Awaiters, ReadyNow(a)
  PROVE  AwaitInv'
<1> USE DEF awaiting, blocked, resumer
<1>1. /\ pc[a] = "holds" /\ pc' = [pc EXCEPT ![a] = "done"]
      /\ ready' = ready \cup {a} /\ holder[LockOf(a)] = NULL
      /\ a \in ready \/ family[a] = "shared"
      /\ UNCHANGED <<family, parked, blocked, spurious, holder, resumer>>
  BY DEF ReadyNow, Free
<1>2. AwaitableTyped'
  BY <1>1 DEF AwaitInv, AwaitableTyped, Points
<1>3. FlagIsFresh' /\ Parked' /\ Suspended' /\ Blocked'
  BY <1>1 DEF AwaitInv, AwaitableTyped, FlagIsFresh, Parked, Suspended, Blocked, Awaiters
<1>4. Locked'
  BY <1>1 DEF AwaitInv, AwaitableTyped, Locked, LockOf
<1>5. Positioned'
  BY <1>1, AwaitersAssumption DEF AwaitInv, AwaitableTyped, Positioned, Position, Lives, Alone, Awaiters
<1> QED
  BY <1>2, <1>3, <1>4, <1>5 DEF AwaitInv

LEMMA NotReadyStep ==
  ASSUME AwaitInv, NEW a \in Awaiters, NotReady(a)
  PROVE  AwaitInv'
<1> USE DEF awaiting, blocked, resumer
<1>1. /\ pc[a] = "holds" /\ pc' = [pc EXCEPT ![a] = "locked"] /\ a \notin ready
      /\ holder[LockOf(a)] = NULL /\ holder' = [holder EXCEPT ![LockOf(a)] = a]
      /\ parked' = (IF family[a] = "shared" THEN parked \cup {a} ELSE parked)
      /\ UNCHANGED <<family, ready, blocked, spurious, resumer>>
  BY DEF NotReady, Free
<1>2. LockOf(a) \in Locks
  BY DEF LockOf, Locks
<1>3. AwaitableTyped'
  BY <1>1, <1>2 DEF AwaitInv, AwaitableTyped, Points
<1>4. FlagIsFresh' /\ Parked' /\ Suspended' /\ Blocked'
  BY <1>1 DEF AwaitInv, AwaitableTyped, FlagIsFresh, Parked, Suspended, Blocked, Awaiters
<1>5. Locked'
  BY <1>1, <1>2, AwaitersAssumption DEF AwaitInv, AwaitableTyped, Locked, LockOf, Locks
<1>6. Positioned'
  BY <1>1, <1>2, AwaitersAssumption
     DEF AwaitInv, AwaitableTyped, Positioned, Position, Lives, Alone, Awaiters, Locks, LockOf
<1> QED
  BY <1>3, <1>4, <1>5, <1>6 DEF AwaitInv

\* Who releases a lock it holds to leave or to sleep.
LEMMA ReleaseFrame ==
  ASSUME AwaitInv, NEW l \in Locks, holder[l] \notin Resumers,
         holder' = [holder EXCEPT ![l] = NULL], UNCHANGED resumer
  PROVE  /\ \A r \in Resumers : holder'[Channel] = r <=> holder[Channel] = r
         /\ \A r \in Resumers, a \in Awaiters : holder[a] = r => holder'[a] = r
BY AwaitersAssumption DEF AwaitInv, AwaitableTyped, Positioned, Position, Locks

LEMMA SuspendCoroutineStep ==
  ASSUME AwaitInv, NEW c \in Coroutines, SuspendCoroutine(c)
  PROVE  AwaitInv'
<1> USE DEF awaiting, resumer
<1>1. /\ pc[c] = "locked" /\ pc' = [pc EXCEPT ![c] = "suspended"]
      /\ handle_' = handle_ \cup {c}
      /\ holder' = [holder EXCEPT ![LockOf(c)] = NULL]
      /\ UNCHANGED <<family, ready, parked, tt_, flag, spurious, at, target>>
  BY DEF SuspendCoroutine
<1>2. /\ LockOf(c) \in Locks /\ holder[LockOf(c)] = c /\ c \notin ready /\ c \in Awaiters
      /\ c \notin Threads
  BY <1>1, AwaitersAssumption DEF LockOf, Locks, AwaitInv, Locked, Awaiters
<1>3. AwaitableTyped'
  BY <1>1, <1>2 DEF AwaitInv, AwaitableTyped, Points
<1>4. FlagIsFresh' /\ Parked' /\ Suspended' /\ Blocked'
  BY <1>1, <1>2 DEF AwaitInv, AwaitableTyped, FlagIsFresh, Parked, Suspended, Blocked, Awaiters
<1>5. Locked'
  BY <1>1, <1>2, AwaitersAssumption DEF AwaitInv, AwaitableTyped, Locked, LockOf, Locks
<1>6. Positioned'
  BY <1>1, <1>2, ReleaseFrame, AwaitersAssumption
     DEF AwaitInv, AwaitableTyped, Positioned, Position, Lives, Alone, Awaiters
<1> QED
  BY <1>3, <1>4, <1>5, <1>6 DEF AwaitInv

\* A thread that has the lock returns if its flag is set, else it sleeps.
LEMMA BlockThreadStep ==
  ASSUME AwaitInv, NEW t \in Threads, BlockThread(t)
  PROVE  AwaitInv'
<1> USE DEF awaiting, resumer
<1>1. pc[t] = "locked" /\ t \notin flag
  BY DEF BlockThread, AwaitInv, FlagIsFresh
<1>2. /\ pc' = [pc EXCEPT ![t] = "waiting"]
      /\ tt_' = tt_ \cup {t} /\ holder' = [holder EXCEPT ![LockOf(t)] = NULL]
      /\ UNCHANGED <<family, ready, parked, handle_, flag, spurious, at, target>>
  BY <1>1 DEF BlockThread, WaitOnCv
<1>3. /\ LockOf(t) \in Locks /\ holder[LockOf(t)] = t /\ t \notin ready /\ t \in Awaiters
      /\ t \notin Coroutines
  BY <1>1, AwaitersAssumption DEF LockOf, Locks, AwaitInv, Locked, Awaiters
<1>4. AwaitableTyped'
  BY <1>1, <1>2, <1>3 DEF AwaitInv, AwaitableTyped, Points
<1>5. FlagIsFresh' /\ Parked' /\ Suspended' /\ Blocked'
  BY <1>1, <1>2, <1>3 DEF AwaitInv, AwaitableTyped, FlagIsFresh, Parked, Suspended, Blocked, Awaiters
<1>6. Locked'
  BY <1>1, <1>2, <1>3, AwaitersAssumption DEF AwaitInv, AwaitableTyped, Locked, LockOf, Locks
<1>7. Positioned'
  BY <1>1, <1>2, <1>3, ReleaseFrame, AwaitersAssumption
     DEF AwaitInv, AwaitableTyped, Positioned, Position, Lives, Alone, Awaiters
<1> QED
  BY <1>4, <1>5, <1>6, <1>7 DEF AwaitInv

LEMMA RelockStep ==
  ASSUME AwaitInv, NEW t \in Threads, Relock(t)
  PROVE  AwaitInv'
<1> USE DEF awaiting, resumer
<1>1. /\ pc[t] = "woken" /\ LockOf(t) \in Locks /\ holder[LockOf(t)] = NULL /\ t \in Awaiters
      /\ t \notin Coroutines
      /\ holder' = [holder EXCEPT ![LockOf(t)] = NULL]
      /\ UNCHANGED <<family, ready, parked, handle_, tt_, spurious, at, target>>
  BY AwaitersAssumption DEF Relock, Free, LeaveBlock, WaitOnCv, LockOf, Locks, Awaiters
<1>2. holder' = holder
  BY <1>1 DEF AwaitInv, AwaitableTyped
<1>3. CASE t \in flag /\ flag' = flag \ {t} /\ pc' = [pc EXCEPT ![t] = "done"]
  <2>1. AwaitableTyped'
    BY <1>1, <1>2, <1>3 DEF AwaitInv, AwaitableTyped, Points
  <2>2. FlagIsFresh' /\ Parked' /\ Suspended' /\ Blocked'
    BY <1>1, <1>3 DEF AwaitInv, AwaitableTyped, FlagIsFresh, Parked, Suspended, Blocked, Awaiters
  <2>3. Locked'
    BY <1>1, <1>2, <1>3 DEF AwaitInv, AwaitableTyped, FlagIsFresh, Locked, LockOf
  <2>4. Positioned'
    BY <1>1, <1>2, <1>3
       DEF AwaitInv, AwaitableTyped, Positioned, Position, Lives, Alone, Awaiters
  <2> QED
    BY <2>1, <2>2, <2>3, <2>4 DEF AwaitInv
<1>4. CASE t \notin flag /\ flag' = flag /\ pc' = [pc EXCEPT ![t] = "waiting"]
  <2>1. AwaitableTyped'
    BY <1>1, <1>2, <1>4 DEF AwaitInv, AwaitableTyped, Points
  <2>2. FlagIsFresh' /\ Parked' /\ Suspended' /\ Blocked'
    BY <1>1, <1>4 DEF AwaitInv, AwaitableTyped, FlagIsFresh, Parked, Suspended, Blocked, Awaiters
  <2>3. Locked'
    BY <1>1, <1>2, <1>4 DEF AwaitInv, AwaitableTyped, Locked, LockOf
  <2>4. Positioned'
    BY <1>1, <1>2, <1>4
       DEF AwaitInv, AwaitableTyped, Positioned, Position, Lives, Alone, Awaiters
  <2> QED
    BY <2>1, <2>2, <2>3, <2>4 DEF AwaitInv
<1> QED
  BY <1>3, <1>4 DEF Relock, LeaveBlock, WaitOnCv

LEMMA SpuriousWakeupStep ==
  ASSUME AwaitInv, NEW t \in Threads, SpuriousWakeup(t)
  PROVE  AwaitInv'
<1> USE DEF awaiting, blocked, resumer
<1>1. /\ pc[t] = "waiting" /\ pc' = [pc EXCEPT ![t] = "woken"] /\ spurious' = spurious \cup {t}
      /\ t \in Awaiters /\ t \notin Coroutines
      /\ UNCHANGED <<family, ready, parked, handle_, tt_, flag, holder, at, target>>
  BY AwaitersAssumption DEF SpuriousWakeup, Awaiters
<1>2. AwaitableTyped'
  BY <1>1 DEF AwaitInv, AwaitableTyped, Points
<1>3. FlagIsFresh' /\ Parked' /\ Suspended' /\ Blocked'
  BY <1>1 DEF AwaitInv, AwaitableTyped, FlagIsFresh, Parked, Suspended, Blocked, Awaiters
<1>4. Locked'
  BY <1>1 DEF AwaitInv, AwaitableTyped, Locked, LockOf
<1>5. Positioned'
  BY <1>1 DEF AwaitInv, AwaitableTyped, Positioned, Position, Lives, Alone, Awaiters
<1> QED
  BY <1>2, <1>3, <1>4, <1>5 DEF AwaitInv

LEMMA DestroyStep ==
  ASSUME AwaitInv, NEW a \in Awaiters, Destroy(a)
  PROVE  AwaitInv'
<1> USE DEF awaiting, blocked, resumer
<1>1. /\ pc[a] = "done" /\ pc' = [pc EXCEPT ![a] = "idle"] /\ a \in ready
      /\ UNCHANGED <<family, ready, parked, handle_, tt_, flag, spurious, holder, at, target>>
  BY DEF Destroy, AwaitInv, Locked
<1>2. AwaitableTyped'
  BY <1>1 DEF AwaitInv, AwaitableTyped, Points
<1>3. FlagIsFresh' /\ Parked' /\ Suspended' /\ Blocked'
  BY <1>1 DEF AwaitInv, AwaitableTyped, FlagIsFresh, Parked, Suspended, Blocked, Awaiters
<1>4. Locked'
  BY <1>1 DEF AwaitInv, AwaitableTyped, Locked, LockOf
<1>5. Positioned'
  BY <1>1 DEF AwaitInv, AwaitableTyped, Positioned, Position, Lives, Alone, Awaiters
<1> QED
  BY <1>2, <1>3, <1>4, <1>5 DEF AwaitInv

LEMMA ExitStep ==
  ASSUME AwaitInv, NEW t \in Threads, Exit(t)
  PROVE  AwaitInv'
<1> USE DEF awaiting, blocked, resumer
<1>1. /\ pc[t] = "idle" /\ pc' = [pc EXCEPT ![t] = "gone"] /\ t \in Awaiters
      /\ t \notin Coroutines
      /\ UNCHANGED <<family, ready, parked, handle_, tt_, flag, spurious, holder, at, target>>
  BY AwaitersAssumption DEF Exit, Awaiters
<1>2. AwaitableTyped'
  BY <1>1 DEF AwaitInv, AwaitableTyped, Points
<1>3. FlagIsFresh' /\ Parked' /\ Suspended' /\ Blocked'
  BY <1>1 DEF AwaitInv, AwaitableTyped, FlagIsFresh, Parked, Suspended, Blocked, Awaiters
<1>4. Locked'
  BY <1>1 DEF AwaitInv, AwaitableTyped, Locked, LockOf
<1>5. Positioned'
  BY <1>1 DEF AwaitInv, AwaitableTyped, Positioned, Position, Lives, Alone, Awaiters
<1> QED
  BY <1>2, <1>3, <1>4, <1>5 DEF AwaitInv

-----------------------------------------------------------------------------
(* Resumers.                                                               *)

LEMMA LockOwnStep ==
  ASSUME AwaitInv, NEW r \in Resumers, NEW a \in Awaiters, LockOwn(r, a)
  PROVE  AwaitInv'
<1> USE DEF awaiting, blocked, resumer
<1>1. /\ at[r] = "idle" /\ family[a] = "own" /\ Lives(a) /\ a \notin ready /\ holder[a] = NULL
      /\ holder' = [holder EXCEPT ![a] = r] /\ at' = [at EXCEPT ![r] = "inside"]
      /\ target' = [target EXCEPT ![r] = a]
      /\ UNCHANGED <<pc, family, ready, parked, handle_, tt_, flag, spurious>>
  BY DEF LockOwn, Free
<1>2. a \in Locks /\ a # Channel /\ a # NULL /\ r \notin Awaiters
  BY AwaitersAssumption DEF Locks
<1>3. AwaitableTyped'
  BY <1>1, <1>2 DEF AwaitInv, AwaitableTyped
<1>4. FlagIsFresh' /\ Parked' /\ Suspended' /\ Blocked'
  BY <1>1 DEF AwaitInv, AwaitableTyped, FlagIsFresh, Parked, Suspended, Blocked
<1>5. Locked'
  BY <1>1, <1>2, AwaitersAssumption DEF AwaitInv, AwaitableTyped, Locked, LockOf, Locks
<1>6. Positioned'
  BY <1>1, <1>2, AwaitersAssumption
     DEF AwaitInv, AwaitableTyped, Positioned, Position, Lives, Alone, Locks
<1> QED
  BY <1>3, <1>4, <1>5, <1>6 DEF AwaitInv

LEMMA LockChannelStep ==
  ASSUME AwaitInv, NEW r \in Resumers, LockChannel(r)
  PROVE  AwaitInv'
<1> USE DEF awaiting, blocked, resumer
<1>1. /\ at[r] = "idle" /\ holder[Channel] = NULL
      /\ holder' = [holder EXCEPT ![Channel] = r] /\ at' = [at EXCEPT ![r] = "inside"]
      /\ UNCHANGED <<pc, family, ready, parked, handle_, tt_, flag, spurious, target>>
      /\ Channel \in Locks
  BY DEF LockChannel, Free, Locks
<1>2. AwaitableTyped'
  BY <1>1 DEF AwaitInv, AwaitableTyped
<1>3. FlagIsFresh' /\ Parked' /\ Suspended' /\ Blocked'
  BY <1>1 DEF AwaitInv, AwaitableTyped, FlagIsFresh, Parked, Suspended, Blocked
<1>4. Locked'
  BY <1>1, AwaitersAssumption DEF AwaitInv, AwaitableTyped, Locked, LockOf, Locks
<1>5. Positioned'
  BY <1>1, AwaitersAssumption
     DEF AwaitInv, AwaitableTyped, Positioned, Position, Lives, Alone, Locks
<1> QED
  BY <1>2, <1>3, <1>4, <1>5 DEF AwaitInv

LEMMA UnlockChannelStep ==
  ASSUME AwaitInv, NEW r \in Resumers, UnlockChannel(r)
  PROVE  AwaitInv'
<1> USE DEF awaiting, blocked, resumer
<1>1. /\ at[r] = "inside" /\ holder[Channel] = r
      /\ holder' = [holder EXCEPT ![Channel] = NULL] /\ at' = [at EXCEPT ![r] = "idle"]
      /\ UNCHANGED <<pc, family, ready, parked, handle_, tt_, flag, spurious, target>>
      /\ Channel \in Locks
  BY DEF UnlockChannel, Locks
<1>2. AwaitableTyped'
  BY <1>1 DEF AwaitInv, AwaitableTyped
<1>3. FlagIsFresh' /\ Parked' /\ Suspended' /\ Blocked'
  BY <1>1 DEF AwaitInv, AwaitableTyped, FlagIsFresh, Parked, Suspended, Blocked
<1>4. Locked'
  BY <1>1, AwaitersAssumption DEF AwaitInv, AwaitableTyped, Locked, LockOf, Locks
<1>5. Positioned'
  BY <1>1, AwaitersAssumption
     DEF AwaitInv, AwaitableTyped, Positioned, Position, Lives, Alone, Locks
<1> QED
  BY <1>2, <1>3, <1>4, <1>5 DEF AwaitInv

\* What a resumer that is inside finds: nobody is about to suspend on it.
LEMMA OnResumeFacts ==
  ASSUME AwaitInv, NEW r \in Resumers, NEW a \in Awaiters, OnResume(r, a)
  PROVE  /\ at[r] = "inside" /\ a \notin ready /\ Lives(a) /\ pc[a] # "locked"
         /\ ready' = ready \cup {a} /\ parked' = parked \ {a} /\ family' = family
         /\ \/ family[a] = "own" /\ target[r] = a /\ holder[a] = r
            \/ family[a] = "shared" /\ target[r] = NULL /\ holder[Channel] = r
                 /\ pc[a] \in {"suspended", "waiting", "woken"}
<1>1. /\ at[r] = "inside" /\ ready' = ready \cup {a} /\ parked' = parked \ {a} /\ family' = family
      /\ IF family[a] = "own" THEN target[r] = a ELSE holder[Channel] = r /\ a \in parked
  BY DEF OnResume
<1>2. family[a] \in {"own", "shared"} /\ a # NULL /\ a \in Locks /\ r \notin Awaiters
  BY AwaitersAssumption DEF AwaitInv, AwaitableTyped, Locks
<1>3. CASE family[a] = "own"
  <2>1. target[r] = a /\ holder[a] = r /\ Lives(a) /\ a \notin ready
    BY <1>1, <1>2, <1>3 DEF AwaitInv, Positioned, Position
  <2>2. pc[a] # "locked"
    BY <1>2, <1>3, <2>1 DEF AwaitInv, Locked, LockOf
  <2> QED
    BY <1>1, <1>3, <2>1, <2>2
<1>4. CASE family[a] = "shared"
  <2>1. holder[Channel] = r /\ a \in parked /\ a \notin ready
        /\ pc[a] \in {"locked", "suspended", "waiting", "woken"}
    BY <1>1, <1>4 DEF AwaitInv, Parked
  <2>2. pc[a] # "locked"
    BY <1>2, <1>4, <2>1 DEF AwaitInv, Locked, LockOf
  <2>3. target[r] = NULL
    <3>1. SUFFICES ASSUME target[r] # NULL PROVE FALSE
      OBVIOUS
    <3> QED
      BY <1>1, <2>1, <3>1 DEF AwaitInv, Positioned, Position
  <2> QED
    BY <1>1, <1>4, <2>1, <2>2, <2>3 DEF Lives
<1> QED
  BY <1>2, <1>3, <1>4

LEMMA ResumeHandleStep ==
  ASSUME AwaitInv, NEW r \in Resumers, NEW a \in Awaiters, ResumeHandle(r, a)
  PROVE  AwaitInv'
<1> USE DEF awaiting, blocked, resumer
<1>1. /\ at[r] = "inside" /\ a \notin ready /\ Lives(a) /\ pc[a] # "locked"
      /\ ready' = ready \cup {a} /\ parked' = parked \ {a} /\ family' = family
      /\ \/ family[a] = "own" /\ target[r] = a /\ holder[a] = r
         \/ family[a] = "shared" /\ target[r] = NULL /\ holder[Channel] = r
              /\ pc[a] \in {"suspended", "waiting", "woken"}
  BY OnResumeFacts DEF ResumeHandle
<1>2. /\ a \in handle_ /\ handle_' = handle_ \ {a}
      /\ holder' = (IF family[a] = "own" THEN [holder EXCEPT ![a] = NULL] ELSE holder)
      /\ at' = [at EXCEPT ![r] = "scheduling"] /\ target' = [target EXCEPT ![r] = a]
      /\ UNCHANGED <<pc, tt_, flag, spurious>>
  BY DEF ResumeHandle, Release
<1>3. /\ a \in Coroutines /\ pc[a] = "suspended" /\ a \notin Threads /\ a \in Locks
      /\ a # Channel /\ a # NULL /\ r \notin Awaiters /\ r # NULL
  BY <1>2, AwaitersAssumption DEF AwaitInv, AwaitableTyped, Suspended, Locks
<1>4. AwaitableTyped'
  BY <1>1, <1>2, <1>3 DEF AwaitInv, AwaitableTyped
<1>5. FlagIsFresh' /\ Parked' /\ Suspended' /\ Blocked'
  BY <1>1, <1>2, <1>3 DEF AwaitInv, AwaitableTyped, FlagIsFresh, Parked, Suspended, Blocked
<1>6. Locked'
  BY <1>1, <1>2, <1>3, AwaitersAssumption DEF AwaitInv, AwaitableTyped, Locked, LockOf, Locks
<1>7. Positioned'
  <2>1. \A q \in Resumers : q # r => target[q] # a
    BY <1>1, <1>2, <1>3 DEF AwaitInv, AwaitableTyped, Positioned, Position
  <2>2. Position(r)'
    BY <1>1, <1>2, <1>3, <2>1 DEF AwaitInv, AwaitableTyped, Position, Alone
  <2>3. ASSUME NEW q \in Resumers, q # r
        PROVE  Position(q)'
    BY <1>1, <1>2, <1>3, <2>1, <2>3
       DEF AwaitInv, AwaitableTyped, Positioned, Position, Lives, Alone, Locks
  <2> QED
    BY <2>2, <2>3 DEF Positioned
<1> QED
  BY <1>4, <1>5, <1>6, <1>7 DEF AwaitInv

LEMMA ResumeBlockedStep ==
  ASSUME AwaitInv, NEW r \in Resumers, NEW a \in Awaiters, ResumeBlocked(r, a)
  PROVE  AwaitInv'
<1> USE DEF awaiting, blocked, resumer
<1>1. /\ at[r] = "inside" /\ a \notin ready /\ Lives(a) /\ pc[a] # "locked"
      /\ ready' = ready \cup {a} /\ parked' = parked \ {a} /\ family' = family
      /\ \/ family[a] = "own" /\ target[r] = a /\ holder[a] = r
         \/ family[a] = "shared" /\ target[r] = NULL /\ holder[Channel] = r
              /\ pc[a] \in {"suspended", "waiting", "woken"}
  BY OnResumeFacts DEF ResumeBlocked
<1>2. /\ a \in tt_ /\ tt_' = tt_ \ {a} /\ flag' = flag \cup {a}
      /\ holder' = (IF family[a] = "own" THEN [holder EXCEPT ![a] = NULL] ELSE holder)
      /\ at' = [at EXCEPT ![r] = "notifying"] /\ target' = [target EXCEPT ![r] = a]
      /\ UNCHANGED <<pc, handle_, spurious>>
  BY DEF ResumeBlocked, Release
<1>3. /\ a \in Threads /\ pc[a] \in {"waiting", "woken"} /\ a \notin Coroutines /\ a \in Locks
      /\ a # Channel /\ a # NULL /\ r \notin Awaiters /\ r # NULL /\ a \notin flag
      /\ a \notin spurious => pc[a] = "waiting"
  BY <1>2, AwaitersAssumption DEF AwaitInv, AwaitableTyped, Blocked, FlagIsFresh, Locks
<1>4. AwaitableTyped'
  BY <1>1, <1>2, <1>3 DEF AwaitInv, AwaitableTyped
<1>5. FlagIsFresh' /\ Parked' /\ Suspended' /\ Blocked'
  BY <1>1, <1>2, <1>3 DEF AwaitInv, AwaitableTyped, FlagIsFresh, Parked, Suspended, Blocked
<1>6. Locked'
  BY <1>1, <1>2, <1>3, AwaitersAssumption DEF AwaitInv, AwaitableTyped, Locked, LockOf, Locks
<1>7. Positioned'
  <2>1. \A q \in Resumers : q # r /\ target[q] = a => at[q] = "notifying" /\ a \in spurious
    BY <1>1, <1>2, <1>3 DEF AwaitInv, AwaitableTyped, Positioned, Position
  <2>2. Position(r)'
    BY <1>1, <1>2, <1>3, <2>1 DEF AwaitInv, AwaitableTyped, Position, Alone
  <2>3. ASSUME NEW q \in Resumers, q # r
        PROVE  Position(q)'
    BY <1>1, <1>2, <1>3, <2>1, <2>3
       DEF AwaitInv, AwaitableTyped, Positioned, Position, Lives, Alone, Locks
  <2> QED
    BY <2>2, <2>3 DEF Positioned
<1> QED
  BY <1>4, <1>5, <1>6, <1>7 DEF AwaitInv

LEMMA ResumeEarlyStep ==
  ASSUME AwaitInv, NEW r \in Resumers, NEW a \in Awaiters, ResumeEarly(r, a)
  PROVE  AwaitInv'
<1> USE DEF awaiting, blocked, resumer
<1>1. /\ at[r] = "inside" /\ a \notin ready /\ Lives(a) /\ pc[a] # "locked"
      /\ ready' = ready \cup {a} /\ parked' = parked \ {a} /\ family' = family
      /\ \/ family[a] = "own" /\ target[r] = a /\ holder[a] = r
         \/ family[a] = "shared" /\ target[r] = NULL /\ holder[Channel] = r
              /\ pc[a] \in {"suspended", "waiting", "woken"}
  BY OnResumeFacts DEF ResumeEarly
<1>2. /\ a \notin handle_ \cup tt_
      /\ holder' = (IF family[a] = "own" THEN [holder EXCEPT ![a] = NULL] ELSE holder)
      /\ at' = [at EXCEPT ![r] = IF family[a] = "own" THEN "idle" ELSE "inside"]
      /\ target' = [target EXCEPT ![r] = NULL]
      /\ UNCHANGED <<pc, handle_, tt_, flag, spurious>>
  BY DEF ResumeEarly, Release
<1>3. pc[a] \notin {"suspended", "waiting", "woken"} /\ a \notin flag
  BY <1>1, <1>2 DEF AwaitInv, AwaitableTyped, Suspended, Blocked, FlagIsFresh, Positioned, Position, Awaiters
<1>4. family[a] = "own" /\ target[r] = a /\ holder[a] = r
  BY <1>1, <1>3
<1>5. /\ a \in Locks /\ a # Channel /\ a # NULL /\ r \notin Awaiters /\ r # NULL
  BY AwaitersAssumption DEF Locks
<1>6. AwaitableTyped'
  BY <1>1, <1>2, <1>5 DEF AwaitInv, AwaitableTyped
<1>7. FlagIsFresh' /\ Parked' /\ Suspended' /\ Blocked'
  BY <1>1, <1>2, <1>3, <1>5 DEF AwaitInv, AwaitableTyped, FlagIsFresh, Parked, Suspended, Blocked
<1>8. Locked'
  BY <1>1, <1>2, <1>5, AwaitersAssumption DEF AwaitInv, AwaitableTyped, Locked, LockOf, Locks
<1>9. Positioned'
  <2>1. Position(r)'
    BY <1>1, <1>2, <1>4, <1>5 DEF AwaitInv, AwaitableTyped, Positioned, Position
  <2>2. ASSUME NEW q \in Resumers, q # r
        PROVE  Position(q)'
    BY <1>1, <1>2, <1>3, <1>4, <1>5, <2>2
       DEF AwaitInv, AwaitableTyped, Positioned, Position, Lives, Alone, Locks
  <2> QED
    BY <2>1, <2>2 DEF Positioned
<1> QED
  BY <1>6, <1>7, <1>8, <1>9 DEF AwaitInv

LEMMA DestinationStep ==
  ASSUME AwaitInv, NEW r \in Resumers, to_destination(r)
  PROVE  AwaitInv'
<1> USE DEF awaiting, blocked, resumer
<1> DEFINE c == target[r]
<1>1. /\ at[r] = "scheduling" /\ pc' = [pc EXCEPT ![c] = "done"]
      /\ at' = [at EXCEPT ![r] = IF holder[Channel] = r THEN "inside" ELSE "idle"]
      /\ target' = [target EXCEPT ![r] = NULL]
      /\ UNCHANGED <<family, ready, parked, handle_, tt_, flag, spurious, holder>>
  BY DEF to_destination, Returns
<1>2. /\ c \in Coroutines /\ pc[c] = "suspended" /\ c \in ready \ handle_ /\ Alone(r)
      /\ c \in Awaiters /\ c \notin Threads /\ c # NULL
  BY <1>1, AwaitersAssumption DEF AwaitInv, Positioned, Position, Awaiters
<1>3. \A q \in Resumers : q # r => target[q] # c
  BY <1>1, <1>2 DEF AwaitInv, AwaitableTyped, Positioned, Position, Alone
<1> HIDE DEF c
<1>4. AwaitableTyped'
  BY <1>1, <1>2 DEF AwaitInv, AwaitableTyped, Points
<1>5. FlagIsFresh' /\ Parked' /\ Blocked'
  BY <1>1, <1>2 DEF AwaitInv, AwaitableTyped, FlagIsFresh, Parked, Blocked, Awaiters
<1>6. Suspended'
  <2>1. ASSUME NEW d \in Coroutines, pc'[d] = "suspended", d \notin handle_
        PROVE  \E q \in Resumers : at'[q] = "scheduling" /\ target'[q] = d
    <3>1. d # c /\ pc[d] = "suspended"
      BY <1>1, <1>2, <2>1 DEF AwaitInv, AwaitableTyped, Awaiters
    <3>2. PICK q \in Resumers : at[q] = "scheduling" /\ target[q] = d
      BY <2>1, <3>1 DEF AwaitInv, Suspended
    <3>3. q # r
      BY <3>1, <3>2 DEF c
    <3> QED
      BY <1>1, <3>2, <3>3 DEF AwaitInv, AwaitableTyped
  <2> QED
    BY <1>1, <1>2, <2>1 DEF AwaitInv, AwaitableTyped, Suspended, Awaiters
<1>7. Locked'
  BY <1>1, <1>2 DEF AwaitInv, AwaitableTyped, Locked, LockOf
<1>8. Positioned'
  <2>1. Position(r)'
    BY <1>1, <1>2 DEF AwaitInv, AwaitableTyped, Positioned, Position
  <2>2. ASSUME NEW q \in Resumers, q # r
        PROVE  Position(q)'
    BY <1>1, <1>2, <1>3, <2>2
       DEF AwaitInv, AwaitableTyped, Positioned, Position, Lives, Alone, Awaiters
  <2> QED
    BY <2>1, <2>2 DEF Positioned
<1> QED
  BY <1>4, <1>5, <1>6, <1>7, <1>8 DEF AwaitInv

LEMMA NotifyStep ==
  ASSUME AwaitInv, NEW r \in Resumers, NotifyOne(r)
  PROVE  AwaitInv'
<1> USE DEF awaiting, blocked, resumer
<1> DEFINE t == target[r]
<1>1. /\ at[r] = "notifying"
      /\ pc' = [pc EXCEPT ![t] = IF pc[t] = "waiting" THEN "woken" ELSE @]
      /\ at' = [at EXCEPT ![r] = IF holder[Channel] = r THEN "inside" ELSE "idle"]
      /\ target' = [target EXCEPT ![r] = NULL]
      /\ UNCHANGED <<family, ready, parked, handle_, tt_, flag, spurious, holder>>
  BY DEF NotifyOne, Returns
<1>2. /\ t \in Threads /\ t \in Awaiters /\ t \notin Coroutines /\ t # NULL
      /\ t \notin spurious => pc[t] = "waiting" /\ t \in flag
  BY <1>1, AwaitersAssumption DEF AwaitInv, Positioned, Position, Awaiters
<1>3. \A q \in Resumers : q # r /\ target[q] = t =>
        at[q] = "inside" \/ (at[q] = "notifying" /\ t \in spurious)
  BY <1>1, <1>2 DEF AwaitInv, AwaitableTyped, Positioned, Position, Alone
<1> HIDE DEF t
<1>4. AwaitableTyped'
  BY <1>1, <1>2 DEF AwaitInv, AwaitableTyped, Points
<1>5. FlagIsFresh' /\ Parked' /\ Suspended'
  BY <1>1, <1>2 DEF AwaitInv, AwaitableTyped, FlagIsFresh, Parked, Suspended, Awaiters, t
<1>6. Blocked'
  <2>1. ASSUME NEW u \in Threads, u \in flag, pc'[u] = "waiting"
        PROVE  \E q \in Resumers : at'[q] = "notifying" /\ target'[q] = u
    <3>1. u # t /\ pc[u] = "waiting"
      BY <1>1, <1>2, <2>1 DEF AwaitInv, AwaitableTyped, Awaiters
    <3>2. PICK q \in Resumers : at[q] = "notifying" /\ target[q] = u
      BY <2>1, <3>1 DEF AwaitInv, Blocked
    <3>3. q # r
      BY <3>1, <3>2 DEF t
    <3> QED
      BY <1>1, <3>2, <3>3 DEF AwaitInv, AwaitableTyped
  <2> QED
    BY <1>1, <1>2, <2>1 DEF AwaitInv, AwaitableTyped, Blocked, Awaiters
<1>7. Locked'
  BY <1>1, <1>2 DEF AwaitInv, AwaitableTyped, Locked, LockOf
<1>8. Positioned'
  <2>1. Position(r)'
    BY <1>1, <1>2 DEF AwaitInv, AwaitableTyped, Positioned, Position
  <2>2. ASSUME NEW q \in Resumers, q # r
        PROVE  Position(q)'
    BY <1>1, <1>2, <1>3, <2>2
       DEF AwaitInv, AwaitableTyped, Positioned, Position, Lives, Alone, Awaiters
  <2> QED
    BY <2>1, <2>2 DEF Positioned
<1> QED
  BY <1>4, <1>5, <1>6, <1>7, <1>8 DEF AwaitInv

-----------------------------------------------------------------------------
(* Theorems.                                                               *)

LEMMA AwaitFrame ==
  ASSUME AwaitInv, UNCHANGED awaitableVars
  PROVE  AwaitInv'
<1> USE DEF awaitableVars, awaiting, blocked, resumer
<1>1. AwaitableTyped' /\ FlagIsFresh' /\ Parked' /\ Suspended' /\ Blocked'
  BY DEF AwaitInv, AwaitableTyped, FlagIsFresh, Parked, Suspended, Blocked
<1>2. Locked' /\ Positioned'
  BY DEF AwaitInv, Locked, LockOf, Positioned, Position, Lives, Alone
<1> QED
  BY <1>1, <1>2 DEF AwaitInv

LEMMA AwaitInvariant == FairSpec => []AwaitInv
<1>1. AwaitInv /\ [AwaitableNext]_awaitableVars => AwaitInv'
  <2> SUFFICES ASSUME AwaitInv, [AwaitableNext]_awaitableVars PROVE AwaitInv'
    OBVIOUS
  <2>1. ASSUME NEW a \in Awaiters, NEW k \in {"own", "shared"}, Construct(a, k)
        PROVE  AwaitInv'
    BY <2>1, ConstructStep
  <2>2. ASSUME NEW a \in Awaiters, await_ready(a) \/ Suspend(a) \/ Destroy(a)
        PROVE  AwaitInv'
    BY <2>2, ReadyNowStep, NotReadyStep, SuspendCoroutineStep, BlockThreadStep, DestroyStep
       DEF await_ready, Suspend
  <2>3. ASSUME NEW t \in Threads, Relock(t) \/ SpuriousWakeup(t) \/ Exit(t)
        PROVE  AwaitInv'
    BY <2>3, RelockStep, SpuriousWakeupStep, ExitStep
  <2>4. ASSUME NEW r \in Resumers, LockChannel(r) \/ Resume(r)
        PROVE  AwaitInv'
    BY <2>4, LockChannelStep, UnlockChannelStep, ResumeHandleStep, ResumeBlockedStep,
       ResumeEarlyStep, DestinationStep, NotifyStep DEF Resume, resume
  <2>5. ASSUME NEW r \in Resumers, NEW a \in Awaiters, LockOwn(r, a)
        PROVE  AwaitInv'
    BY <2>5, LockOwnStep
  <2>6. CASE UNCHANGED awaitableVars
    BY <2>6, AwaitFrame
  <2> QED
    BY <2>1, <2>2, <2>3, <2>4, <2>5, <2>6 DEF AwaitableNext
<1> QED
  BY <1>1, AwaitInit, PTL DEF FairSpec, AwaitableSpec

\* A flag is never left over for a later wait, whoever races whom.
THEOREM FlagsAreFresh == FairSpec => []FlagIsFresh
<1>1. AwaitInv => FlagIsFresh
  BY DEF AwaitInv
<1> QED
  BY <1>1, AwaitInvariant, PTL

\* A completed operation's awaiter is awake or about to be woken, however resume()
\* falls between on_ready() and the suspension.
THEOREM ResumeNotLost == FairSpec => []NoLostResume
<1>1. AwaitInv => NoLostResume
  <2> SUFFICES ASSUME AwaitInv, NEW a \in ready, pc[a] \in {"suspended", "waiting"}
               PROVE  \E r \in Resumers : target[r] = a /\ at[r] \in {"scheduling", "notifying"}
    BY DEF NoLostResume
  <2>1. CASE pc[a] = "suspended"
    BY <2>1 DEF AwaitInv, AwaitableTyped, Suspended
  <2>2. CASE pc[a] = "waiting"
    BY <2>2 DEF AwaitInv, AwaitableTyped, Blocked
  <2> QED
    BY <2>1, <2>2
<1> QED
  BY <1>1, AwaitInvariant, PTL

\* Resumers touch nothing that is gone, but for the condition variable of a thread
\* that a spurious wakeup has let go.
THEOREM NothingDangles == FairSpec => []NoDangling
<1>1. AwaitInv => NoDangling
  BY AwaitersAssumption
     DEF AwaitInv, NoDangling, AwaitableTyped, Positioned, Position, Lives
<1> QED
  BY <1>1, AwaitInvariant, PTL

-----------------------------------------------------------------------------
(* Refinement of OneShot.                                                  *)

Stage == [a \in Awaiters |-> StageOf(a)]

Promised == Event!Next \/ UNCHANGED Stage

\* Only the awaitable of one awaiter goes on.
LEMMA StageMoves ==
  ASSUME NEW a \in Awaiters,
         \A b \in Awaiters : b # a => pc'[b] = pc[b] /\ (b \in ready' <=> b \in ready)
  PROVE  Stage' = [Stage EXCEPT ![a] = StageOf(a)']
<1>1. \A b \in Awaiters : b # a => StageOf(b)' = StageOf(b)
  BY DEF StageOf, Lives
<1> QED
  BY <1>1 DEF Stage

\* A step between "locked" and "woken" is not to be seen.
LEMMA StageStays ==
  ASSUME NEW a \in Awaiters, AwaitInv,
         \A b \in Awaiters : b # a => pc'[b] = pc[b],
         \/ pc'[a] = pc[a]
         \/ {pc[a], pc'[a]} \subseteq {"locked", "suspended", "waiting", "woken"}
         \/ {pc[a], pc'[a]} \subseteq {"idle", "gone"},
         ready' = ready
  PROVE  Promised
<1>1. StageOf(a)' = StageOf(a)
  BY DEF StageOf, Lives
<1>2. Stage' = [Stage EXCEPT ![a] = StageOf(a)]
  BY <1>1, StageMoves
<1> QED
  BY <1>2 DEF Promised, Stage

\* A step of the contract is seen as a move of one awaitable.
LEMMA StageGoes ==
  ASSUME NEW a \in Awaiters, NEW from, NEW to, StageOf(a) \in from, StageOf(a)' = to,
         \A b \in Awaiters : b # a => pc'[b] = pc[b] /\ (b \in ready' <=> b \in ready)
  PROVE  Event!Go(a, from, to)
<1>1. Stage' = [Stage EXCEPT ![a] = to] /\ Stage[a] \in from
  BY StageMoves DEF Stage
<1> QED
  BY <1>1 DEF Event!Go, Stage

LEMMA AwaiterPromise ==
  ASSUME AwaitInv, NEW a \in Awaiters,
         \/ \E k \in {"own", "shared"} : Construct(a, k)
         \/ await_ready(a) \/ Destroy(a)
  PROVE  Promised
<1> USE DEF awaiting, blocked, resumer
<1>1. CASE \E k \in {"own", "shared"} : Construct(a, k)
  <2>1. /\ pc[a] = "idle" /\ pc' = [pc EXCEPT ![a] = "holds"]
        /\ ready' \in {ready \ {a}, ready \cup {a}}
    BY <1>1 DEF Construct
  <2>2. StageOf(a) = "none" /\ StageOf(a)' \in {"pending", "complete"}
    BY <2>1 DEF StageOf, Lives, AwaitInv, AwaitableTyped
  <2>3. Event!Make(a)
    BY <2>1, <2>2, StageGoes DEF Event!Make, AwaitInv, AwaitableTyped
  <2> QED
    BY <2>3 DEF Promised, Event!Next
<1>2. CASE ReadyNow(a)
  <2>1. pc[a] = "holds" /\ pc' = [pc EXCEPT ![a] = "done"] /\ ready' = ready \cup {a}
    BY <1>2 DEF ReadyNow
  <2>2. StageOf(a) \in {"pending", "complete"} /\ StageOf(a)' = "over"
    BY <2>1 DEF StageOf, Lives, AwaitInv, AwaitableTyped
  <2>3. Event!Pass(a)
    BY <2>1, <2>2, StageGoes DEF Event!Pass, AwaitInv, AwaitableTyped
  <2> QED
    BY <2>3 DEF Promised, Event!Next
<1>3. CASE NotReady(a)
  <2>1. pc[a] = "holds" /\ pc' = [pc EXCEPT ![a] = "locked"] /\ a \notin ready /\ ready' = ready
    BY <1>3 DEF NotReady
  <2>2. StageOf(a) \in {"pending"} /\ StageOf(a)' = "awaited"
    BY <2>1 DEF StageOf, Lives, AwaitInv, AwaitableTyped
  <2>3. Event!Await(a)
    BY <2>1, <2>2, StageGoes DEF Event!Await, AwaitInv, AwaitableTyped
  <2> QED
    BY <2>3 DEF Promised, Event!Next
<1>4. CASE Destroy(a)
  <2>1. pc[a] = "done" /\ pc' = [pc EXCEPT ![a] = "idle"] /\ ready' = ready
    BY <1>4 DEF Destroy
  <2>2. StageOf(a) \in {"over"} /\ StageOf(a)' = "none"
    BY <2>1 DEF StageOf, Lives, AwaitInv, AwaitableTyped
  <2>3. Event!Forget(a)
    BY <2>1, <2>2, StageGoes DEF Event!Forget, AwaitInv, AwaitableTyped
  <2> QED
    BY <2>3 DEF Promised, Event!Next
<1> QED
  BY <1>1, <1>2, <1>3, <1>4 DEF await_ready

\* Who suspends or sleeps has not been resumed, whatever earlier waits left behind.
LEMMA SuspendPromise ==
  ASSUME AwaitInv, NEW a \in Awaiters, Suspend(a)
  PROVE  Promised
<1> USE DEF awaiting, resumer
<1>1. CASE SuspendCoroutine(a)
  <2>1. pc[a] = "locked" /\ pc' = [pc EXCEPT ![a] = "suspended"] /\ ready' = ready
    BY <1>1 DEF SuspendCoroutine
  <2> QED
    BY <2>1, StageStays DEF AwaitInv, AwaitableTyped
<1>2. CASE BlockThread(a)
  <2>1. pc[a] = "locked" /\ a \notin flag
    BY <1>2 DEF BlockThread, AwaitInv, FlagIsFresh
  <2>2. pc' = [pc EXCEPT ![a] = "waiting"] /\ ready' = ready
    BY <1>2, <2>1 DEF BlockThread, WaitOnCv
  <2> QED
    BY <2>1, <2>2, StageStays DEF AwaitInv, AwaitableTyped
<1> QED
  BY <1>1, <1>2 DEF Suspend

\* A thread leaves its wait with its flag, which is of this wait.
LEMMA ThreadPromise ==
  ASSUME AwaitInv, NEW t \in Threads, Relock(t) \/ SpuriousWakeup(t) \/ Exit(t)
  PROVE  Promised
<1> USE DEF awaiting, blocked, resumer
<1>1. t \in Awaiters
  BY DEF Awaiters
<1>2. CASE Relock(t) /\ t \in flag
  <2>1. /\ pc[t] = "woken" /\ pc' = [pc EXCEPT ![t] = "done"] /\ ready' = ready
        /\ t \in ready
    BY <1>2 DEF Relock, LeaveBlock, AwaitInv, FlagIsFresh
  <2>2. StageOf(t) \in {"due"} /\ StageOf(t)' = "over"
    BY <1>1, <2>1 DEF StageOf, Lives, AwaitInv, AwaitableTyped
  <2>3. Event!Return(t)
    BY <1>1, <2>1, <2>2, StageGoes DEF Event!Return, AwaitInv, AwaitableTyped
  <2> QED
    BY <1>1, <2>3 DEF Promised, Event!Next
<1>3. CASE Relock(t) /\ t \notin flag
  <2>1. pc[t] = "woken" /\ pc' = [pc EXCEPT ![t] = "waiting"] /\ ready' = ready
    BY <1>3 DEF Relock, WaitOnCv
  <2> QED
    BY <1>1, <2>1, StageStays DEF AwaitInv, AwaitableTyped
<1>4. CASE SpuriousWakeup(t)
  <2>1. pc[t] = "waiting" /\ pc' = [pc EXCEPT ![t] = "woken"] /\ ready' = ready
    BY <1>4 DEF SpuriousWakeup
  <2> QED
    BY <1>1, <2>1, StageStays DEF AwaitInv, AwaitableTyped
<1>5. CASE Exit(t)
  <2>1. pc[t] = "idle" /\ pc' = [pc EXCEPT ![t] = "gone"] /\ ready' = ready
    BY <1>5 DEF Exit
  <2> QED
    BY <1>1, <2>1, StageStays DEF AwaitInv, AwaitableTyped
<1> QED
  BY <1>2, <1>3, <1>4, <1>5

\* resume() completes an operation that was not complete, of an awaitable that is
\* there and whose await has not returned.
LEMMA ResumePromise ==
  ASSUME AwaitInv, NEW r \in Resumers, NEW a \in Awaiters, resume(r, a)
  PROVE  Promised
<1>1. OnResume(r, a) /\ pc' = pc
  BY DEF resume, ResumeHandle, ResumeBlocked, ResumeEarly
<1>2. a \notin ready /\ Lives(a) /\ ready' = ready \cup {a}
  BY <1>1, OnResumeFacts
<1>3. pc[a] \in {"holds", "locked", "suspended", "waiting", "woken"}
  BY <1>2 DEF AwaitInv, AwaitableTyped, Points, Lives, Locked
<1>4. \/ StageOf(a) \in {"pending"} /\ StageOf(a)' = "complete"
      \/ StageOf(a) \in {"awaited"} /\ StageOf(a)' = "due"
  BY <1>1, <1>2, <1>3 DEF StageOf, Lives
<1>5. Event!Complete(a)
  BY <1>1, <1>2, <1>4, StageGoes DEF Event!Complete
<1> QED
  BY <1>5 DEF Promised, Event!Next

\* A coroutine that is scheduled was resumed; a notification only wakes.
LEMMA ReleasePromise ==
  ASSUME AwaitInv, NEW r \in Resumers, to_destination(r) \/ NotifyOne(r)
  PROVE  Promised
<1> USE DEF awaiting, blocked, resumer
<1>1. CASE to_destination(r)
  <2>1. PICK a \in Awaiters :
        /\ pc[a] = "suspended" /\ a \in ready
        /\ pc' = [pc EXCEPT ![a] = "done"] /\ ready' = ready
    BY <1>1 DEF to_destination, AwaitInv, Positioned, Position, Awaiters
  <2>2. StageOf(a) \in {"due"} /\ StageOf(a)' = "over"
    BY <2>1 DEF StageOf, Lives, AwaitInv, AwaitableTyped
  <2>3. Event!Return(a)
    BY <2>1, <2>2, StageGoes DEF Event!Return, AwaitInv, AwaitableTyped
  <2> QED
    BY <2>1, <2>3 DEF Promised, Event!Next
<1>2. CASE NotifyOne(r)
  <2>1. PICK a \in Awaiters :
        /\ ready' = ready
        /\ pc' = [pc EXCEPT ![a] = IF pc[a] = "waiting" THEN "woken" ELSE pc[a]]
    BY <1>2 DEF NotifyOne, AwaitInv, Positioned, Position, Awaiters
  <2> QED
    BY <2>1, StageStays DEF AwaitInv, AwaitableTyped
<1> QED
  BY <1>1, <1>2

\* What only takes or releases a lock.
LEMMA LockPromise ==
  ASSUME UNCHANGED <<pc, ready>>
  PROVE  Promised
BY DEF Promised, Stage, StageOf, Lives

\* Awaitables are one-shot: whatever resumers, notifications and spurious wakeups do,
\* an operation is completed at most once, while its awaitable exists, and no await
\* returns before that.  That it then returns is left to TLC.
THEOREM AwaitsAreOneShot == FairSpec => Event!Steps
<1>1. AwaitableInit => Event!Init
  BY DEF AwaitableInit, Event!Init, StageOf, Lives
<1>2. AwaitInv /\ [AwaitableNext]_awaitableVars => [Event!Next]_Stage
  <2> SUFFICES ASSUME AwaitInv, [AwaitableNext]_awaitableVars PROVE Promised
    BY DEF Promised
  <2>1. ASSUME NEW a \in Awaiters,
               \/ \E k \in {"own", "shared"} : Construct(a, k)
               \/ await_ready(a) \/ Suspend(a) \/ Destroy(a)
        PROVE  Promised
    BY <2>1, AwaiterPromise, SuspendPromise
  <2>2. ASSUME NEW t \in Threads, Relock(t) \/ SpuriousWakeup(t) \/ Exit(t)
        PROVE  Promised
    BY <2>2, ThreadPromise
  <2>3. ASSUME NEW r \in Resumers, LockChannel(r) \/ Resume(r)
        PROVE  Promised
    <3>1. CASE LockChannel(r) \/ UnlockChannel(r)
      BY <3>1, LockPromise DEF LockChannel, UnlockChannel, awaiting
    <3> QED
      BY <2>3, <3>1, ResumePromise, ReleasePromise DEF Resume
  <2>4. ASSUME NEW r \in Resumers, NEW a \in Awaiters, LockOwn(r, a)
        PROVE  Promised
    BY <2>4, LockPromise DEF LockOwn, awaiting
  <2>5. CASE UNCHANGED awaitableVars
    BY <2>5, LockPromise DEF awaitableVars, awaiting
  <2> QED
    BY <2>1, <2>2, <2>3, <2>4, <2>5 DEF AwaitableNext
<1>3. AwaitInv /\ [AwaitableNext]_awaitableVars => [Event!Next]_([a \in Awaiters |-> StageOf(a)])
  BY <1>2 DEF Stage
<1> QED
  BY <1>1, <1>3, AwaitInvariant, PTL DEF FairSpec, AwaitableSpec, Event!Steps
=============================================================================
