------------------------------ MODULE Awaitable ------------------------------
(***************************************************************************)
(* hce::awaitable::interface and detail::coroutine::this_thread: how a     *)
(* coroutine or a system thread awaits, and how somebody else resumes it.  *)
(*                                                                         *)
(* Each awaiter has at most one awaitable, which is named after it.  There *)
(* are two families: "own" is the policy defer + lock (joins, timers,      *)
(* hce::block()), with a lock of the awaitable's own and a resume() that   *)
(* may come at any time; "shared" is defer + no_lock (channels), with the  *)
(* channel's lock, which the resumer holds, and a resume() that finds the  *)
(* awaitable where on_ready() parked it.  One action is what happens until *)
(* the lock changes hands, or one notification.                            *)
(***************************************************************************)
EXTENDS FiniteSets

CONSTANTS Coroutines, Threads, Resumers, Channel, NULL

Awaiters == Coroutines \cup Threads
Locks == Awaiters \cup {Channel}

ASSUME AwaitersAssumption ==
  /\ Coroutines \cap Threads = {}
  /\ Resumers \cap Awaiters = {}
  /\ Channel \notin Awaiters
  /\ NULL \notin Awaiters \cup Resumers

VARIABLES
  pc,        \* where an awaiter stands
  family,    \* the family of its awaitable
  ready,     \* on_ready() would say true: the operation is complete
  parked,    \* awaitables in a list of the channel
  handle_,   \* awaitables that hold a coroutine's handle
  tt_,       \* awaitables that hold a blocked thread
  flag,      \* this_thread::ready of each thread
  spurious,  \* threads that cv.wait() has ever released for no reason
  holder,    \* who holds each lock
  at,        \* where a resumer stands
  target     \* the awaitable or thread it will still touch

awaiting == <<family, ready, parked>>
blocked == <<handle_, tt_, flag>>
resumer == <<at, target>>
awaitableVars == <<pc, awaiting, blocked, spurious, holder, resumer>>

Points == {"idle", "holds", "locked", "suspended", "waiting", "woken", "done", "gone"}

\* Only coroutines leave handles, only threads block.
AwaitableTyped ==
  /\ pc \in [Awaiters -> Points]
  /\ family \in [Awaiters -> {"own", "shared"}]
  /\ ready \in SUBSET Awaiters
  /\ parked \in SUBSET Awaiters
  /\ handle_ \in SUBSET Coroutines
  /\ {tt_, flag, spurious} \subseteq SUBSET Threads
  /\ holder \in [Locks -> Awaiters \cup Resumers \cup {NULL}]
  /\ at \in [Resumers -> {"idle", "inside", "scheduling", "notifying"}]
  /\ target \in [Resumers -> Awaiters \cup {NULL}]
  /\ \A a \in Awaiters : pc[a] = "suspended" => a \in Coroutines
  /\ \A a \in Awaiters : pc[a] \in {"waiting", "woken", "gone"} => a \in Threads

AwaitableInit ==
  /\ pc = [a \in Awaiters |-> "idle"]
  /\ family = [a \in Awaiters |-> "own"]
  /\ ready = {} /\ parked = {}
  /\ handle_ = {} /\ tt_ = {} /\ flag = {} /\ spurious = {}
  /\ holder = [l \in Locks |-> NULL]
  /\ at = [r \in Resumers |-> "idle"]
  /\ target = [r \in Resumers |-> NULL]

Lives(a) == pc[a] \notin {"idle", "gone"}
LockOf(a) == IF family[a] = "shared" THEN Channel ELSE a
Free(l) == holder[l] = NULL

-----------------------------------------------------------------------------
(* Awaiters.                                                               *)

\* Some operation returns an awaitable, which may be complete already.
Construct(a, k) ==
  /\ pc[a] = "idle"
  /\ pc' = [pc EXCEPT ![a] = "holds"]
  /\ family' = [family EXCEPT ![a] = k]
  /\ \/ ready' = ready \ {a}
     \/ k = "own" /\ ready' = ready \cup {a}
  /\ UNCHANGED <<parked, blocked, spurious, holder, resumer>>

\* co_await, and the thread's wait(): the lock is taken, and kept when the
\* operation is not complete.  A channel's on_ready() completes the operation
\* or parks the awaitable.
ReadyNow(a) ==
  /\ pc[a] = "holds"
  /\ Free(LockOf(a))
  /\ \/ a \in ready /\ ready' = ready
     \/ family[a] = "shared" /\ ready' = ready \cup {a}
  /\ pc' = [pc EXCEPT ![a] = "done"]
  /\ UNCHANGED <<family, parked, blocked, spurious, holder, resumer>>

Mut_NotReady(a) ==
  /\ pc[a] = "holds"
  /\ Free(LockOf(a))
  /\ a \notin ready
  /\ parked' = IF family[a] = "shared" THEN parked \cup {a} ELSE parked
  /\ pc' = [pc EXCEPT ![a] = "locked"]
  /\ UNCHANGED <<family, ready, blocked, spurious, holder, resumer>>

NotReady(a) ==
  /\ pc[a] = "holds"
  /\ Free(LockOf(a))
  /\ a \notin ready
  /\ parked' = IF family[a] = "shared" THEN parked \cup {a} ELSE parked
  /\ holder' = [holder EXCEPT ![LockOf(a)] = a]
  /\ pc' = [pc EXCEPT ![a] = "locked"]
  /\ UNCHANGED <<family, ready, blocked, spurious, resumer>>

await_ready(a) == ReadyNow(a) \/ NotReady(a)

\* await_suspend() of a coroutine: the handle is stored, the lock released.
SuspendCoroutine(c) ==
  /\ pc[c] = "locked"
  /\ handle_' = handle_ \cup {c}
  /\ pc' = [pc EXCEPT ![c] = "suspended"]
  /\ holder' = [holder EXCEPT ![LockOf(c)] = NULL]
  /\ UNCHANGED <<awaiting, tt_, flag, spurious, resumer>>

\* this_thread::block_() leaves its loop: the flag is reset, and
\* await_suspend() releases the lock.
LeaveBlock(t) ==
  /\ flag' = flag \ {t}
  /\ pc' = [pc EXCEPT ![t] = "done"]
  /\ holder' = [holder EXCEPT ![LockOf(t)] = NULL]

\* cv.wait() releases the lock and sleeps, in one step.
WaitOnCv(t) ==
  /\ pc' = [pc EXCEPT ![t] = "waiting"]
  /\ holder' = [holder EXCEPT ![LockOf(t)] = NULL]
  /\ UNCHANGED flag

BlockThread(t) ==
  /\ pc[t] = "locked"
  /\ tt_' = tt_ \cup {t}
  /\ IF t \in flag THEN LeaveBlock(t) ELSE WaitOnCv(t)
  /\ UNCHANGED <<awaiting, handle_, spurious, resumer>>

Mut_RelockUnreset(t) ==
  /\ pc[t] = "woken"
  /\ Free(LockOf(t))
  /\ pc' = [pc EXCEPT ![t] = IF t \in flag THEN "done" ELSE "waiting"]
  /\ UNCHANGED <<awaiting, blocked, spurious, holder, resumer>>

\* cv.wait() returns when it has the lock again, to the loop that tests ready.
Relock(t) ==
  /\ pc[t] = "woken"
  /\ Free(LockOf(t))
  /\ IF t \in flag THEN LeaveBlock(t) ELSE WaitOnCv(t)
  /\ UNCHANGED <<awaiting, handle_, tt_, spurious, resumer>>

SpuriousWakeup(t) ==
  /\ pc[t] = "waiting"
  /\ pc' = [pc EXCEPT ![t] = "woken"]
  /\ spurious' = spurious \cup {t}
  /\ UNCHANGED <<awaiting, blocked, holder, resumer>>

\* The awaitable goes out of scope and is deleted.  It was awaited: a thread's
\* ~awaitable waits, and that of a coroutine that has not terminates the process.
Destroy(a) ==
  /\ pc[a] = "done"
  /\ pc' = [pc EXCEPT ![a] = "idle"]
  /\ UNCHANGED <<awaiting, blocked, spurious, holder, resumer>>

\* A thread ends, and with it its thread_local this_thread.
Exit(t) ==
  /\ pc[t] = "idle"
  /\ pc' = [pc EXCEPT ![t] = "gone"]
  /\ UNCHANGED <<awaiting, blocked, spurious, holder, resumer>>

-----------------------------------------------------------------------------
(* Resumers.                                                               *)

\* resume() of an awaitable with a lock of its own.  Whoever resumes does so
\* once for each awaitable, which is what the components that use it show.
LockOwn(r, a) ==
  /\ at[r] = "idle"
  /\ family[a] = "own" /\ Lives(a) /\ a \notin ready
  /\ \A q \in Resumers : at[q] = "inside" => target[q] # a
  /\ Free(a)
  /\ holder' = [holder EXCEPT ![a] = r]
  /\ at' = [at EXCEPT ![r] = "inside"]
  /\ target' = [target EXCEPT ![r] = a]
  /\ UNCHANGED <<pc, awaiting, blocked, spurious>>

\* An operation of the channel takes the lock, and resumes what it finds parked.
LockChannel(r) ==
  /\ at[r] = "idle"
  /\ Free(Channel)
  /\ holder' = [holder EXCEPT ![Channel] = r]
  /\ at' = [at EXCEPT ![r] = "inside"]
  /\ UNCHANGED <<pc, awaiting, blocked, spurious, target>>

UnlockChannel(r) ==
  /\ at[r] = "inside" /\ holder[Channel] = r
  /\ holder' = [holder EXCEPT ![Channel] = NULL]
  /\ at' = [at EXCEPT ![r] = "idle"]
  /\ UNCHANGED <<pc, awaiting, blocked, spurious, target>>

\* The resumer is inside resume() of a, with the lock; on_resume() completes
\* the operation.
OnResume(r, a) ==
  /\ at[r] = "inside"
  /\ IF family[a] = "own" THEN target[r] = a ELSE holder[Channel] = r /\ a \in parked
  /\ ready' = ready \cup {a}
  /\ parked' = parked \ {a}
  /\ UNCHANGED family

\* resume() releases the lock, unless it is the channel's.
Release(a) == holder' = IF family[a] = "own" THEN [holder EXCEPT ![a] = NULL] ELSE holder

Mut_ResumeHandle(r, a) ==
  /\ OnResume(r, a)
  /\ a \in handle_
  /\ handle_' = handle_ \ {a}
  /\ pc' = [pc EXCEPT ![a] = "done"]
  /\ UNCHANGED <<tt_, flag, spurious, holder, resumer>>

\* A coroutine is suspended: the handle leaves the awaitable before the lock
\* is released, and goes to its scheduler after.
ResumeHandle(r, a) ==
  /\ OnResume(r, a)
  /\ a \in handle_
  /\ handle_' = handle_ \ {a}
  /\ Release(a)
  /\ at' = [at EXCEPT ![r] = "scheduling"]
  /\ target' = [target EXCEPT ![r] = a]
  /\ UNCHANGED <<pc, tt_, flag, spurious>>

Mut_ResumeBlocked(r, a) ==
  /\ OnResume(r, a)
  /\ a \in tt_
  /\ tt_' = tt_ \ {a}
  /\ Release(a)
  /\ at' = [at EXCEPT ![r] = "notifying"]
  /\ target' = [target EXCEPT ![r] = a]
  /\ UNCHANGED <<pc, handle_, flag, spurious>>

\* A thread is blocked: its flag is set before the lock is released, and its
\* condition variable is notified after.
ResumeBlocked(r, a) ==
  /\ OnResume(r, a)
  /\ a \in tt_
  /\ tt_' = tt_ \ {a}
  /\ flag' = flag \cup {a}
  /\ Release(a)
  /\ at' = [at EXCEPT ![r] = "notifying"]
  /\ target' = [target EXCEPT ![r] = a]
  /\ UNCHANGED <<pc, handle_, spurious>>

\* Nobody has awaited yet: on_ready() will find the operation complete.
ResumeEarly(r, a) ==
  /\ OnResume(r, a)
  /\ a \notin handle_ \cup tt_
  /\ Release(a)
  /\ at' = [at EXCEPT ![r] = IF family[a] = "own" THEN "idle" ELSE "inside"]
  /\ target' = [target EXCEPT ![r] = NULL]
  /\ UNCHANGED <<pc, blocked, spurious>>

resume(r, a) == ResumeHandle(r, a) \/ ResumeBlocked(r, a) \/ ResumeEarly(r, a)

\* The resumer leaves resume(), to a channel's operation or altogether.
Returns(r) ==
  /\ at' = [at EXCEPT ![r] = IF holder[Channel] = r THEN "inside" ELSE "idle"]
  /\ target' = [target EXCEPT ![r] = NULL]

\* The coroutine is scheduled, and goes on.
to_destination(r) ==
  /\ at[r] = "scheduling"
  /\ pc' = [pc EXCEPT ![target[r]] = "done"]
  /\ Returns(r)
  /\ UNCHANGED <<awaiting, blocked, spurious, holder>>

\* Nothing happens when the thread does not wait any more.
NotifyOne(r) ==
  /\ at[r] = "notifying"
  /\ pc' = [pc EXCEPT ![target[r]] = IF pc[target[r]] = "waiting" THEN "woken" ELSE @]
  /\ Returns(r)
  /\ UNCHANGED <<awaiting, blocked, spurious, holder>>

-----------------------------------------------------------------------------
Suspend(a) ==
  \/ a \in Coroutines /\ SuspendCoroutine(a)
  \/ a \in Threads /\ BlockThread(a)

Resume(r) ==
  \/ \E a \in Awaiters : resume(r, a)
  \/ to_destination(r)
  \/ NotifyOne(r)
  \/ UnlockChannel(r)

AwaitableNext ==
  \/ \E a \in Awaiters :
       \/ \E k \in {"own", "shared"} : Construct(a, k)
       \/ await_ready(a) \/ Suspend(a) \/ Destroy(a)
  \/ \E t \in Threads : Relock(t) \/ SpuriousWakeup(t) \/ Exit(t)
  \/ \E r \in Resumers : LockChannel(r) \/ Resume(r)
  \/ \E r \in Resumers, a \in Awaiters : LockOwn(r, a)

AwaitableSpec == AwaitableInit /\ [][AwaitableNext]_awaitableVars

(***************************************************************************)
(* Threads that are inside an await or a resume are run, and one that      *)
(* spins for a lock gets it in the end.  Nobody has to await or to resume, *)
(* and spurious wakeups do not count.                                      *)
(***************************************************************************)
Fairness ==
  /\ \A a \in Awaiters : WF_awaitableVars(Suspend(a))
  /\ \A t \in Threads : SF_awaitableVars(Relock(t))
  /\ \A r \in Resumers : WF_awaitableVars(Resume(r))

FairSpec == AwaitableSpec /\ Fairness

-----------------------------------------------------------------------------
(* Properties.                                                             *)

\* Nobody touches what is gone: an awaitable is not deleted while a resumer is
\* inside its resume().  The exception is a thread's condition variable, which
\* is notified without the lock: the thread may have left and ended by then,
\* but only one that a spurious wakeup has let leave its wait early.
NoDangling ==
  \A r \in Resumers : target[r] # NULL =>
    IF at[r] = "notifying"
      THEN pc[target[r]] = "gone" => target[r] \in spurious
      ELSE Lives(target[r])

\* A thread's flag is set for the wait it is in and for no later one: it is
\* blocked on an awaitable that has been resumed.
FlagIsFresh == \A t \in flag : pc[t] \in {"waiting", "woken"} /\ t \in ready \ tt_

\* Once the operation of a suspended coroutine or a sleeping thread is complete,
\* somebody is about to wake it: resume() cannot fall between on_ready() and
\* the suspension.
NoLostResume ==
  \A a \in ready : pc[a] \in {"suspended", "waiting"} =>
    \E r \in Resumers : target[r] = a /\ at[r] \in {"scheduling", "notifying"}

\* How far an awaitable is, as its awaiter may see it.
StageOf(a) ==
  CASE ~Lives(a) -> "none"
    [] pc[a] = "holds" -> IF a \in ready THEN "complete" ELSE "pending"
    [] pc[a] \in {"locked", "suspended", "waiting", "woken"} -> IF a \in ready THEN "due" ELSE "awaited"
    [] pc[a] = "done" -> "over"

Event == INSTANCE OneShot WITH stage <- [a \in Awaiters |-> StageOf(a)]

\* Locks, handles, flags and notifications are not to be seen: an await returns after
\* its operation is complete and not before, and once it is complete it returns.
ImplementsOneShot == Event!Spec
=============================================================================
