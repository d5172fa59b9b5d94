--------------------------- MODULE SynchronizedList ---------------------------
(***************************************************************************)
(* hce::synchronized_list: a list under a spinlock, one flag that says     *)
(* that somebody waits, and a condition variable that is notified after    *)
(* the lock is released.                                                   *)
(*                                                                         *)
(* One action is one critical section, or one notification.  A thread that *)
(* sleeps is back in pop()'s loop when it is notified or wakes for no      *)
(* reason, and has to take the lock again.                                 *)
(***************************************************************************)
EXTENDS Naturals, Sequences

CONSTANTS
  Callers,   \* threads that push and close
  Poppers,   \* threads that pop
  Values,    \* what is pushed
  MaxLength, \* bound: the values in the list
  NULL       \* no value

VARIABLES
  list_,     \* synchronized_list::list_
  closed_,   \* synchronized_list::closed_
  waiting_,  \* synchronized_list::waiting_
  at,        \* where a popper is: out of pop(), in its loop, or in cv_.wait()
  t,         \* pop()'s t, NULL where pop() returned false
  notifying  \* the notification a caller has still to give

vars == <<list_, closed_, waiting_, at, t, notifying>>

\* The flag is never set on a closed list.
TypeOK ==
  /\ list_ \in Seq(Values) /\ Len(list_) <= MaxLength
  /\ {closed_, waiting_} \subseteq BOOLEAN /\ ~(closed_ /\ waiting_)
  /\ at \in [Poppers -> {"out", "loop", "wait"}]
  /\ t \in [Poppers -> Values \cup {NULL}]
  /\ notifying \in [Callers -> {"no", "one", "all"}]

Init ==
  /\ list_ = <<>>
  /\ closed_ = FALSE
  /\ waiting_ = FALSE
  /\ at = [p \in Poppers |-> "out"]
  /\ t = [p \in Poppers |-> NULL]
  /\ notifying = [c \in Callers |-> "no"]

-----------------------------------------------------------------------------
(* The threads that push and close.                                        *)

\* The flag is taken over by the caller that will notify.
TakeFlag(c, how) ==
  /\ waiting_' = FALSE
  /\ notifying' = [notifying EXCEPT ![c] = IF waiting_ THEN how ELSE "no"]

Mut_Emplace(c, longer) ==
  /\ notifying[c] = "no"
  /\ Len(list_) < MaxLength
  /\ list_' = longer
  /\ TakeFlag(c, "one")
  /\ UNCHANGED <<closed_, at, t>>

\* A closed list refuses the value, and nothing changes.
Emplace(c, longer) ==
  /\ notifying[c] = "no"
  /\ ~closed_
  /\ Len(list_) < MaxLength
  /\ list_' = longer
  /\ TakeFlag(c, "one")
  /\ UNCHANGED <<closed_, at, t>>

emplace_back(c, v) == Emplace(c, Append(list_, v))
emplace_front(c, v) == Emplace(c, <<v>> \o list_)

close(c) ==
  /\ notifying[c] = "no"
  /\ ~closed_
  /\ closed_' = TRUE
  /\ TakeFlag(c, "all")
  /\ UNCHANGED <<list_, at, t>>

NotifyOne(c) ==
  /\ notifying[c] = "one"
  /\ IF \E p \in Poppers : at[p] = "wait"
       THEN \E p \in Poppers : at[p] = "wait" /\ at' = [at EXCEPT ![p] = "loop"]
       ELSE at' = at
  /\ notifying' = [notifying EXCEPT ![c] = "no"]
  /\ UNCHANGED <<list_, closed_, waiting_, t>>

NotifyAll(c) ==
  /\ notifying[c] = "all"
  /\ at' = [p \in Poppers |-> IF at[p] = "wait" THEN "loop" ELSE at[p]]
  /\ notifying' = [notifying EXCEPT ![c] = "no"]
  /\ UNCHANGED <<list_, closed_, waiting_, t>>

Notify(c) == NotifyOne(c) \/ NotifyAll(c)

-----------------------------------------------------------------------------
(* The threads that pop.                                                   *)

CallPop(p) ==
  /\ at[p] = "out"
  /\ at' = [at EXCEPT ![p] = "loop"]
  /\ UNCHANGED <<list_, closed_, waiting_, t, notifying>>

PopValue(p) ==
  /\ at[p] = "loop"
  /\ list_ # <<>>
  /\ t' = [t EXCEPT ![p] = Head(list_)]
  /\ list_' = Tail(list_)
  /\ at' = [at EXCEPT ![p] = "out"]
  /\ UNCHANGED <<closed_, waiting_, notifying>>

PopFails(p) ==
  /\ at[p] = "loop"
  /\ list_ = <<>> /\ closed_
  /\ t' = [t EXCEPT ![p] = NULL]
  /\ at' = [at EXCEPT ![p] = "out"]
  /\ UNCHANGED <<list_, closed_, waiting_, notifying>>

PopWaits(p) ==
  /\ at[p] = "loop"
  /\ list_ = <<>> /\ ~closed_
  /\ waiting_' = TRUE
  /\ at' = [at EXCEPT ![p] = "wait"]
  /\ UNCHANGED <<list_, closed_, t, notifying>>

SpuriousWakeup(p) ==
  /\ at[p] = "wait"
  /\ at' = [at EXCEPT ![p] = "loop"]
  /\ UNCHANGED <<list_, closed_, waiting_, t, notifying>>

pop(p) == PopValue(p) \/ PopFails(p) \/ PopWaits(p)

-----------------------------------------------------------------------------
Next ==
  \/ \E c \in Callers, v \in Values : emplace_back(c, v) \/ emplace_front(c, v)
  \/ \E c \in Callers : close(c) \/ Notify(c)
  \/ \E p \in Poppers : CallPop(p) \/ pop(p) \/ SpuriousWakeup(p)

Spec == Init /\ [][Next]_vars

(***************************************************************************)
(* Threads that are inside an operation are run by the operating system:   *)
(* a caller gives its notification, a popper that is not asleep goes on.   *)
(* Nobody has to push, close or pop, and spurious wakeups do not count.    *)
(***************************************************************************)
Fairness ==
  /\ \A c \in Callers : WF_vars(Notify(c))
  /\ \A p \in Poppers : WF_vars(pop(p))

FairSpec == Spec /\ Fairness

-----------------------------------------------------------------------------
(* Properties.                                                             *)

\* The single flag is enough for one consumer, which is how the workers of
\* hce::block() use the list: while it sleeps, either the next push or close()
\* will find the flag, or a notification is under way.  In particular it does
\* not sleep beside a value or on a closed list once all have notified.
SleeperNoticed ==
  \A p \in Poppers : at[p] = "wait" =>
    \/ waiting_ /\ list_ = <<>> /\ ~closed_
    \/ \E c \in Callers : notifying[c] # "no"

\* With one consumer the list is the queue of module ClosableQueue, and its
\* pop() returns whenever that queue's does.
Queue == INSTANCE ClosableQueue WITH
  queue <- list_, closed <- closed_, popped <- t,
  popping <- {p \in Poppers : at[p] # "out"}

ImplementsQueue == Queue!Spec

\* What the comment of close() says (synchronized_list.hpp:79) of every
\* consumer: once the list is closed and empty, pop() fails, and does not sleep.
ClosedPopReturns ==
  \A p \in Poppers : (closed_ /\ at[p] = "wait") ~> at[p] # "wait"
=============================================================================
