------------------------------- MODULE Executor -------------------------------
(***************************************************************************)
(* What the library promises of coroutines, whatever the schedulers do     *)
(* with queues, batches and locks: a coroutine is in one stage of its life *)
(* at a time, executes on one scheduler at a time, alone there, goes back  *)
(* to the scheduler it was suspended on unless it migrates, and a joining  *)
(* coroutine continues only when the one it joins is destroyed.  Handles   *)
(* are lost only when a halted scheduler refuses them.                     *)
(***************************************************************************)
CONSTANTS Schedulers, Coros, NULL

VARIABLES
  stage,    \* the stage of each coroutine's life
  site,     \* the scheduler a ready, running, blocked or done coroutine is on
  joining,  \* the coroutine a blocked coroutine waits for, if any
  refusing  \* schedulers that accept no coroutine any more

vars == <<stage, site, joining, refusing>>

Stages == {"new", "ready", "running", "blocked", "done", "destroyed", "lost"}

Init ==
  /\ stage = [c \in Coros |-> "new"]
  /\ site = [c \in Coros |-> NULL]
  /\ joining = [c \in Coros |-> NULL]
  /\ refusing = {}

Move(c, from, to, s) ==
  /\ stage[c] = from
  /\ stage' = [stage EXCEPT ![c] = to]
  /\ site' = [site EXCEPT ![c] = s]

\* A new coroutine is accepted by a scheduler.
Accept(c, s) == Move(c, "new", "ready", s) /\ UNCHANGED <<joining, refusing>>

Start(c) ==
  /\ \A o \in Coros : stage[o] = "running" => site[o] # site[c]
  /\ Move(c, "ready", "running", site[c])
  /\ UNCHANGED <<joining, refusing>>

Requeue(c, s) == Move(c, "running", "ready", s) /\ UNCHANGED <<joining, refusing>>

Suspend(c, k) ==
  /\ Move(c, "running", "blocked", site[c])
  /\ k # NULL => stage[k] # "destroyed"
  /\ joining' = [joining EXCEPT ![c] = k]
  /\ UNCHANGED refusing

\* Something other than a join unblocks c, back where it was suspended.
Unblock(c) ==
  /\ joining[c] = NULL
  /\ Move(c, "blocked", "ready", site[c])
  /\ UNCHANGED <<joining, refusing>>

Finish(c) == Move(c, "running", "done", site[c]) /\ UNCHANGED <<joining, refusing>>

\* A done coroutine is destroyed, and whoever joins it becomes ready at once.
Destroy(k) ==
  /\ stage[k] = "done"
  /\ LET joiners == {c \in Coros : stage[c] = "blocked" /\ joining[c] = k}
     IN /\ stage' = [c \in Coros |-> IF c = k THEN "destroyed"
                                     ELSE IF c \in joiners THEN "ready" ELSE stage[c]]
        /\ joining' = [c \in Coros |-> IF c \in joiners THEN NULL ELSE joining[c]]
  /\ site' = [site EXCEPT ![k] = NULL]
  /\ UNCHANGED refusing

Refuse(s) ==
  /\ refusing' = refusing \cup {s}
  /\ UNCHANGED <<stage, site, joining>>

\* Only the refusal of a scheduler costs a handle, before it is ever queued,
\* when it is unblocked, or after the migration of a running coroutine.
Lose(c) ==
  /\ refusing # {}
  /\ stage[c] \in {"new", "blocked", "running"}
  /\ Move(c, stage[c], "lost", NULL)
  /\ UNCHANGED <<joining, refusing>>

Next ==
  \/ \E c \in Coros : Start(c) \/ Unblock(c) \/ Finish(c) \/ Destroy(c) \/ Lose(c)
  \/ \E c \in Coros, s \in Schedulers : Accept(c, s) \/ Requeue(c, s)
  \/ \E c \in Coros, k \in Coros \cup {NULL} : Suspend(c, k)
  \/ \E s \in Schedulers : Refuse(s)

Spec == Init /\ [][Next]_vars
=============================================================================
