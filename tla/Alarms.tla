-------------------------------- MODULE Alarms --------------------------------
(***************************************************************************)
(* What hce::timer::service promises of timers, whatever its thread waits  *)
(* for and whoever is faster: a timer that was set ends once, with true    *)
(* only after its timeout.  All timers that are due expire together, none  *)
(* is overlooked, and they are told in the order of their timeouts.  A     *)
(* timer that is canceled, or left when the service is closed, ends with   *)
(* false, and from then on nothing else happens to it.                     *)
(***************************************************************************)
EXTENDS Naturals

CONSTANTS Timers, Times

VARIABLES
  clock,   \* the time
  due,     \* the timeout of each timer
  alarm,   \* where each timer stands
  closed   \* the service accepts and expires no timer any more

vars == <<clock, due, alarm, closed>>

Init ==
  /\ clock = 0
  /\ due = [t \in Timers |-> 0]
  /\ alarm = [t \in Timers |-> "new"]
  /\ closed = FALSE

Move(t, from, to) == alarm[t] = from /\ alarm' = [alarm EXCEPT ![t] = to]

Set(t) ==
  /\ ~closed
  /\ Move(t, "new", "set")
  /\ \E d \in Times : due' = [due EXCEPT ![t] = d]
  /\ UNCHANGED <<clock, closed>>

Cancel(t) == ~closed /\ Move(t, "set", "canceled") /\ UNCHANGED <<clock, due, closed>>

Overdue == {t \in Timers : alarm[t] = "set" /\ due[t] <= clock}

Expire ==
  /\ ~closed
  /\ Overdue # {}
  /\ alarm' = [t \in Timers |-> IF t \in Overdue THEN "expired" ELSE alarm[t]]
  /\ UNCHANGED <<clock, due, closed>>

Ring(t) ==
  /\ \A u \in Timers : alarm[u] = "expired" => due[t] <= due[u]
  /\ Move(t, "expired", "true")
  /\ UNCHANGED <<clock, due, closed>>

Fail(t) ==
  /\ \/ Move(t, "canceled", "false")
     \/ closed /\ Move(t, "set", "false")
  /\ UNCHANGED <<clock, due, closed>>

Close == closed' = TRUE /\ UNCHANGED <<clock, due, alarm>>

Tick == clock' = clock + 1 /\ UNCHANGED <<due, alarm, closed>>

Next ==
  \/ \E t \in Timers : Set(t) \/ Cancel(t) \/ Ring(t) \/ Fail(t)
  \/ Expire \/ Close \/ Tick

Spec == Init /\ [][Next]_vars
=============================================================================
