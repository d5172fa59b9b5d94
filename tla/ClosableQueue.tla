---------------------------- MODULE ClosableQueue ----------------------------
(***************************************************************************)
(* What hce::synchronized_list promises the threads that share it: pushes  *)
(* and pops are atomic, no value is dropped or delivered twice, a closed   *)
(* queue accepts no value and delivers those it has, and a pop() returns   *)
(* as soon as there is a value to return or none can come any more.        *)
(***************************************************************************)
EXTENDS Sequences

CONSTANTS
  Poppers,  \* threads that pop
  Values,   \* what is pushed
  NULL      \* what a failed pop() returns

VARIABLES
  queue,    \* the values in the queue
  closed,   \* close() was called
  popping,  \* threads inside pop()
  popped    \* what the last pop() of each thread returned

vars == <<queue, closed, popping, popped>>

Init ==
  /\ queue = <<>>
  /\ closed = FALSE
  /\ popping = {}
  /\ popped = [p \in Poppers |-> NULL]

Push(v) ==
  /\ ~closed
  /\ queue' \in {Append(queue, v), <<v>> \o queue}
  /\ UNCHANGED <<closed, popping, popped>>

Close == closed' = TRUE /\ UNCHANGED <<queue, popping, popped>>

Call(p) ==
  /\ p \notin popping
  /\ popping' = popping \cup {p}
  /\ UNCHANGED <<queue, closed, popped>>

Take(p) ==
  /\ p \in popping
  /\ queue # <<>>
  /\ queue' = Tail(queue)
  /\ popped' = [popped EXCEPT ![p] = Head(queue)]
  /\ popping' = popping \ {p}
  /\ UNCHANGED closed

Fail(p) ==
  /\ p \in popping
  /\ queue = <<>> /\ closed
  /\ popped' = [popped EXCEPT ![p] = NULL]
  /\ popping' = popping \ {p}
  /\ UNCHANGED <<queue, closed>>

Next ==
  \/ Close
  \/ \E v \in Values : Push(v)
  \/ \E p \in Poppers : Call(p) \/ Take(p) \/ Fail(p)

Spec == Init /\ [][Next]_vars /\ \A p \in Poppers : WF_vars(Take(p) \/ Fail(p))
=============================================================================
