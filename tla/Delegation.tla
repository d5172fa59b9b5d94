------------------------------ MODULE Delegation ------------------------------
(***************************************************************************)
(* What hce::blocking::service promises a coroutine that calls block(),    *)
(* whatever is cached, cleared and launched in the meantime: its callable  *)
(* is executed once, by a thread that serves nobody else until the call    *)
(* is over, and the call returns after that and gives the thread back.  A  *)
(* call that gets no thread ends without having executed anything.         *)
(***************************************************************************)
CONSTANTS Callers, Hands, Nobody

VARIABLES
  place,  \* how far the call of each caller is
  hand,   \* the thread that serves it
  hired,  \* the threads that exist
  doing   \* the caller whose callable a thread executes

vars == <<place, hand, hired, doing>>

Init ==
  /\ place = [c \in Callers |-> "out"]
  /\ hand = [c \in Callers |-> Nobody]
  /\ hired = {}
  /\ doing = [w \in Hands |-> Nobody]

Go(c, from, to) == place[c] = from /\ place' = [place EXCEPT ![c] = to]

Held(w) == \E c \in Callers : hand[c] = w

Ask(c) == Go(c, "out", "asking") /\ UNCHANGED <<hand, hired, doing>>

Refuse(c) == Go(c, "asking", "out") /\ UNCHANGED <<hand, hired, doing>>

\* The call gets a thread that is idle, or a new one.
Engage(c, w) ==
  /\ ~Held(w)
  /\ \/ w \in hired /\ Go(c, "out", "served")
     \/ w \notin hired /\ Go(c, "asking", "served")
  /\ hand' = [hand EXCEPT ![c] = w]
  /\ hired' = hired \cup {w}
  /\ UNCHANGED doing

Begin(c, w) ==
  /\ hand[c] = w /\ place[c] = "served"
  /\ doing[w] = Nobody
  /\ doing' = [doing EXCEPT ![w] = c]
  /\ UNCHANGED <<place, hand, hired>>

Done(c, w) ==
  /\ doing[w] = c /\ hand[c] = w
  /\ Go(c, "served", "done")
  /\ doing' = [doing EXCEPT ![w] = Nobody]
  /\ UNCHANGED <<hand, hired>>

Return(c) == Go(c, "done", "returning") /\ UNCHANGED <<hand, hired, doing>>

\* The thread is kept for another call, or ends.
Release(c) ==
  /\ Go(c, "returning", "out")
  /\ hand' = [hand EXCEPT ![c] = Nobody]
  /\ hired' \in {hired, hired \ {hand[c]}}
  /\ UNCHANGED doing

Dismiss(w) ==
  /\ w \in hired /\ ~Held(w)
  /\ hired' = hired \ {w}
  /\ UNCHANGED <<place, hand, doing>>

Next ==
  \/ \E c \in Callers : Ask(c) \/ Refuse(c) \/ Return(c) \/ Release(c)
  \/ \E c \in Callers, w \in Hands : Engage(c, w) \/ Begin(c, w) \/ Done(c, w)
  \/ \E w \in Hands : Dismiss(w)

Spec == Init /\ [][Next]_vars
=============================================================================
