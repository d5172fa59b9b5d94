-------------------------------- MODULE Scope --------------------------------
(***************************************************************************)
(* hce::scope: awaitables are sent on an unlimited channel to a root       *)
(* awaiter, a coroutine that joins one after the other until the channel   *)
(* is closed and empty.                                                    *)
(*                                                                         *)
(* The channel is the one of module Unlimited; the n-th awaitable that is  *)
(* released to it is the value n.  One action is one use of the channel,   *)
(* or one step between two.                                                *)
(***************************************************************************)
EXTENDS Naturals, Sequences, FiniteSets

CONSTANTS
  Threads,     \* system threads that add(), the owner included
  Coroutines,  \* coroutines that add()
  Owner,       \* who constructs, await()s and destroys the scope, of either kind
  Root,        \* root_awaiter_, as a user of the channel
  MaxSends     \* bound: how many awaitables are ever added

VARIABLES
  closed_flag, buf, parked_send, parked_recv, call, sends, received, broken,
  adding,      \* awaitables an add() still has to release; 0 outside of add()
  adopted,     \* those it has released
  added,       \* awaitables of add()s that answered true
  refused,     \* released to a channel that was closed: in nobody's hands
  root,        \* where root_awaiter_ stands
  joined,      \* awaitables it has co_awaited
  complete,    \* operations that are complete
  owner,       \* where the owner stands
  terminated   \* std::terminate() was called

channel == <<closed_flag, buf, parked_send, parked_recv, call, sends, received, broken>>
adders == <<adding, adopted, added, refused>>
vars == <<channel, adders, root, joined, complete, owner, terminated>>

Adders == Threads \cup Coroutines
Awaitables == 1 .. MaxSends

root_ch_ == INSTANCE Unlimited WITH Callers <- Adders \cup {Root}, Capacity <- 1

Init ==
  /\ root_ch_!Init
  /\ adding = [a \in Adders |-> 0]
  /\ adopted = [a \in Adders |-> {}]
  /\ added = {} /\ refused = {}
  /\ root = "none"
  /\ joined = {} /\ complete = {}
  /\ owner = "none"
  /\ terminated = FALSE

-----------------------------------------------------------------------------
(* add(): the check of closed() and the sends are steps of their own.      *)

\* The constructor schedules the root awaiter, and adds without a check.
construct(n) ==
  /\ owner = "none"
  /\ owner' = "holds"
  /\ root' = "receiving"
  /\ adding' = [adding EXCEPT ![Owner] = n]
  /\ UNCHANGED <<channel, adopted, added, refused, joined, complete, terminated>>

\* n awaitables, on a scope that still exists.  On a closed channel the answer
\* is false, and the awaitables stay the caller's.
add(a, n) ==
  /\ owner \notin {"none", "destroyed"}
  /\ adding[a] = 0
  /\ ~closed_flag
  /\ adding' = [adding EXCEPT ![a] = n]
  /\ adopted' = [adopted EXCEPT ![a] = {}]
  /\ UNCHANGED <<channel, added, refused, root, joined, complete, owner, terminated>>

\* add_() releases the next awaitable to the channel.  The awt of send() is
\* dropped: a thread performs the send in its destructor.
send(a) == root_ch_!Send(a)

add_(a) ==
  /\ adding[a] > 0
  /\ a \in Threads
  /\ send(a)
  /\ adopted' = [adopted EXCEPT ![a] = @ \cup {sends'}]
  /\ refused' = IF closed_flag THEN refused \cup {sends'} ELSE refused
  /\ UNCHANGED <<adding, added, root, joined, complete, owner, terminated>>

\* The destructor of an awt that a coroutine has not co_awaited terminates.
AddInCoroutine(a) ==
  /\ adding[a] > 0
  /\ a \in Coroutines
  /\ terminated' = TRUE
  /\ UNCHANGED <<channel, adders, root, joined, complete, owner>>

\* The send has returned; after the last, add() returns true.
SendReturns(a) ==
  /\ root_ch_!Return(a)
  /\ adding' = [adding EXCEPT ![a] = @ - 1]
  /\ added' = IF adding[a] = 1 THEN added \cup adopted[a] ELSE added
  /\ UNCHANGED <<adopted, refused, root, joined, complete, owner, terminated>>

-----------------------------------------------------------------------------
(* root_awaiter_                                                           *)

Mut_Recv ==
  /\ root = "receiving"
  /\ IF closed_flag /\ root_ch_!Ready(Root)
       THEN root_ch_!Answer(Root, "recv", 0, "closed") /\ UNCHANGED <<sends, closed_flag>>
       ELSE root_ch_!Recv(Root)
  /\ UNCHANGED <<adders, root, joined, complete, owner, terminated>>

Recv ==
  /\ root = "receiving"
  /\ root_ch_!Recv(Root)
  /\ UNCHANGED <<adders, root, joined, complete, owner, terminated>>

\* The awaitable the root awaiter has received and not yet joined.
Received == call[Root].val
InHand == call[Root].phase = "done" /\ call[Root].result = "success"

\* Either there is an awaitable to join, or the coroutine returns.
RecvReturns ==
  /\ root = "receiving"
  /\ call[Root].phase = "done"
  /\ \/ /\ call[Root].result = "success"
        /\ root' = "joining"
        /\ UNCHANGED channel
     \/ /\ call[Root].result = "closed"
        /\ root_ch_!Return(Root)
        /\ root' = "done"
  /\ UNCHANGED <<adders, joined, complete, owner, terminated>>

\* co_await awt<void>(i), and the end of that awt.
Joined ==
  /\ root = "joining"
  /\ Received \in complete
  /\ joined' = joined \cup {Received}
  /\ root_ch_!Return(Root)
  /\ root' = "receiving"
  /\ UNCHANGED <<adders, complete, owner, terminated>>

\* Whoever runs the operation of an awaitable completes it, at any time.
Complete(v) ==
  /\ v \notin complete
  /\ complete' = complete \cup {v}
  /\ UNCHANGED <<channel, adders, root, joined, owner, terminated>>

-----------------------------------------------------------------------------
(* The owner.                                                              *)

Mut_CloseChannel == UNCHANGED channel

CloseChannel ==
  \/ ~closed_flag /\ root_ch_!Close(Owner)
  \/ closed_flag /\ UNCHANGED channel

\* await(): the channel is closed, if it is not, and root_awt_ moves out, to be
\* awaited by the caller.
await ==
  /\ owner = "holds" /\ adding[Owner] = 0
  /\ CloseChannel
  /\ owner' = "awaits"
  /\ UNCHANGED <<adders, root, joined, complete, terminated>>

AwaitReturns ==
  /\ owner = "awaits"
  /\ root = "done"
  /\ owner' = "awaited"
  /\ UNCHANGED <<channel, adders, root, joined, complete, terminated>>

\* ~scope of a scope that nobody uses any more: it closes the channel, and the
\* destructor of a root_awt_ that is still there waits, in a thread. In a
\* coroutine it terminates.
DestroyBegin ==
  /\ owner = "holds"
  /\ \A a \in Adders : adding[a] = 0
  /\ CloseChannel
  /\ owner' = "destroys"
  /\ terminated' = (Owner \in Coroutines)
  /\ UNCHANGED <<adders, root, joined, complete>>

DestroyEnd ==
  /\ \/ owner = "destroys" /\ root = "done"
     \/ owner = "awaited" /\ \A a \in Adders : adding[a] = 0
  /\ owner' = "destroyed"
  /\ UNCHANGED <<channel, adders, root, joined, complete, terminated>>

-----------------------------------------------------------------------------
AdderStep(a) == add_(a) \/ AddInCoroutine(a) \/ SendReturns(a)
RootStep == Recv \/ RecvReturns \/ Joined
OwnerStep == AwaitReturns \/ (owner = "destroys" /\ DestroyEnd)

Next ==
  /\ ~terminated
  /\ \/ \E a \in Adders : AdderStep(a) \/ \E n \in 1 .. 2 : add(a, n)
     \/ RootStep
     \/ \E v \in Awaitables : Complete(v)
     \/ \E n \in 0 .. 1 : construct(n)
     \/ await \/ DestroyBegin \/ OwnerStep \/ DestroyEnd

\* The scheduler runs the root awaiter, the operations of what was added
\* complete, and the owner is run; nobody has to add.
Fairness ==
  /\ WF_vars(~terminated /\ RootStep)
  /\ WF_vars(~terminated /\ OwnerStep)
  /\ WF_vars(~terminated /\ \E v \in 1 .. sends : Complete(v))

Spec == Init /\ [][Next]_vars /\ Fairness

-----------------------------------------------------------------------------
(* Properties.                                                             *)

Range(s) == {s[i] : i \in DOMAIN s}

\* What the open channel took is awaited: it is in one place, in the channel, with
\* the root awaiter or awaited by it and complete, and when the root awaiter is
\* done, it is awaited. What was released to a closed channel, by an add() that
\* saw it open, is in nobody's hands (add() answers true for it all the same: see
\* AddedAreAwaited), and nothing is while the channel is open.
TakenAreAwaited ==
  /\ joined \subseteq complete
  /\ refused \cap Range(received \o buf) = {}
  /\ refused # {} => closed_flag
  /\ \A v \in (1 .. sends) \ refused :
       v \in joined <=> v \notin Range(buf) /\ (InHand => v # Received)
  /\ root = "done" => closed_flag /\ (1 .. sends) \ refused \subseteq joined

\* add() answers "true if successfully added", and "will fail if await() has
\* already been called" (scope.hpp:91-95): when the root awaiter is done, the
\* awaitables of every add() that answered true have been awaited.
AddedAreAwaited == root = "done" => added \subseteq joined

\* A coroutine constructs a scope with what it schedules and co_awaits await()
\* (scope.hpp:28), or adds to one and does (scope.hpp:34-37): the program
\* terminates for none of it, but only if ~scope finds that nobody awaited.
ScopeServesCoroutines == terminated => owner = "destroys"

\* A thread that awaits the scope, or destroys it, continues, if no coroutine ever
\* adds to it.
ScopeEnds ==
  Owner \in Threads /\ [](\A a \in Coroutines : adding[a] = 0)
    => (owner \in {"awaits", "destroys"} ~> owner \in {"awaited", "destroyed"})
=============================================================================
