----------------------------- MODULE ChannelCalls -----------------------------
(***************************************************************************)
(* What the three implementations of hce::channel::interface have in       *)
(* common: callers (coroutines or threads), each inside at most one call,  *)
(* the awaitable of that call, and the lists of parked awaitables.         *)
(*                                                                         *)
(* Every operation of a channel, from await_ready() to the park or the     *)
(* resumption of a peer, happens under the channel's lock: base_send_ and  *)
(* base_recv_interface are built with await::policy::defer and             *)
(* resume::policy::no_lock.  An operation is therefore one action.         *)
(*                                                                         *)
(* The n-th value sent, by send() or try_send(), is the number n: order    *)
(* and identity of values are all the properties look at.  A parked send's *)
(* awaitable is known by its value, a parked recv's by its caller.         *)
(***************************************************************************)
EXTENDS Integers, Sequences, FiniteSets, SequencesExt

CONSTANTS
  Callers,   \* the coroutines and threads that use the channel
  Capacity,  \* the size a buffered channel was constructed with
  MaxSends   \* bound: how many values are ever sent

ASSUME CapacityAssumption == Capacity \in Nat \ {0}
ASSUME MaxSendsAssumption == MaxSends \in Nat

VARIABLES
  closed_flag,  \* closed_flag_
  buf,          \* buffered::buf_ or unlimited::queue_; unused by unbuffered
  parked_send,  \* parked_send_, the awaitables as their values
  parked_recv,  \* parked_recv_, the awaitables as their callers
  call,         \* the call each caller is in, with its awaitable
  sends,        \* how many values have been sent so far
  received,     \* the values moved to a receiver's destination, in order
  broken        \* an awaitable was resumed twice or after its destruction, or
                \* with memory of another type than it expects

vars == <<closed_flag, buf, parked_send, parked_recv, call, sends, received, broken>>

Ops == {"none", "send", "recv", "try_send", "try_recv"}
Phases == {"idle", "blocked", "done"}
Results == {"none", "closed", "failure", "success"}
Values == 1 .. MaxSends

Idle == [op |-> "none", phase |-> "idle", val |-> 0, result |-> "none"]
Blocked(o, v) == [op |-> o, phase |-> "blocked", val |-> v, result |-> "none"]
Done(o, v, r) == [op |-> o, phase |-> "done", val |-> v, result |-> r]

TypeOK ==
  /\ closed_flag \in BOOLEAN
  /\ buf \in Seq(Values)
  /\ parked_send \in Seq(Values)
  /\ parked_recv \in Seq(Callers)
  /\ call \in [Callers -> [op : Ops, phase : Phases, val : 0 .. MaxSends, result : Results]]
  /\ sends \in 0 .. MaxSends
  /\ received \in Seq(Values)
  /\ broken \in BOOLEAN

Init ==
  /\ closed_flag = FALSE
  /\ buf = <<>>
  /\ parked_send = <<>>
  /\ parked_recv = <<>>
  /\ call = [a \in Callers |-> Idle]
  /\ sends = 0
  /\ received = <<>>
  /\ broken = FALSE

\* The caller starts an operation: it is in no other.
Ready(a) == call[a].phase = "idle"

\* The caller takes the next value to send.
NextValue == sends + 1
TakesValue == sends < MaxSends /\ sends' = NextValue

\* A parked sender's awaitable that still waits, and one that is not
\* destroyed, its caller not having left the call.
Waiting(v) == \E p \in Callers : call[p] = Blocked("send", v)
Alive(v) == \E p \in Callers : call[p].op = "send" /\ call[p].val = v
SenderOf(v) == CHOOSE p \in Callers : call[p].op = "send" /\ call[p].val = v

\* Mutant: close() empties the list of receivers and resumes none.
Mut_CloseCalls ==
  [p \in Callers |->
     IF \E v \in ToSet(parked_send) : call[p] = Blocked("send", v)
     THEN Done("send", call[p].val, "closed")
     ELSE call[p]]

\* interface::close() of the implementations that park: every parked
\* awaitable is resumed with no memory, so that its operation fails.
CloseCalls ==
  [p \in Callers |->
     IF p \in ToSet(parked_recv) THEN Done("recv", 0, "closed")
     ELSE IF \E v \in ToSet(parked_send) : call[p] = Blocked("send", v)
          THEN Done("send", call[p].val, "closed")
          ELSE call[p]]

Close(a) ==
  /\ Ready(a)
  /\ ~closed_flag
  /\ closed_flag' = TRUE
  /\ call' = CloseCalls
  /\ broken' = (\E v \in ToSet(parked_send) : ~Alive(v))
  /\ parked_send' = <<>>
  /\ parked_recv' = <<>>
  /\ UNCHANGED <<buf, sends, received>>

\* The call returns its result and the awaitable is destroyed.
Return(a) ==
  /\ call[a].phase = "done"
  /\ call' = [call EXCEPT ![a] = Idle]
  /\ UNCHANGED <<closed_flag, buf, parked_send, parked_recv, sends, received, broken>>

\* The operation completes at once and moves nothing.
Answer(a, o, v, r) ==
  /\ call' = [call EXCEPT ![a] = Done(o, v, r)]
  /\ UNCHANGED <<closed_flag, buf, parked_send, parked_recv, received, broken>>

\* The operation suspends, its awaitable at the back of its list.
ParkSender(a, v) ==
  /\ call' = [call EXCEPT ![a] = Blocked("send", v)]
  /\ parked_send' = Append(parked_send, v)
  /\ UNCHANGED <<closed_flag, buf, parked_recv, received, broken>>

ParkReceiver(a) ==
  /\ call' = [call EXCEPT ![a] = Blocked("recv", 0)]
  /\ parked_recv' = Append(parked_recv, a)
  /\ UNCHANGED <<closed_flag, buf, parked_send, sends, received, broken>>
=============================================================================
