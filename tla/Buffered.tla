------------------------------- MODULE Buffered -------------------------------
(***************************************************************************)
(* hce::channel::buffered: a circular buffer of Capacity values; senders   *)
(* park while it is full, receivers while it is empty.                     *)
(***************************************************************************)
EXTENDS ChannelCalls

\* Mutant: the buffer counts as full one value too late.
Mut_Full == Len(buf) > Capacity

Full == Len(buf) = Capacity

\* send() on a closed channel returns false from on_ready() without parking:
\* the caller suspends, and no list knows of it.
StrandSender(a, v) ==
  /\ call' = [call EXCEPT ![a] = Blocked("send", v)]
  /\ UNCHANGED <<closed_flag, buf, parked_send, parked_recv, received, broken>>

\* The value enters the buffer, and leaves it again for a parked receiver.
Store(a, v) ==
  \/ /\ parked_recv = <<>>
     /\ buf' = Append(buf, v)
     /\ call' = [call EXCEPT ![a] = Done("send", v, "success")]
     /\ UNCHANGED <<parked_recv, received>>
  \/ /\ parked_recv # <<>>
     /\ LET filled == Append(buf, v)
        IN /\ buf' = Tail(filled)
           /\ received' = Append(received, Head(filled))
           /\ call' = [call EXCEPT ![a] = Done("send", v, "success"),
                                   ![Head(parked_recv)] = Done("recv", Head(filled), "success")]
     /\ parked_recv' = Tail(parked_recv)

Send(a) ==
  /\ Ready(a)
  /\ TakesValue
  /\ \/ closed_flag /\ StrandSender(a, NextValue)
     \/ ~closed_flag /\ Full /\ ParkSender(a, NextValue)
     \/ /\ ~closed_flag /\ ~Full
        /\ Store(a, NextValue)
        /\ UNCHANGED <<closed_flag, parked_send, broken>>

\* Mutant: the slot a receive frees is not given to a parked sender.
Mut_TakeLeavesSlot(a, o) ==
  /\ received' = Append(received, Head(buf))
  /\ buf' = Tail(buf)
  /\ call' = [call EXCEPT ![a] = Done(o, Head(buf), "success")]
  /\ UNCHANGED parked_send

\* The front value is received, and the sender that has been parked the
\* longest stores its own in the slot that is free now.
Take(a, o) ==
  /\ received' = Append(received, Head(buf))
  /\ \/ /\ parked_send = <<>>
        /\ buf' = Tail(buf)
        /\ call' = [call EXCEPT ![a] = Done(o, Head(buf), "success")]
        /\ UNCHANGED parked_send
     \/ /\ parked_send # <<>>
        /\ buf' = Append(Tail(buf), Head(parked_send))
        /\ call' = [call EXCEPT ![a] = Done(o, Head(buf), "success"),
                                ![SenderOf(Head(parked_send))] =
                                   Done("send", Head(parked_send), "success")]
        /\ parked_send' = Tail(parked_send)

Recv(a) ==
  /\ Ready(a)
  /\ UNCHANGED sends
  /\ \/ buf = <<>> /\ closed_flag /\ Answer(a, "recv", 0, "closed")
     \/ buf = <<>> /\ ~closed_flag /\ ParkReceiver(a)
     \/ buf # <<>> /\ Take(a, "recv") /\ UNCHANGED <<closed_flag, parked_recv, broken>>

\* try_send() hands the buffer itself to a parked receiver, which expects a
\* transfer: the value is stored, and the receiver's resumption is undefined.
TrySend(a) ==
  /\ Ready(a)
  /\ TakesValue
  /\ \/ closed_flag /\ Answer(a, "try_send", NextValue, "closed")
     \/ ~closed_flag /\ Full /\ Answer(a, "try_send", NextValue, "failure")
     \/ /\ ~closed_flag /\ ~Full
        /\ buf' = Append(buf, NextValue)
        /\ broken' = (parked_recv # <<>>)
        /\ call' = [call EXCEPT ![a] = Done("try_send", NextValue, "success")]
        /\ UNCHANGED <<closed_flag, parked_send, parked_recv, received>>

TryRecv(a) ==
  /\ Ready(a)
  /\ UNCHANGED sends
  /\ \/ buf = <<>> /\ Answer(a, "try_recv", 0, IF closed_flag THEN "closed" ELSE "failure")
     \/ buf # <<>> /\ Take(a, "try_recv") /\ UNCHANGED <<closed_flag, parked_recv, broken>>

Next ==
  \E a \in Callers :
    Send(a) \/ Recv(a) \/ TrySend(a) \/ TryRecv(a) \/ Close(a) \/ Return(a)
=============================================================================
