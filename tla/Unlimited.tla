------------------------------ MODULE Unlimited ------------------------------
(***************************************************************************)
(* hce::channel::unlimited: a list of values without a bound; only         *)
(* receivers ever park.                                                    *)
(***************************************************************************)
EXTENDS ChannelCalls

\* The value enters the queue, and leaves it again for a parked receiver.
Store(a, o, v) ==
  \/ /\ parked_recv = <<>>
     /\ buf' = Append(buf, v)
     /\ call' = [call EXCEPT ![a] = Done(o, v, "success")]
     /\ UNCHANGED <<parked_recv, received>>
  \/ /\ parked_recv # <<>>
     /\ LET filled == Append(buf, v)
        IN /\ buf' = Tail(filled)
           /\ received' = Append(received, Head(filled))
           /\ call' = [call EXCEPT ![a] = Done(o, v, "success"),
                                   ![Head(parked_recv)] = Done("recv", Head(filled), "success")]
     /\ parked_recv' = Tail(parked_recv)

Take(a, o) ==
  /\ received' = Append(received, Head(buf))
  /\ buf' = Tail(buf)
  /\ call' = [call EXCEPT ![a] = Done(o, Head(buf), "success")]

SendAs(a, o) ==
  /\ Ready(a)
  /\ TakesValue
  /\ \/ closed_flag /\ Answer(a, o, NextValue, "closed")
     \/ /\ ~closed_flag
        /\ Store(a, o, NextValue)
        /\ UNCHANGED <<closed_flag, parked_send, broken>>

Send(a) == SendAs(a, "send")
TrySend(a) == SendAs(a, "try_send")

Recv(a) ==
  /\ Ready(a)
  /\ UNCHANGED sends
  /\ \/ buf = <<>> /\ closed_flag /\ Answer(a, "recv", 0, "closed")
     \/ buf = <<>> /\ ~closed_flag /\ ParkReceiver(a)
     \/ buf # <<>> /\ Take(a, "recv")
        /\ UNCHANGED <<closed_flag, parked_send, parked_recv, broken>>

TryRecv(a) ==
  /\ Ready(a)
  /\ UNCHANGED sends
  /\ \/ buf = <<>> /\ Answer(a, "try_recv", 0, IF closed_flag THEN "closed" ELSE "failure")
     \/ buf # <<>> /\ Take(a, "try_recv")
        /\ UNCHANGED <<closed_flag, parked_send, parked_recv, broken>>

Next ==
  \E a \in Callers :
    Send(a) \/ Recv(a) \/ TrySend(a) \/ TryRecv(a) \/ Close(a) \/ Return(a)
=============================================================================
