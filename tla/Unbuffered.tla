------------------------------ MODULE Unbuffered ------------------------------
(***************************************************************************)
(* hce::channel::unbuffered: a value goes from a sender to a receiver with *)
(* nothing in between, and whoever comes first parks.                      *)
(***************************************************************************)
EXTENDS ChannelCalls

\* A value goes straight to the receiver that has been parked the longest.
HandOver(a, o, v) ==
  /\ call' = [call EXCEPT ![a] = Done(o, v, "success"),
                          ![Head(parked_recv)] = Done("recv", v, "success")]
  /\ parked_recv' = Tail(parked_recv)
  /\ received' = Append(received, v)
  /\ UNCHANGED <<closed_flag, buf, parked_send, broken>>

\* Mutant: send() on a closed channel is reported as a success.
Mut_SendClosedSucceeds(a) ==
  /\ Ready(a)
  /\ TakesValue
  /\ \/ closed_flag /\ Answer(a, "send", NextValue, "success")
     \/ ~closed_flag /\ parked_recv # <<>> /\ HandOver(a, "send", NextValue)
     \/ ~closed_flag /\ parked_recv = <<>> /\ ParkSender(a, NextValue)

Send(a) ==
  /\ Ready(a)
  /\ TakesValue
  /\ \/ closed_flag /\ Answer(a, "send", NextValue, "closed")
     \/ ~closed_flag /\ parked_recv # <<>> /\ HandOver(a, "send", NextValue)
     \/ ~closed_flag /\ parked_recv = <<>> /\ ParkSender(a, NextValue)

\* parked_send_.front()->resume(destination): the sender's on_resume() copies
\* its value to the destination.  An awaitable that was resumed before copies
\* it once more; what happens with a destroyed one is undefined.
ResumeSender(a, o, v) ==
  \/ /\ Waiting(v)
     /\ call' = [call EXCEPT ![a] = Done(o, v, "success"),
                             ![SenderOf(v)] = Done("send", v, "success")]
     /\ received' = Append(received, v)
     /\ UNCHANGED broken
  \/ /\ ~Waiting(v) /\ Alive(v)
     /\ call' = [call EXCEPT ![a] = Done(o, v, "success")]
     /\ received' = Append(received, v)
     /\ broken' = TRUE
  \/ /\ ~Alive(v)
     /\ broken' = TRUE
     /\ UNCHANGED <<call, received>>

\* Mutant: the sender parked last is served first.
Mut_RecvLast(a) ==
  /\ Ready(a)
  /\ \/ closed_flag /\ Answer(a, "recv", 0, "closed") /\ UNCHANGED sends
     \/ /\ ~closed_flag /\ parked_send # <<>>
        /\ ResumeSender(a, "recv", Last(parked_send))
        /\ parked_send' = Front(parked_send)
        /\ UNCHANGED <<closed_flag, buf, parked_recv, sends>>
     \/ ~closed_flag /\ parked_send = <<>> /\ ParkReceiver(a)

Recv(a) ==
  /\ Ready(a)
  /\ \/ closed_flag /\ Answer(a, "recv", 0, "closed") /\ UNCHANGED sends
     \/ /\ ~closed_flag /\ parked_send # <<>>
        /\ ResumeSender(a, "recv", Head(parked_send))
        /\ parked_send' = Tail(parked_send)
        /\ UNCHANGED <<closed_flag, buf, parked_recv, sends>>
     \/ ~closed_flag /\ parked_send = <<>> /\ ParkReceiver(a)

TrySend(a) ==
  /\ Ready(a)
  /\ TakesValue
  /\ \/ closed_flag /\ Answer(a, "try_send", NextValue, "closed")
     \/ ~closed_flag /\ parked_recv # <<>> /\ HandOver(a, "try_send", NextValue)
     \/ ~closed_flag /\ parked_recv = <<>> /\ Answer(a, "try_send", NextValue, "failure")

\* try_recv() resumes the front sender but leaves it in parked_send_.
TryRecv(a) ==
  /\ Ready(a)
  /\ \/ closed_flag /\ Answer(a, "try_recv", 0, "closed") /\ UNCHANGED sends
     \/ /\ ~closed_flag /\ parked_send # <<>>
        /\ ResumeSender(a, "try_recv", Head(parked_send))
        /\ UNCHANGED <<closed_flag, buf, parked_send, parked_recv, sends>>
     \/ ~closed_flag /\ parked_send = <<>> /\ Answer(a, "try_recv", 0, "failure") /\ UNCHANGED sends

Next ==
  \E a \in Callers :
    Send(a) \/ Recv(a) \/ TrySend(a) \/ TryRecv(a) \/ Close(a) \/ Return(a)
=============================================================================
