--------------------------------- MODULE Chan ---------------------------------
(***************************************************************************)
(* hce::chan<T>: one channel, of the implementation chan::construct()      *)
(* chose, and the callers that use it.                                     *)
(***************************************************************************)
EXTENDS ChannelCalls

VARIABLE kind  \* the implementation

U == INSTANCE Unbuffered
B == INSTANCE Buffered
L == INSTANCE Unlimited

ChanVars == <<kind, vars>>

ChanInit == Init /\ kind \in {"unbuffered", "buffered", "unlimited"}

\* What happens after an undefined step is not modelled.
ChanNext ==
  /\ ~broken
  /\ \/ kind = "unbuffered" /\ U!Next
     \/ kind = "buffered" /\ B!Next
     \/ kind = "unlimited" /\ L!Next
  /\ UNCHANGED kind

Spec == ChanInit /\ [][ChanNext]_ChanVars

-----------------------------------------------------------------------------
(* Safety *)

Finished(p, ops, r) == call[p].phase = "done" /\ call[p].op \in ops /\ call[p].result = r

\* Every variable has its type, and a buffered channel never holds more than
\* the size it was constructed with.
Typed == TypeOK /\ (kind = "buffered" => Len(buf) <= Capacity)

\* A caller is told the truth: a send succeeds exactly when its value is in
\* the buffer or with a receiver, a receive that succeeds brings a value, and
\* an operation answers "closed" only on a closed channel with, for a
\* receive, nothing left to receive.
ResultIsTruth ==
  ~broken =>
    \A p \in Callers :
      /\ call[p].phase = "done" /\ call[p].op \in {"send", "try_send"} =>
           (call[p].result = "success" <=> call[p].val \in ToSet(received \o buf))
      /\ Finished(p, {"recv", "try_recv"}, "success") => call[p].val \in ToSet(received)
      /\ Finished(p, Ops, "closed") => closed_flag
      /\ Finished(p, {"recv", "try_recv"}, "closed") => buf = <<>>

\* A suspended caller is in the list that resumes it, in a list whose other
\* entries the channel still serves.  A send on a closed buffered channel is
\* the exception, which EverybodyReleased shows.
WaitersListed ==
  ~broken =>
    \A p \in Callers :
      call[p].phase = "blocked" =>
        \/ call[p].op = "recv" /\ p \in ToSet(parked_recv) /\ ~closed_flag
        \/ call[p].op = "send" /\ call[p].val \in ToSet(parked_send) /\ ~closed_flag
        \/ call[p].op = "send" /\ kind = "buffered" /\ closed_flag

\* Nobody waits for what is there: a receiver is parked only while there is
\* neither a value nor a sender, a sender only while the buffer is full, and
\* nobody at all on a closed channel.
NoIdlePair ==
  ~broken =>
    /\ parked_recv # <<>> => buf = <<>> /\ parked_send = <<>> /\ ~closed_flag
    /\ parked_send # <<>> => ~closed_flag /\ (kind = "buffered" => Len(buf) = Capacity)

-----------------------------------------------------------------------------
(* The contract of a channel *)

\* What parked senders still offer: unbuffered::try_recv() leaves the sender that
\* it has resumed at the front of their list.
Offers ==
  IF parked_send # <<>> /\ ~Waiting(Head(parked_send)) THEN Tail(parked_send) ELSE parked_send

Line == buf \o Offers

Contract ==
  INSTANCE FifoChannel WITH
    open <- ~closed_flag,
    line <- Line,
    got <- received

\* Every implementation is a first-in first-out channel.
ImplementsFifo == Contract!Spec

-----------------------------------------------------------------------------
(* What the documentation says and the code does not do *)

\* A value is received at most once: a channel is a "direct point to point"
\* transfer.  unbuffered::try_recv() leaves the sender it has resumed in
\* parked_send_, where the next receive finds it again.
AtMostOnce == IsInjective(received)

\* Nobody stays suspended on a closed channel.  buffered's send() answers "not
\* ready" on a closed channel and parks nowhere.
EverybodyReleased == closed_flag => \A p \in Callers : call[p].phase # "blocked"
=============================================================================
