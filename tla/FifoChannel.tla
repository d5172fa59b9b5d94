----------------------------- MODULE FifoChannel -----------------------------
(***************************************************************************)
(* What hce::channel::interface promises whatever the implementation: the  *)
(* values in a channel stand in one line, each is received at most once    *)
(* and in the order of the line, a closed channel accepts none, and        *)
(* closing takes away no more than the end of the line.                    *)
(***************************************************************************)
EXTENDS Naturals, Sequences, SequencesExt

VARIABLES
  open,   \* whether close() was not called yet
  line,   \* the values stored or offered by a parked sender
  got,    \* the values received
  broken  \* the code left its contract, and nothing is promised any more

vars == <<open, line, got, broken>>

Init == open = TRUE /\ line = <<>> /\ got = <<>> /\ broken = FALSE

\* A value the channel has never had comes in at the end of the line.
Arrive ==
  /\ open
  /\ Len(line') = Len(line) + 1
  /\ IsPrefix(line, line')
  /\ Last(line') \notin ToSet(line) \cup ToSet(got)
  /\ UNCHANGED <<open, got, broken>>

\* The first value of the line is received.
Leave ==
  /\ line # <<>>
  /\ got' = Append(got, Head(line))
  /\ line' = Tail(line)
  /\ UNCHANGED <<open, broken>>

\* A value goes from its sender straight to a receiver: nobody is in line.
Pass ==
  /\ open
  /\ line = <<>>
  /\ Len(got') = Len(got) + 1
  /\ IsPrefix(got, got')
  /\ Last(got') \notin ToSet(got)
  /\ UNCHANGED <<open, line, broken>>

\* Closing withdraws the offers that are not stored yet.
Shut ==
  /\ open
  /\ open' = FALSE
  /\ IsPrefix(line', line)
  /\ UNCHANGED <<got, broken>>

Break == broken' = TRUE

Next == ~broken /\ (Arrive \/ Leave \/ Pass \/ Shut \/ Break)

Spec == Init /\ [][Next]_vars
=============================================================================
