----------------------------- MODULE MCAwaitChan -----------------------------
(***************************************************************************)
(* The await protocol and the channels that are built on it, one at a time *)
(* in one run: the part that is not chosen stays as it begins.             *)
(***************************************************************************)
EXTENDS Awaitable, Chan

VARIABLE part

partVars == <<part, awaitableVars, ChanVars>>

PartInit ==
  /\ part \in {"awaitable", "chan"}
  /\ AwaitableInit /\ ChanInit
  /\ part = "awaitable" => kind = "unbuffered"

PartNext ==
  /\ \/ part = "awaitable" /\ AwaitableNext /\ UNCHANGED ChanVars
     \/ part = "chan" /\ ChanNext /\ UNCHANGED awaitableVars
  /\ UNCHANGED part

\* What is fair is disabled where the await protocol begins.
PartSpec == PartInit /\ [][PartNext]_partVars /\ Fairness
=============================================================================
