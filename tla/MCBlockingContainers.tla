------------------------- MODULE MCBlockingContainers -------------------------
(***************************************************************************)
(* The blocking service and the data structures under it and under the     *)
(* other components, one at a time in one run: the part that is not chosen *)
(* stays as it begins.                                                     *)
(***************************************************************************)
EXTENDS Blocking, Containers, TLC

CONSTANTS t1, t2

\* A thread with room for two of the smallest blocks, and one with more.
Limits == (t1 :> 2) @@ (t2 :> 4)

VARIABLE part

partVars == <<part, vars, containersVars>>

PartInit ==
  /\ part \in {"blocking", "containers"}
  /\ Init /\ ContainersInit
  /\ part = "blocking" => structure = "list"

PartNext ==
  /\ \/ part = "blocking" /\ Next /\ UNCHANGED containersVars
     \/ part = "containers" /\ ContainersNext /\ UNCHANGED vars
  /\ UNCHANGED part

\* What is fair is disabled where a part begins, so it asks nothing of the part
\* that is not chosen.
PartSpec == PartInit /\ [][PartNext]_partVars /\ Fairness /\ S!Fairness
=============================================================================
