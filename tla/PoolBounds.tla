------------------------------ MODULE PoolBounds ------------------------------
(***************************************************************************)
(* The sizes that module Threadpool is parameterised by.                   *)
(***************************************************************************)
EXTENDS Naturals

CONSTANTS
  MaxWorkers,  \* bound: the largest pool
  MaxLoad      \* bound: the most coroutines a scheduler ever has

ASSUME PoolAssumption == MaxWorkers \in Nat \ {0} /\ MaxLoad \in Nat \ {0}
=============================================================================
