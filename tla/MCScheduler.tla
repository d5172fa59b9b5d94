----------------------------- MODULE MCScheduler -----------------------------
(* Scheduler on a small instance. *)
EXTENDS Scheduler

Symmetry == Permutations(Schedulers) \cup Permutations(Coros)
=============================================================================
