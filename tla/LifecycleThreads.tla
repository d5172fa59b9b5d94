--------------------------- MODULE LifecycleThreads ---------------------------
(***************************************************************************)
(* The threads that module Lifecycle is parameterised by.                  *)
(***************************************************************************)

CONSTANTS
  Schedulers,  \* lifecycles that can exist at a time, each with its thread
  Users,       \* threads of the program
  TimerThread, WorkerThread,  \* of the timer service; a cached blocking worker
  None

ASSUME ThreadsAssumption ==
  /\ Schedulers \cap Users = {}
  /\ {TimerThread, WorkerThread} \cap (Schedulers \cup Users) = {}
  /\ TimerThread # WorkerThread
  /\ None \notin Schedulers
=============================================================================
