------------------------------ MODULE Threadpool ------------------------------
(***************************************************************************)
(* hce::threadpool::service and its default algorithm, lightest(): pick    *)
(* the scheduler with the fewest coroutines, by asking one after the other *)
(* from a start index that each thread rotates for itself.                 *)
(*                                                                         *)
(* scheduled_count() takes the lock of one scheduler, so every reading is  *)
(* a step; between two readings the counts change.                         *)
(***************************************************************************)
EXTENDS PoolBounds

CONSTANT Callers  \* threads that schedule on the pool, schedulers' own included

VARIABLES
  worker_count,              \* schedulers().size()
  scheduled_count,           \* of each scheduler
  tl_rotatable_start_index,  \* of each caller
  pass,                      \* which loop of lightest() a caller is in
  starting_index, index, lightest_scheduler, lightest_workload,  \* its locals
  seen,                      \* history: the readings of its call
  shrunk,                    \* history: a pool was replaced by a smaller one
  overrun                    \* schedulers was indexed beyond its end

locals == <<pass, starting_index, index, lightest_scheduler, lightest_workload, seen>>
vars == <<worker_count, scheduled_count, tl_rotatable_start_index, locals, shrunk, overrun>>

Passes == {"idle", "first", "second", "chosen"}
Indices == 0 .. MaxWorkers - 1
Loads == 0 .. MaxLoad

TypeOK ==
  /\ worker_count \in 1 .. MaxWorkers
  /\ scheduled_count \in [Indices -> Loads]
  /\ pass \in [Callers -> Passes]
  /\ {tl_rotatable_start_index, starting_index, index, lightest_scheduler}
       \subseteq [Callers -> Indices]
  /\ lightest_workload \in [Callers -> Loads]
  /\ seen \in [Callers -> SUBSET (Indices \X Loads)]
  /\ {shrunk, overrun} \subseteq BOOLEAN

Init ==
  /\ worker_count \in 1 .. MaxWorkers
  /\ scheduled_count = [i \in Indices |-> 0]
  /\ tl_rotatable_start_index = [c \in Callers |-> 0]
  /\ pass = [c \in Callers |-> "idle"]
  /\ starting_index = [c \in Callers |-> 0]
  /\ index = [c \in Callers |-> 0]
  /\ lightest_scheduler = [c \in Callers |-> 0]
  /\ lightest_workload = [c \in Callers |-> 0]
  /\ seen = [c \in Callers |-> {}]
  /\ shrunk = FALSE
  /\ overrun = FALSE

-----------------------------------------------------------------------------
Mut_Rotated(i) == IF i < worker_count THEN i + 1 ELSE 0

Rotated(i) == IF i < worker_count - 1 THEN i + 1 ELSE 0

\* The scan ends with an idle scheduler.
Choose(c) ==
  /\ pass' = [pass EXCEPT ![c] = "chosen"]
  /\ UNCHANGED index

\* Where the loops go after index i: to the end, then from 0 to the start.
Advance(c, p, i, start) ==
  \/ /\ i + 1 < (IF p = "first" THEN worker_count ELSE start)
     /\ index' = [index EXCEPT ![c] = i + 1]
     /\ pass' = [pass EXCEPT ![c] = p]
  \/ /\ p = "first" /\ i + 1 = worker_count /\ start > 0
     /\ index' = [index EXCEPT ![c] = 0]
     /\ pass' = [pass EXCEPT ![c] = "second"]
  \/ /\ IF p = "first" THEN i + 1 = worker_count /\ start = 0 ELSE i + 1 = start
     /\ Choose(c)

See(c, i, old) == seen' = [seen EXCEPT ![c] = old \cup {<<i, scheduled_count[i]>>}]

\* A call: the start index moves on for the next one, and the scheduler at the
\* old one is read.  The index is compared with the size only to rotate it.
Begin(c) ==
  LET start == tl_rotatable_start_index[c] IN
    /\ pass[c] = "idle"
    /\ tl_rotatable_start_index' = [tl_rotatable_start_index EXCEPT ![c] = Rotated(start)]
    /\ \/ start >= worker_count /\ overrun' = TRUE /\ UNCHANGED locals
       \/ /\ start < worker_count
          /\ starting_index' = [starting_index EXCEPT ![c] = start]
          /\ lightest_scheduler' = [lightest_scheduler EXCEPT ![c] = start]
          /\ lightest_workload' = [lightest_workload EXCEPT ![c] = scheduled_count[start]]
          /\ See(c, start, {})
          /\ IF scheduled_count[start] = 0 \/ worker_count = 1
               THEN Choose(c)
               ELSE Advance(c, "first", start, start)
          /\ UNCHANGED overrun
    /\ UNCHANGED <<worker_count, scheduled_count, shrunk>>

Mut_IterateWorkloads(c) ==
  LET i == index[c]
      load == scheduled_count[i]
  IN /\ pass[c] \in {"first", "second"}
     /\ See(c, i, seen[c])
     /\ lightest_scheduler' = [lightest_scheduler EXCEPT ![c] = IF load < lightest_workload[c] THEN i ELSE @]
     /\ lightest_workload' = [lightest_workload EXCEPT ![c] = load]
     /\ IF load = 0 THEN Choose(c) ELSE Advance(c, pass[c], i, starting_index[c])
     /\ UNCHANGED <<worker_count, scheduled_count, tl_rotatable_start_index, starting_index,
                    shrunk, overrun>>

\* One turn of iterate_workloads.
IterateWorkloads(c) ==
  LET i == index[c]
      load == scheduled_count[i]
      lighter == load < lightest_workload[c]
  IN /\ pass[c] \in {"first", "second"}
     /\ See(c, i, seen[c])
     /\ lightest_scheduler' = [lightest_scheduler EXCEPT ![c] = IF lighter THEN i ELSE @]
     /\ lightest_workload' = [lightest_workload EXCEPT ![c] = IF lighter THEN load ELSE @]
     /\ IF load = 0 THEN Choose(c) ELSE Advance(c, pass[c], i, starting_index[c])
     /\ UNCHANGED <<worker_count, scheduled_count, tl_rotatable_start_index, starting_index,
                    shrunk, overrun>>

\* threadpool::schedule(): the coroutine goes to the scheduler that was picked.
Schedule(c) ==
  /\ pass[c] = "chosen"
  /\ scheduled_count[lightest_scheduler[c]] < MaxLoad
  /\ scheduled_count' = [scheduled_count EXCEPT ![lightest_scheduler[c]] = @ + 1]
  /\ pass' = [pass EXCEPT ![c] = "idle"]
  /\ UNCHANGED <<worker_count, tl_rotatable_start_index, starting_index, index,
                 lightest_scheduler, lightest_workload, seen, shrunk, overrun>>

\* Coroutines are scheduled and resumed by others, suspend and return.
CountChanges(i) ==
  /\ i < worker_count
  /\ \E n \in Loads :
       /\ n = scheduled_count[i] + 1 \/ n + 1 = scheduled_count[i]
       /\ scheduled_count' = [scheduled_count EXCEPT ![i] = n]
  /\ UNCHANGED <<worker_count, tl_rotatable_start_index, locals, shrunk, overrun>>

\* The framework is shut down and initialized again with another count; the
\* thread_local indices are what they were.
Restart(n) ==
  /\ \A c \in Callers : pass[c] = "idle"
  /\ n # worker_count
  /\ worker_count' = n
  /\ scheduled_count' = [i \in Indices |-> 0]
  /\ shrunk' = (shrunk \/ n < worker_count)
  /\ UNCHANGED <<tl_rotatable_start_index, locals, overrun>>

\* What happens after an undefined step is not modelled.
Next ==
  /\ ~overrun
  /\ \/ \E c \in Callers : Begin(c) \/ IterateWorkloads(c) \/ Schedule(c)
     \/ \E i \in Indices : CountChanges(i)
     \/ \E n \in 1 .. MaxWorkers : Restart(n)

Spec == Init /\ [][Next]_vars

-----------------------------------------------------------------------------
(* Properties.                                                             *)

\* lightest() is best effort, but not arbitrary: what it picks had, when it was
\* asked, no more coroutines than any other when that was asked, and it was
\* idle or every scheduler of the pool was asked.
ChosenIsLightest ==
  \A c \in Callers : pass[c] = "chosen" =>
    /\ <<lightest_scheduler[c], lightest_workload[c]>> \in seen[c]
    /\ \A r \in seen[c] : lightest_workload[c] <= r[2]
    /\ \/ lightest_workload[c] = 0
       \/ \A i \in 0 .. worker_count - 1 : \E r \in seen[c] : r[1] = i

\* The schedulers are never indexed beyond their end, unless the thread has an
\* index from before a restart with a smaller pool.
IndexInRange ==
  ~shrunk =>
    /\ ~overrun
    /\ \A c \in Callers : tl_rotatable_start_index[c] < worker_count
=============================================================================
