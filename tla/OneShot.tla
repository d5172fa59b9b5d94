-------------------------------- MODULE OneShot --------------------------------
(***************************************************************************)
(* What hce::awaitable promises whoever awaits: the operation behind an    *)
(* awaitable is completed at most once and while the awaitable exists; the *)
(* await returns only when the operation is complete, and returns then.    *)
(***************************************************************************)
CONSTANT Awaiters

VARIABLE stage  \* how far the present awaitable of each awaiter is

Init == stage = [a \in Awaiters |-> "none"]

Go(a, from, to) == stage[a] \in from /\ stage' = [stage EXCEPT ![a] = to]

\* Some operations are complete when they return their awaitable.
Make(a) == \E s \in {"pending", "complete"} : Go(a, {"none"}, s)

\* To await may be what completes the operation.
Pass(a) == Go(a, {"pending", "complete"}, "over")

Await(a) == Go(a, {"pending"}, "awaited")

Complete(a) == Go(a, {"pending"}, "complete") \/ Go(a, {"awaited"}, "due")

Return(a) == Go(a, {"due"}, "over")

Forget(a) == Go(a, {"over"}, "none")

Next ==
  \E a \in Awaiters :
    Make(a) \/ Pass(a) \/ Await(a) \/ Complete(a) \/ Return(a) \/ Forget(a)

Steps == Init /\ [][Next]_stage

Spec == Steps /\ \A a \in Awaiters : WF_stage(Return(a))
=============================================================================
