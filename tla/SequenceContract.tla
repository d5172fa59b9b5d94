--------------------------- MODULE SequenceContract ---------------------------
(***************************************************************************)
(* What hce::list and hce::circular_buffer stand for in the other modules: *)
(* sequences that are pushed at the back or the front, popped at the       *)
(* front, emptied onto each other and swapped.  Which of these steps an    *)
(* operation takes is said where the operation is (Promised).              *)
(***************************************************************************)
EXTENDS Sequences

CONSTANTS Containers, Values

VARIABLE content

Init == content = [l \in Containers |-> <<>>]

Change(l, s) == content' = [content EXCEPT ![l] = s]

PushBack(l, v) == Change(l, Append(content[l], v))

PushFront(l, v) == Change(l, <<v>> \o content[l])

Pop(l) == content[l] # <<>> /\ Change(l, Tail(content[l]))

\* All values of r go behind those of l.
Concatenate(l, r) ==
  content' = [content EXCEPT ![l] = content[l] \o content[r], ![r] = <<>>]

Clear(l) == Change(l, <<>>)

Swap(l, r) == content' = [content EXCEPT ![l] = content[r], ![r] = content[l]]

Next ==
  \/ \E l \in Containers : Pop(l) \/ Clear(l)
  \/ \E l \in Containers, v \in Values : PushBack(l, v) \/ PushFront(l, v)
  \/ \E l \in Containers, r \in Containers : l # r /\ (Concatenate(l, r) \/ Swap(l, r))

Spec == Init /\ [][Next]_content
=============================================================================
