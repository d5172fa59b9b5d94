---------------------------- MODULE CircularBuffer ----------------------------
(***************************************************************************)
(* hce::circular_buffer: an array with the indices of its front and of the *)
(* place behind its back.  Its users see to it that they never push to a   *)
(* full buffer or pop an empty one.                                        *)
(***************************************************************************)
EXTENDS Naturals, Sequences

CONSTANTS
  Buffers, Values,
  Sizes,  \* the sizes that buffers are constructed with
  NULL    \* memory without an element

VARIABLES size_, buffer_, front_idx_, back_idx_, used_

vars == <<size_, buffer_, front_idx_, back_idx_, used_>>

Init ==
  /\ size_ \in [Buffers -> Sizes]
  /\ buffer_ = [b \in Buffers |-> [i \in 0 .. size_[b] - 1 |-> NULL]]
  /\ front_idx_ = [b \in Buffers |-> 0]
  /\ back_idx_ = [b \in Buffers |-> 0]
  /\ used_ = [b \in Buffers |-> 0]

empty(b) == used_[b] = 0
full(b) == used_[b] = size_[b]

After(b, i) == (i + 1) % size_[b]

emplace(b, v) ==
  /\ ~full(b)
  /\ buffer_' = [buffer_ EXCEPT ![b][back_idx_[b]] = v]
  /\ back_idx_' = [back_idx_ EXCEPT ![b] = After(b, @)]
  /\ used_' = [used_ EXCEPT ![b] = @ + 1]
  /\ UNCHANGED <<size_, front_idx_>>

pop(b) ==
  /\ ~empty(b)
  /\ buffer_' = [buffer_ EXCEPT ![b][front_idx_[b]] = NULL]
  /\ front_idx_' = [front_idx_ EXCEPT ![b] = After(b, @)]
  /\ used_' = [used_ EXCEPT ![b] = @ - 1]
  /\ UNCHANGED <<size_, back_idx_>>

Swapped(f, b, c) == [f EXCEPT ![b] = f[c], ![c] = f[b]]

\* The move assignment.
swap_(b, c) ==
  /\ size_' = Swapped(size_, b, c)
  /\ buffer_' = Swapped(buffer_, b, c)
  /\ front_idx_' = Swapped(front_idx_, b, c)
  /\ back_idx_' = Swapped(back_idx_, b, c)
  /\ used_' = Swapped(used_, b, c)

\* The buffer is destroyed, and another one constructed.
renew(b, size) ==
  /\ size_' = [size_ EXCEPT ![b] = size]
  /\ buffer_' = [buffer_ EXCEPT ![b] = [i \in 0 .. size - 1 |-> NULL]]
  /\ front_idx_' = [front_idx_ EXCEPT ![b] = 0]
  /\ back_idx_' = [back_idx_ EXCEPT ![b] = 0]
  /\ used_' = [used_ EXCEPT ![b] = 0]

Next ==
  \/ \E b \in Buffers : pop(b) \/ \E v \in Values : emplace(b, v)
  \/ \E b \in Buffers, size \in Sizes : renew(b, size)
  \/ \E b \in Buffers, c \in Buffers : b # c /\ swap_(b, c)

Spec == Init /\ [][Next]_vars

-----------------------------------------------------------------------------
(* Properties.                                                             *)

\* The elements from the front on.
Content(b) == [i \in 1 .. used_[b] |-> buffer_[b][(front_idx_[b] + i - 1) % size_[b]]]

Contract == INSTANCE SequenceContract WITH
  Containers <- Buffers, content <- [b \in Buffers |-> Content(b)]

\* What each operation that changes anything does to the sequences.
Promised ==
  vars' # vars =>
    /\ \A b \in Buffers :
         /\ \A v \in Values : emplace(b, v) => Contract!PushBack(b, v)
         /\ pop(b) => Contract!Pop(b)
         /\ \A size \in Sizes : renew(b, size) => Contract!Clear(b)
    /\ \A b \in Buffers : \A c \in Buffers \ {b} : swap_(b, c) => Contract!Swap(b, c)

\* The buffer is a sequence that is pushed at the back, popped at the front and
\* never longer than the size it was constructed with, whatever that size is and
\* however often the indices have gone round.
ImplementsSequences ==
  /\ Contract!Spec /\ [][Promised]_vars
  /\ [](\A b \in Buffers : Len(Content(b)) <= size_[b])

\* Elements are destroyed once and none is left in memory behind: exactly the
\* used places hold one, and the next push goes to a place without.
PlacesMatch ==
  \A b \in Buffers :
    /\ \A i \in DOMAIN buffer_[b] :
         buffer_[b][i] # NULL <=> \E k \in 1 .. used_[b] : i = (front_idx_[b] + k - 1) % size_[b]
    /\ ~full(b) => buffer_[b][back_idx_[b]] = NULL
=============================================================================
