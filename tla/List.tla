--------------------------------- MODULE List ---------------------------------
(***************************************************************************)
(* hce::list with its pool_allocator: nodes linked through next, a head, a *)
(* tail and a size, and a pool of the nodes the list has freed, which may  *)
(* have come from another list.  Under the pools is the memory cache.      *)
(***************************************************************************)
EXTENDS Naturals, Sequences, SequencesExt, FiniteSets

CONSTANTS
  Lists, Nodes, Values,
  PoolLimit,  \* pool_allocator::block_limit_
  NULL        \* no node

VARIABLES
  head_, tail_, size_,
  pool_,  \* the pool of each list's allocator
  next,   \* node::next
  value,  \* node::value
  heap    \* the nodes that are with the memory cache

vars == <<head_, tail_, size_, pool_, next, value, heap>>

Init ==
  /\ head_ = [l \in Lists |-> NULL]
  /\ tail_ = [l \in Lists |-> NULL]
  /\ size_ = [l \in Lists |-> 0]
  /\ pool_ = [l \in Lists |-> <<>>]
  /\ next = [n \in Nodes |-> NULL]
  /\ value = [n \in Nodes |-> NULL]
  /\ heap = Nodes

-----------------------------------------------------------------------------
(* pool_allocator, for one node.                                           *)

Allocate(l, n) ==
  IF pool_[l] # <<>>
    THEN n = Last(pool_[l]) /\ pool_' = [pool_ EXCEPT ![l] = Front(@)] /\ heap' = heap
    ELSE n \in heap /\ heap' = heap \ {n} /\ pool_' = pool_

Deallocate(l, n) ==
  IF Len(pool_[l]) < PoolLimit
    THEN pool_' = [pool_ EXCEPT ![l] = Append(@, n)] /\ heap' = heap
    ELSE heap' = heap \cup {n} /\ pool_' = pool_

-----------------------------------------------------------------------------
(* The operations of a list.                                               *)

\* The i-th node on the way from head_, NULL behind the last.
Nth(l, i) ==
  LET node[k \in Nat \ {0}] ==
        IF k = 1 THEN head_[l]
        ELSE IF node[k - 1] = NULL THEN NULL ELSE next[node[k - 1]]
  IN node[i]

New(l, n, v) ==
  /\ Allocate(l, n)
  /\ value' = [value EXCEPT ![n] = v]
  /\ size_' = [size_ EXCEPT ![l] = @ + 1]

\* The fields of an empty list are set, whatever they were.
FirstNode(l, n) ==
  /\ head_' = [head_ EXCEPT ![l] = n]
  /\ tail_' = [tail_ EXCEPT ![l] = n]
  /\ next' = [next EXCEPT ![n] = NULL]

Mut_emplace_back(l, n, v) ==
  /\ New(l, n, v)
  /\ IF size_[l] = 0
       THEN FirstNode(l, n)
       ELSE /\ next' = [next EXCEPT ![n] = head_[l]]
            /\ head_' = [head_ EXCEPT ![l] = n]
            /\ tail_' = tail_

emplace_back(l, n, v) ==
  /\ New(l, n, v)
  /\ IF size_[l] = 0
       THEN FirstNode(l, n)
       ELSE /\ next' = [next EXCEPT ![tail_[l]] = n, ![n] = NULL]
            /\ tail_' = [tail_ EXCEPT ![l] = n]
            /\ head_' = head_

emplace_front(l, n, v) ==
  /\ New(l, n, v)
  /\ IF size_[l] = 0
       THEN FirstNode(l, n)
       ELSE /\ next' = [next EXCEPT ![n] = head_[l]]
            /\ head_' = [head_ EXCEPT ![l] = n]
            /\ tail_' = tail_

\* The caller has seen that the list is not empty.  The tail is left as it is.
pop(l) ==
  /\ size_[l] > 0
  /\ head_' = [head_ EXCEPT ![l] = next[@]]
  /\ size_' = [size_ EXCEPT ![l] = @ - 1]
  /\ Deallocate(l, head_[l])
  /\ UNCHANGED <<tail_, next, value>>

Swapped(f, l, r) == [f EXCEPT ![l] = f[r], ![r] = f[l]]

\* Nothing happens when r is empty.  When l is, the lists trade all but their
\* allocators: nodes are freed into the pool of the list they end in.
concatenate(l, r) ==
  /\ size_[r] > 0
  /\ IF size_[l] > 0
       THEN /\ next' = [next EXCEPT ![tail_[l]] = head_[r]]
            /\ tail_' = [tail_ EXCEPT ![l] = tail_[r], ![r] = NULL]
            /\ head_' = [head_ EXCEPT ![r] = NULL]
            /\ size_' = [size_ EXCEPT ![l] = @ + size_[r], ![r] = 0]
       ELSE /\ head_' = Swapped(head_, l, r)
            /\ tail_' = Swapped(tail_, l, r)
            /\ size_' = Swapped(size_, l, r)
            /\ next' = next
  /\ UNCHANGED <<pool_, value, heap>>

\* The move assignment trades the allocators too.
move_(l, r) ==
  /\ head_' = Swapped(head_, l, r)
  /\ tail_' = Swapped(tail_, l, r)
  /\ size_' = Swapped(size_, l, r)
  /\ pool_' = Swapped(pool_, l, r)
  /\ UNCHANGED <<next, value, heap>>

\* The list is destroyed, with its allocator, and another one constructed.
\* The destructor frees what it finds from head_ on, not size_ nodes.
renew(l) ==
  /\ heap' = heap \cup ToSet(pool_[l]) \cup ({Nth(l, i) : i \in 1 .. Cardinality(Nodes)} \ {NULL})
  /\ head_' = [head_ EXCEPT ![l] = NULL]
  /\ tail_' = [tail_ EXCEPT ![l] = NULL]
  /\ size_' = [size_ EXCEPT ![l] = 0]
  /\ pool_' = [pool_ EXCEPT ![l] = <<>>]
  /\ UNCHANGED <<next, value>>

Next ==
  \/ \E l \in Lists, n \in Nodes, v \in Values : emplace_back(l, n, v) \/ emplace_front(l, n, v)
  \/ \E l \in Lists : pop(l) \/ renew(l)
  \/ \E l \in Lists, r \in Lists : l # r /\ (concatenate(l, r) \/ move_(l, r))

Spec == Init /\ [][Next]_vars

-----------------------------------------------------------------------------
(* Properties.                                                             *)

Content(l) == [i \in 1 .. size_[l] |-> IF Nth(l, i) = NULL THEN NULL ELSE value[Nth(l, i)]]

Contract == INSTANCE SequenceContract WITH
  Containers <- Lists, content <- [l \in Lists |-> Content(l)]

\* What each operation that changes anything does to the sequences.
Promised ==
  vars' # vars =>
    /\ \A l \in Lists, n \in Nodes, v \in Values :
         /\ emplace_back(l, n, v) => Contract!PushBack(l, v)
         /\ emplace_front(l, n, v) => Contract!PushFront(l, v)
    /\ \A l \in Lists : (pop(l) => Contract!Pop(l)) /\ (renew(l) => Contract!Clear(l))
    /\ \A l \in Lists : \A r \in Lists \ {l} :
         /\ concatenate(l, r) => Contract!Concatenate(l, r)
         /\ move_(l, r) => Contract!Swap(l, r)

\* Following the pointers gives a sequence, and every operation does to it what
\* its name says and nothing to the others, whatever nodes the lists have traded
\* or reused.
ImplementsSequences == Contract!Spec /\ [][Promised]_vars

\* Whose a node is.
Places(n) ==
  (UNION {{<<"list", l, i>> : i \in {i \in 1 .. size_[l] : Nth(l, i) = n}} : l \in Lists})
  \cup (UNION {{<<"pool", l, i>> : i \in {i \in DOMAIN pool_[l] : pool_[l][i] = n}} : l \in Lists})
  \cup {<<"heap">> : m \in heap \cap {n}}

\* Every node is in one place: in one list once, in one pool once, or with the
\* memory cache.  None is leaked, freed twice, or freed while it is linked; the
\* last node of a list is its tail; and the destructor, which goes by the
\* pointers, finds the nodes of the list and no others.
NodesOwned ==
  /\ \A n \in Nodes : \E p \in Places(n) : Places(n) = {p}
  /\ \A l \in Lists :
       /\ Nth(l, size_[l] + 1) = NULL
       /\ size_[l] > 0 => Nth(l, size_[l]) = tail_[l]
=============================================================================
