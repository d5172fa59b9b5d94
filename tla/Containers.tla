------------------------------ MODULE Containers ------------------------------
(***************************************************************************)
(* The data structures under the other components, one at a time: the list *)
(* that threads share, the linked list with its pool, the circular buffer  *)
(* and the memory cache.  Those that are not chosen stay as they are       *)
(* constructed.                                                            *)
(***************************************************************************)
EXTENDS Naturals, Sequences, FiniteSets

CONSTANTS
  Callers, Poppers, Values, MaxLength,  \* synchronized_list
  Lists, Nodes, PoolLimit,              \* list
  Buffers, Sizes,                       \* circular_buffer
  Threads, Blocks, Buckets, MaxSize, ByteLimit,  \* memory cache
  Nil

ASSUME NullAssumption == Nil \notin Values \cup Nodes
ASSUME BoundsAssumption ==
  /\ {MaxLength, PoolLimit, Buckets, MaxSize} \cup Sizes \subseteq Nat
  /\ ByteLimit \in [Threads -> Nat]
  /\ IsFiniteSet(Nodes)

VARIABLES
  structure,
  list_, list_closed_, waiting_, at, t, notifying,
  head_, tail_, size_, pool_, next, value, heap,
  bsize_, buffer_, front_idx_, back_idx_, used_,
  free_list, free_count, malloced, index, bytes, wanted

S == INSTANCE SynchronizedList WITH closed_ <- list_closed_, NULL <- Nil
L == INSTANCE List WITH NULL <- Nil
C == INSTANCE CircularBuffer WITH size_ <- bsize_, NULL <- Nil
M == INSTANCE MemoryCache

sharedListVars == <<list_, list_closed_, waiting_, at, t, notifying>>
listVars == <<head_, tail_, size_, pool_, next, value, heap>>
bufferVars == <<bsize_, buffer_, front_idx_, back_idx_, used_>>
memoryVars == <<free_list, free_count, malloced, index, bytes, wanted>>

containersVars == <<structure, sharedListVars, listVars, bufferVars, memoryVars>>

ContainersInit ==
  /\ structure \in {"synchronized_list", "list", "circular_buffer", "memory"}
  /\ S!Init /\ L!Init /\ C!Init /\ M!Init
  /\ structure # "circular_buffer" => \A b \in Buffers : bsize_[b] = 0

ContainersNext ==
  /\ \/ structure = "synchronized_list" /\ S!Next /\ UNCHANGED <<listVars, bufferVars, memoryVars>>
     \/ structure = "list" /\ L!Next /\ UNCHANGED <<sharedListVars, bufferVars, memoryVars>>
     \/ structure = "circular_buffer" /\ C!Next /\ UNCHANGED <<sharedListVars, listVars, memoryVars>>
     \/ structure = "memory" /\ M!Next /\ UNCHANGED <<sharedListVars, listVars, bufferVars>>
  /\ UNCHANGED structure

\* Only the shared list has threads that wait.
ContainersSpec == ContainersInit /\ [][ContainersNext]_containersVars /\ S!Fairness

-----------------------------------------------------------------------------
(* Properties, of the modules together.                                    *)

\* synchronized_list: with one consumer it is a queue whose pop() returns; and the
\* consumer does not sleep beside a value or on a closed list, unless a
\* notification is under way.
SharedListIsQueue == S!ImplementsQueue /\ []S!SleeperNoticed

\* list: following the pointers gives the sequence that emplace_back(),
\* emplace_front(), pop(), concatenate() and the move make by their names.
\* circular_buffer: it is a first-in first-out sequence of at most its size, round
\* after round.
AreSequences == L!ImplementsSequences /\ C!ImplementsSequences

\* Memory has one owner and fits it: a node is in one list, in one pool or free
\* (list, pool_allocator); the places of a buffer that hold an element are the
\* used ones (circular_buffer); a block is with its user, who asked for no more
\* than it has, or once in one bucket (memory::cache).
MemoryOwned == L!NodesOwned /\ C!PlacesMatch /\ M!BigEnough /\ M!OneUser
=============================================================================
