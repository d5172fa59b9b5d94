----------------------------- MODULE MemoryCache -----------------------------
(***************************************************************************)
(* hce::memory::cache: each thread has a cache of free blocks, in buckets  *)
(* whose blocks have the sizes 1, 2, 4, ...; a block remembers the index   *)
(* of its bucket in its header, and may be given back by another thread    *)
(* than the one that got it.                                               *)
(***************************************************************************)
EXTENDS Naturals, Sequences, FiniteSets, SequencesExt

CONSTANTS
  Threads,   \* each with its cache
  Blocks,    \* the addresses that malloc() returns
  Buckets,   \* info::count()
  MaxSize,   \* bound: the largest allocation
  ByteLimit  \* the bytes a bucket of a thread may hold

VARIABLES
  free_list,   \* bucket::free_list of each thread and index
  free_count,  \* bucket::free_count
  malloced,    \* blocks that the memory cache has from malloc()
  index,       \* the header of a block
  bytes,       \* the size that malloc() was asked for, without the header
  wanted       \* the size its user asked for, 0 if the block has no user

cached == <<free_list, free_count>>
vars == <<cached, malloced, index, bytes, wanted>>

Indices == 0 .. Buckets - 1

PowerOf2[i \in Nat] == IF i = 0 THEN 1 ELSE 2 * PowerOf2[i - 1]

\* The buckets of lifecycle.cpp: at least one block fits.
BlockSize(i) == PowerOf2[i]
Limit(t, i) == IF ByteLimit[t] > BlockSize(i) THEN ByteLimit[t] \div BlockSize(i) ELSE 1

\* bit_width(size) - 1
TopBit(size) == CHOOSE i \in 0 .. size : PowerOf2[i] <= size /\ size < PowerOf2[i + 1]

Mut_indexer(size) == TopBit(size)

\* One more if size is no power of 2.
indexer(size) == IF size = PowerOf2[TopBit(size)] THEN TopBit(size) ELSE TopBit(size) + 1

Init ==
  /\ free_list = [t \in Threads |-> [i \in Indices |-> <<>>]]
  /\ free_count = [t \in Threads |-> [i \in Indices |-> 0]]
  /\ malloced = {}
  /\ index = [b \in Blocks |-> 0]
  /\ bytes = [b \in Blocks |-> 0]
  /\ wanted = [b \in Blocks |-> 0]

-----------------------------------------------------------------------------
allocate_header(b, size, i) ==
  /\ b \notin malloced
  /\ malloced' = malloced \cup {b}
  /\ index' = [index EXCEPT ![b] = i]
  /\ bytes' = [bytes EXCEPT ![b] = size]

deallocate_header(b) == malloced' = malloced \ {b}

Use(b, size) == wanted' = [wanted EXCEPT ![b] = size]

\* The bucket has a free block: the last one that was given back.
AllocateCached(t, size) ==
  LET i == indexer(size) IN
    /\ i < Buckets /\ free_list[t][i] # <<>>
    /\ free_count' = [free_count EXCEPT ![t][i] = @ - 1]
    /\ free_list' = [free_list EXCEPT ![t][i] = Front(@)]
    /\ Use(Last(free_list[t][i]), size)
    /\ UNCHANGED <<malloced, index, bytes>>

\* It has none, or there is no bucket for the size: malloc().
AllocateNew(t, b, size) ==
  LET i == indexer(size) IN
    /\ i < Buckets => free_list[t][i] = <<>>
    /\ allocate_header(b, IF i < Buckets THEN BlockSize(i) ELSE size, i)
    /\ Use(b, size)
    /\ UNCHANGED cached

DeallocateCached(t, b) ==
  /\ wanted[b] > 0
  /\ index[b] < Buckets
  /\ free_count[t][index[b]] < Limit(t, index[b])
  /\ free_count' = [free_count EXCEPT ![t][index[b]] = @ + 1]
  /\ free_list' = [free_list EXCEPT ![t][index[b]] = Append(@, b)]
  /\ Use(b, 0)
  /\ UNCHANGED <<malloced, index, bytes>>

\* The bucket is full, or there is none.
DeallocateFree(t, b) ==
  /\ wanted[b] > 0
  /\ index[b] < Buckets => free_count[t][index[b]] >= Limit(t, index[b])
  /\ deallocate_header(b)
  /\ Use(b, 0)
  /\ UNCHANGED <<cached, index, bytes>>

\* clear(), and ~cache when the thread ends.
clear(t) ==
  /\ malloced' = malloced \ UNION {ToSet(free_list[t][i]) : i \in Indices}
  /\ free_list' = [free_list EXCEPT ![t] = [i \in Indices |-> <<>>]]
  /\ free_count' = [free_count EXCEPT ![t] = [i \in Indices |-> 0]]
  /\ UNCHANGED <<index, bytes, wanted>>

Next ==
  \E t \in Threads :
    \/ \E size \in 1 .. MaxSize :
         AllocateCached(t, size) \/ \E b \in Blocks : AllocateNew(t, b, size)
    \/ \E b \in Blocks : DeallocateCached(t, b) \/ DeallocateFree(t, b)
    \/ clear(t)

Spec == Init /\ [][Next]_vars

-----------------------------------------------------------------------------
(* Properties.                                                             *)

\* A block is never smaller than what its user has asked for, though it went
\* through the caches of other threads and through users of other sizes.
BigEnough == \A b \in Blocks : wanted[b] > 0 => b \in malloced /\ wanted[b] <= bytes[b]

Places(b) ==
  UNION {UNION {{<<t, i, k>> : k \in {k \in DOMAIN free_list[t][i] : free_list[t][i][k] = b}} :
                  i \in Indices} : t \in Threads}

\* A block is in use, or in one bucket once, or not allocated; the count that
\* keeps a bucket within its limit is right.
OneUser ==
  /\ \A b \in Blocks :
       IF b \in malloced /\ wanted[b] = 0 THEN \E p \in Places(b) : Places(b) = {p}
       ELSE Places(b) = {}
  /\ \A t \in Threads, i \in Indices :
       free_count[t][i] = Len(free_list[t][i]) /\ free_count[t][i] <= Limit(t, i)
=============================================================================
