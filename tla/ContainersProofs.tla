--------------------------- MODULE ContainersProofs ---------------------------
(***************************************************************************)
(* Theorems about the data structures of module Containers: the shared     *)
(* list, the circular buffer, the memory cache and the linked list, each   *)
(* for any number of threads, values, sizes and nodes.                     *)
(*                                                                         *)
(* Fits says of an array, its two indices and its count that they agree;   *)
(* MemoryInv where each block is; Linked what the pointers of a list mean, *)
(* and ListInv who owns each node.  The step lemmas prove at once that the *)
(* invariant is kept and that the step is one of the sequences' contract.  *)
(***************************************************************************)
EXTENDS Containers, ListFacts, WellFoundedInduction, FiniteSetTheorems

-----------------------------------------------------------------------------
(* synchronized_list.                                                      *)

\* What the steps need of the variables' types.
SharedTyped ==
  /\ at \in [Poppers -> {"out", "loop", "wait"}]
  /\ t \in [Poppers -> Values \cup {Nil}]
  /\ notifying \in [Callers -> {"no", "one", "all"}]
  /\ list_ \in Seq(Values)

LEMMA SharedTypes == ContainersSpec => []SharedTyped
<1>1. ContainersInit => SharedTyped
  BY DEF ContainersInit, S!Init, SharedTyped
<1>2. SharedTyped /\ [ContainersNext]_containersVars => SharedTyped'
  <2> SUFFICES ASSUME SharedTyped, [ContainersNext]_containersVars PROVE SharedTyped'
    OBVIOUS
  <2> USE DEF SharedTyped
  <2>1. CASE UNCHANGED sharedListVars
    BY <2>1 DEF sharedListVars
  <2>2. ASSUME NEW c \in Callers, NEW v \in Values, S!emplace_back(c, v) \/ S!emplace_front(c, v)
        PROVE  SharedTyped'
    <3>1. Append(list_, v) \in Seq(Values) /\ <<v>> \o list_ \in Seq(Values)
      BY ConcatProperties
    <3>2. list_' \in Seq(Values)
      BY <2>2, <3>1 DEF S!emplace_back, S!emplace_front, S!Emplace
    <3> QED
      BY <2>2, <3>2 DEF S!emplace_back, S!emplace_front, S!Emplace, S!TakeFlag
  <2>3. ASSUME NEW c \in Callers, S!close(c) \/ S!Notify(c)
        PROVE  SharedTyped'
    BY <2>3 DEF S!close, S!Notify, S!NotifyOne, S!NotifyAll, S!TakeFlag
  <2>4. ASSUME NEW p \in Poppers, S!CallPop(p) \/ S!pop(p) \/ S!SpuriousWakeup(p)
        PROVE  SharedTyped'
    <3>1. list_ # <<>> => Head(list_) \in Values /\ Tail(list_) \in Seq(Values)
      BY HeadTailProperties
    <3> QED
      BY <2>4, <3>1 DEF S!CallPop, S!pop, S!PopValue, S!PopFails, S!PopWaits, S!SpuriousWakeup
  <2> QED
    BY <2>1, <2>2, <2>3, <2>4 DEF ContainersNext, S!Next, containersVars
<1> QED
  BY <1>1, <1>2, PTL DEF ContainersSpec

\* Every step of the list is one of the queue's, or changes nothing that the
\* queue has, for any number of consumers.
THEOREM SharedListIsAtomic ==
  ContainersSpec => S!Queue!Init /\ [][S!Queue!Next]_(S!Queue!vars)
<1>1. ContainersInit => S!Queue!Init
  BY DEF ContainersInit, S!Init, S!Queue!Init
<1>2. SharedTyped /\ [ContainersNext]_containersVars => [S!Queue!Next]_(S!Queue!vars)
  <2> SUFFICES ASSUME SharedTyped, [ContainersNext]_containersVars PROVE [S!Queue!Next]_(S!Queue!vars)
    OBVIOUS
  <2> DEFINE popping == {p \in Poppers : at[p] # "out"}
  <2>1. CASE UNCHANGED sharedListVars
    BY <2>1 DEF sharedListVars, S!Queue!vars
  <2>2. ASSUME NEW c \in Callers, NEW v \in Values, S!emplace_back(c, v) \/ S!emplace_front(c, v)
        PROVE  S!Queue!Next
    BY <2>2 DEF S!emplace_back, S!emplace_front, S!Emplace, S!Queue!Next, S!Queue!Push
  <2>3. ASSUME NEW c \in Callers, S!close(c) PROVE S!Queue!Next
    BY <2>3 DEF S!close, S!Queue!Next, S!Queue!Close
  <2>4. ASSUME NEW c \in Callers, S!Notify(c) PROVE UNCHANGED S!Queue!vars
    <3>1. popping' = popping
      BY <2>4 DEF S!Notify, S!NotifyOne, S!NotifyAll, SharedTyped
    <3> QED
      BY <2>4, <3>1 DEF S!Notify, S!NotifyOne, S!NotifyAll, S!Queue!vars
  <2>5. ASSUME NEW p \in Poppers, S!CallPop(p) PROVE S!Queue!Next
    <3>1. p \notin popping /\ popping' = popping \cup {p}
      BY <2>5 DEF S!CallPop, SharedTyped
    <3> QED
      BY <2>5, <3>1 DEF S!CallPop, S!Queue!Next, S!Queue!Call
  <2>6. ASSUME NEW p \in Poppers, S!PopValue(p) \/ S!PopFails(p) PROVE S!Queue!Next
    <3>1. p \in popping /\ popping' = popping \ {p}
      BY <2>6 DEF S!PopValue, S!PopFails, SharedTyped
    <3> QED
      BY <2>6, <3>1 DEF S!PopValue, S!PopFails, S!Queue!Next, S!Queue!Take, S!Queue!Fail
  <2>7. ASSUME NEW p \in Poppers, S!PopWaits(p) \/ S!SpuriousWakeup(p) PROVE UNCHANGED S!Queue!vars
    <3>1. popping' = popping
      BY <2>7 DEF S!PopWaits, S!SpuriousWakeup, SharedTyped
    <3> QED
      BY <2>7, <3>1 DEF S!PopWaits, S!SpuriousWakeup, S!Queue!vars
  <2> QED
    BY <2>1, <2>2, <2>3, <2>4, <2>5, <2>6, <2>7 DEF ContainersNext, S!Next, S!pop, containersVars
<1> QED
  BY <1>1, <1>2, SharedTypes, PTL DEF ContainersSpec

\* The one flag is enough for one consumer: while it sleeps, the next push or
\* close() finds the flag, or a notification is under way.
THEOREM OneConsumerIsNoticed ==
  (\E p \in Poppers : Poppers = {p}) => (ContainersSpec => []S!SleeperNoticed)
<1> SUFFICES ASSUME NEW p \in Poppers, Poppers = {p} PROVE ContainersSpec => []S!SleeperNoticed
  OBVIOUS
<1>1. ContainersInit => S!SleeperNoticed
  BY DEF ContainersInit, S!Init, S!SleeperNoticed
<1>2. SharedTyped /\ S!SleeperNoticed /\ [ContainersNext]_containersVars => S!SleeperNoticed'
  <2> SUFFICES ASSUME SharedTyped, S!SleeperNoticed, [ContainersNext]_containersVars, at'[p] = "wait"
               PROVE  \/ waiting_' /\ list_' = <<>> /\ ~list_closed_'
                      \/ \E c \in Callers : notifying'[c] # "no"
    BY DEF S!SleeperNoticed
  <2>0. at[p] = "wait" => \/ waiting_ /\ list_ = <<>> /\ ~list_closed_
                          \/ \E c \in Callers : notifying[c] # "no"
    BY DEF S!SleeperNoticed
  <2>1. CASE UNCHANGED sharedListVars
    BY <2>0, <2>1 DEF sharedListVars
  <2>2. ASSUME NEW c \in Callers, NEW how \in {"one", "all"},
               notifying[c] = "no", S!TakeFlag(c, how), UNCHANGED at
        PROVE  \E d \in Callers : notifying'[d] # "no"
    <3>1. CASE waiting_
      BY <2>2, <3>1 DEF S!TakeFlag, SharedTyped
    <3>2. CASE ~waiting_
      BY <2>0, <2>2, <3>2 DEF S!TakeFlag, SharedTyped
    <3> QED
      BY <3>1, <3>2
  <2>3. CASE \E c \in Callers, v \in Values : S!emplace_back(c, v) \/ S!emplace_front(c, v)
    BY <2>2, <2>3 DEF S!emplace_back, S!emplace_front, S!Emplace
  <2>4. CASE \E c \in Callers : S!close(c)
    BY <2>2, <2>4 DEF S!close
  <2>5. CASE \E c \in Callers : S!Notify(c)
    BY <2>0, <2>5 DEF S!Notify, S!NotifyOne, S!NotifyAll, SharedTyped
  <2>6. CASE \E q \in Poppers : S!CallPop(q) \/ S!pop(q) \/ S!SpuriousWakeup(q)
    BY <2>6 DEF S!CallPop, S!pop, S!PopValue, S!PopFails, S!PopWaits, S!SpuriousWakeup, SharedTyped
  <2> QED
    BY <2>1, <2>3, <2>4, <2>5, <2>6 DEF ContainersNext, S!Next, containersVars
<1> QED
  BY <1>1, <1>2, SharedTypes, PTL DEF ContainersSpec

-----------------------------------------------------------------------------
(* Least elements, which stand for induction.                              *)

LEMMA Least ==
  ASSUME NEW T \in SUBSET Nat, T # {}
  PROVE  \E m \in T : \A k \in T : m <= k
<1>1. PICK m \in T : \A y \in T : ~ (<<y, m>> \in OpToRel(<, Nat))
  BY NatLessThanWellFounded, WFMin, Zenon
<1>2. \A y \in T : ~(y < m)
  BY <1>1 DEF OpToRel
<1> QED
  BY <1>2

\* A set of naturals that has 0 and, with a number, its successor, has them all.
LEMMA Induction ==
  ASSUME NEW T, 0 \in T, \A n \in Nat : n \in T => n + 1 \in T
  PROVE  Nat \subseteq T
<1> SUFFICES ASSUME Nat \ T # {} PROVE FALSE
  OBVIOUS
<1>1. PICK m \in Nat \ T : \A k \in Nat \ T : m <= k
  BY Least
<1>2. m - 1 \in Nat /\ m - 1 \in T
  BY <1>1
<1> QED
  BY <1>1, <1>2

-----------------------------------------------------------------------------
(* The powers of two.                                                      *)

Doubles(g, n) == g \in [0 .. n -> Nat] /\ g[0] = 1 /\ \A i \in 1 .. n : g[i] = 2 * g[i - 1]

LEMMA DoublesExist == \A n \in Nat : \E g : Doubles(g, n)
<1> DEFINE T == {n \in Nat : \E g : Doubles(g, n)}
<1>1. 0 \in T
  <2>1. Doubles([i \in 0 .. 0 |-> 1], 0)
    BY DEF Doubles
  <2> QED
    BY <2>1
<1>2. ASSUME NEW n \in Nat, n \in T PROVE n + 1 \in T
  <2>1. PICK g : Doubles(g, n)
    BY <1>2
  <2> DEFINE h == [i \in 0 .. n + 1 |-> IF i = n + 1 THEN 2 * g[n] ELSE g[i]]
  <2>2. Doubles(h, n + 1)
    BY <2>1 DEF Doubles
  <2> HIDE DEF h
  <2> QED
    BY <2>2
<1> HIDE DEF T
<1>3. Nat \subseteq T
  BY <1>1, <1>2, Induction
<1> QED
  BY <1>3 DEF T

LEMMA DoublesAgree ==
  ASSUME NEW n \in Nat, NEW m \in Nat, NEW g, NEW h, Doubles(g, n), Doubles(h, m)
  PROVE  \A i \in Nat : i <= n /\ i <= m => g[i] = h[i]
<1> DEFINE T == {i \in Nat : i <= n /\ i <= m => g[i] = h[i]}
<1>1. 0 \in T
  BY DEF Doubles
<1>2. ASSUME NEW i \in Nat, i \in T PROVE i + 1 \in T
  <2> SUFFICES ASSUME i + 1 <= n, i + 1 <= m PROVE g[i + 1] = h[i + 1]
    OBVIOUS
  <2>1. g[i + 1] = 2 * g[(i + 1) - 1] /\ h[i + 1] = 2 * h[(i + 1) - 1]
    BY DEF Doubles
  <2>2. (i + 1) - 1 = i /\ g[i] = h[i]
    BY <1>2
  <2> QED
    BY <2>1, <2>2
<1> HIDE DEF T
<1>3. Nat \subseteq T
  BY <1>1, <1>2, Induction
<1> QED
  BY <1>3 DEF T

Power(n) == M!PowerOf2[n]

LEMMA Powers ==
  /\ Power(0) = 1
  /\ \A n \in Nat : Power(n) \in Nat /\ Power(n) > 0 /\ Power(n + 1) = 2 * Power(n)
<1> DEFINE G(n) == CHOOSE g : Doubles(g, n)
           p == [i \in Nat |-> G(i)[i]]
<1>1. \A n \in Nat : Doubles(G(n), n)
  BY DoublesExist
<1> HIDE DEF G
<1>2. p \in [Nat -> Nat] /\ p[0] = 1
  BY <1>1 DEF Doubles
<1>3. ASSUME NEW n \in Nat, n # 0 PROVE p[n] = 2 * p[n - 1]
  <2>1. n - 1 \in Nat /\ n - 1 <= n
    BY <1>3
  <2>2. G(n)[n] = 2 * G(n)[n - 1]
    BY <1>1, <1>3 DEF Doubles
  <2>3. G(n)[n - 1] = G(n - 1)[n - 1]
    BY <1>1, <2>1, DoublesAgree
  <2> QED
    BY <2>1, <2>2, <2>3
<1>4. p = [i \in Nat |-> IF i = 0 THEN 1 ELSE 2 * p[i - 1]]
  <2>1. \A i \in Nat : p[i] = IF i = 0 THEN 1 ELSE 2 * p[i - 1]
    BY <1>2, <1>3
  <2>2. p = [i \in Nat |-> p[i]]
    BY <1>2
  <2> HIDE DEF p
  <2> QED
    BY <2>1, <2>2
<1> HIDE DEF p
<1> DEFINE q == M!PowerOf2
<1>5. q = [i \in Nat |-> IF i = 0 THEN 1 ELSE 2 * q[i - 1]]
  BY <1>4 DEF M!PowerOf2
<1> HIDE DEF q
<1>6. \A i \in Nat : q[i] = IF i = 0 THEN 1 ELSE 2 * q[i - 1]
  BY <1>5
<1>7. q[0] = 1 /\ \A n \in Nat : q[n + 1] = 2 * q[n]
  BY <1>6
<1> DEFINE T == {n \in Nat : q[n] \in Nat /\ q[n] > 0}
<1>8. 0 \in T
  BY <1>7
<1>9. \A n \in Nat : n \in T => n + 1 \in T
  BY <1>7
<1>10. Nat \subseteq T
  <2> HIDE DEF T
  <2> QED
    BY <1>8, <1>9, Induction
<1> QED
  BY <1>7, <1>10 DEF q, Power

\* Every size is between two powers, and the indexer chooses a bucket whose blocks
\* are large enough.
LEMMA IndexFits ==
  ASSUME NEW size \in Nat, size > 0
  PROVE  M!indexer(size) \in Nat /\ size <= M!BlockSize(M!indexer(size))
<1>1. \A n \in Nat : Power(n) > n
  <2> DEFINE T == {n \in Nat : Power(n) > n}
  <2>1. 0 \in T /\ \A n \in Nat : n \in T => n + 1 \in T
    BY Powers
  <2> HIDE DEF T
  <2>2. Nat \subseteq T
    BY <2>1, Induction
  <2> QED
    BY <2>2 DEF T
<1> DEFINE above == {n \in Nat : size < Power(n)}
<1>2. PICK m \in above : \A k \in above : m <= k
  <2>1. size \in above
    BY <1>1
  <2> HIDE DEF above
  <2>2. above \in SUBSET Nat
    BY DEF above
  <2> QED
    BY <2>1, <2>2, Least
<1>3. m # 0 /\ m \in Nat /\ m <= size
  BY <1>1, <1>2, Powers
<1>4. m - 1 \in 0 .. size /\ Power(m - 1) <= size /\ size < Power((m - 1) + 1)
  BY <1>2, <1>3, Powers
<1>5. /\ M!TopBit(size) \in 0 .. size
      /\ Power(M!TopBit(size)) <= size /\ size < Power(M!TopBit(size) + 1)
  BY <1>4 DEF M!TopBit, Power
<1> DEFINE top == M!TopBit(size)
<1>6. top \in Nat /\ top + 1 \in Nat /\ Power(top + 1) \in Nat
  BY <1>5, Powers
<1>7. M!indexer(size) = IF size = Power(top) THEN top ELSE top + 1
  BY DEF M!indexer, Power
<1>8. M!BlockSize(M!indexer(size)) = Power(M!indexer(size))
  BY DEF M!BlockSize, Power
<1> HIDE DEF top
<1> QED
  BY <1>5, <1>6, <1>7, <1>8 DEF top

-----------------------------------------------------------------------------
(* circular_buffer.                                                        *)

\* An index that has gone at most once round.
Wrap(m, n) == IF m < n THEN m ELSE m - n

\* The places from f on that u elements take in an array of n.
Taken(i, n, f, u) == IF f + u <= n THEN f <= i /\ i < f + u ELSE f <= i \/ i < f + u - n

\* An array x of size n, its indices and its count agree.
Fits(x, n, f, e, u) ==
  /\ n \in Nat /\ f \in Nat /\ e \in Nat /\ u \in Nat /\ u <= n
  /\ n > 0 => f < n /\ e = Wrap(f + u, n)
  /\ x \in [0 .. n - 1 -> Values \cup {Nil}]
  /\ \A i \in 0 .. n - 1 : x[i] # Nil <=> Taken(i, n, f, u)

\* The elements in the order of the indices.
Elements(x, n, f, u) == [i \in 1 .. u |-> x[Wrap(f + i - 1, n)]]

BufferInv ==
  /\ bsize_ \in [Buffers -> Nat]
  /\ DOMAIN buffer_ = Buffers /\ DOMAIN front_idx_ = Buffers
  /\ DOMAIN back_idx_ = Buffers /\ DOMAIN used_ = Buffers
  /\ \A b \in Buffers : Fits(buffer_[b], bsize_[b], front_idx_[b], back_idx_[b], used_[b])

LEMMA WrapIsRemainder ==
  ASSUME NEW n \in Nat, n > 0, NEW m \in 0 .. 2 * n - 1
  PROVE  m % n = Wrap(m, n)
  BY DEF Wrap

LEMMA EmplaceFits ==
  ASSUME NEW x, NEW n, NEW f, NEW e, NEW u, NEW v \in Values, Fits(x, n, f, e, u), u < n,
         NEW y, y = [x EXCEPT ![e] = v]
  PROVE  /\ Fits(y, n, f, Wrap(e + 1, n), u + 1)
         /\ Elements(y, n, f, u + 1) = Append(Elements(x, n, f, u), v)
<1>1. /\ n \in Nat /\ f \in Nat /\ e \in Nat /\ u \in Nat /\ f < n /\ e = Wrap(f + u, n)
      /\ x \in [0 .. n - 1 -> Values \cup {Nil}]
  BY DEF Fits
<1>2. e \in 0 .. n - 1 /\ y \in [0 .. n - 1 -> Values \cup {Nil}] /\ v # Nil
  BY <1>1, NullAssumption DEF Wrap
<1>3. \A i \in 0 .. n - 1 : y[i] = IF i = e THEN v ELSE x[i]
  BY <1>1, <1>2
<1>4. \A i \in 0 .. n - 1 : Taken(i, n, f, u + 1) <=> Taken(i, n, f, u) \/ i = e
  BY <1>1 DEF Taken, Wrap
<1>5. Wrap(e + 1, n) = Wrap(f + (u + 1), n) /\ Wrap(e + 1, n) \in Nat
  BY <1>1 DEF Wrap
<1>6. Fits(y, n, f, Wrap(e + 1, n), u + 1)
  BY <1>1, <1>2, <1>3, <1>4, <1>5 DEF Fits
<1>7. \A i \in 1 .. u : Wrap(f + i - 1, n) \in 0 .. n - 1 /\ Wrap(f + i - 1, n) # e
  BY <1>1 DEF Wrap
<1>8. Wrap(f + (u + 1) - 1, n) = e
  BY <1>1 DEF Wrap
<1>9. \A i \in 1 .. u + 1 : y[Wrap(f + i - 1, n)] = IF i = u + 1 THEN v ELSE x[Wrap(f + i - 1, n)]
  BY <1>1, <1>2, <1>3, <1>7, <1>8
<1> DEFINE s == Elements(x, n, f, u)
           r == Append(s, v)
<1>10. \A i \in 1 .. u : x[Wrap(f + i - 1, n)] \in Values \cup {Nil}
  BY <1>1, <1>7
<1>11. s \in Seq(Values \cup {Nil}) /\ Len(s) = u
  BY <1>1, <1>10, IsASeq, LenProperties DEF Elements
<1>12. r = [i \in 1 .. u + 1 |-> IF i = u + 1 THEN v ELSE x[Wrap(f + i - 1, n)]]
  <2>1. \A i \in 1 .. u : s[i] = x[Wrap(f + i - 1, n)]
    BY DEF Elements
  <2>2. r \in Seq(Values \cup {Nil}) /\ Len(r) = u + 1 /\ r[u + 1] = v /\ \A i \in 1 .. u : r[i] = s[i]
    <3> HIDE DEF s
    <3> QED
      BY <1>11, AppendProperties
  <2>3. \A i \in 1 .. u + 1 : r[i] = IF i = u + 1 THEN v ELSE x[Wrap(f + i - 1, n)]
    <3> HIDE DEF r, s
    <3> QED
      BY <1>1, <2>1, <2>2
  <2> HIDE DEF r
  <2> QED
    BY <2>2, <2>3, LenProperties
<1>13. Elements(y, n, f, u + 1) = r
  <2> HIDE DEF r
  <2> QED
    BY <1>9, <1>12 DEF Elements
<1> QED
  BY <1>6, <1>13

LEMMA PopFits ==
  ASSUME NEW x, NEW n, NEW f, NEW e, NEW u, Fits(x, n, f, e, u), u > 0,
         NEW y, y = [x EXCEPT ![f] = Nil]
  PROVE  /\ Fits(y, n, Wrap(f + 1, n), e, u - 1)
         /\ Elements(x, n, f, u) # <<>>
         /\ Elements(y, n, Wrap(f + 1, n), u - 1) = Tail(Elements(x, n, f, u))
<1>1. /\ n \in Nat /\ f \in Nat /\ e \in Nat /\ u \in Nat /\ f < n /\ e = Wrap(f + u, n) /\ u <= n
      /\ x \in [0 .. n - 1 -> Values \cup {Nil}]
  BY DEF Fits
<1>2. f \in 0 .. n - 1 /\ y \in [0 .. n - 1 -> Values \cup {Nil}]
  BY <1>1
<1>3. \A i \in 0 .. n - 1 : y[i] = IF i = f THEN Nil ELSE x[i]
  BY <1>1, <1>2
<1> DEFINE h == Wrap(f + 1, n)
<1>4. \A i \in 0 .. n - 1 : Taken(i, n, h, u - 1) <=> Taken(i, n, f, u) /\ i # f
  BY <1>1 DEF Taken, Wrap
<1>5. h \in Nat /\ h < n /\ e = Wrap(h + (u - 1), n) /\ u - 1 \in Nat /\ u - 1 <= n
  BY <1>1 DEF Wrap
<1>6. Fits(y, n, h, e, u - 1)
  <2> HIDE DEF h
  <2> QED
    BY <1>1, <1>2, <1>3, <1>4, <1>5 DEF Fits
<1>7. \A i \in 1 .. u - 1 : /\ Wrap(h + i - 1, n) = Wrap(f + (i + 1) - 1, n)
                            /\ Wrap(h + i - 1, n) \in 0 .. n - 1 /\ Wrap(h + i - 1, n) # f
  BY <1>1 DEF Wrap
<1>8. \A i \in 1 .. u : Wrap(f + i - 1, n) \in 0 .. n - 1
  BY <1>1 DEF Wrap
<1> DEFINE s == Elements(x, n, f, u)
<1>9. s \in Seq(Values \cup {Nil}) /\ Len(s) = u /\ s # <<>>
  <2>1. \A i \in 1 .. u : x[Wrap(f + i - 1, n)] \in Values \cup {Nil}
    BY <1>1, <1>8
  <2>2. s \in Seq(Values \cup {Nil}) /\ Len(s) = u
    BY <1>1, <2>1, IsASeq, LenProperties DEF Elements
  <2> HIDE DEF s
  <2> QED
    BY <2>2, EmptySeq
<1>10. Tail(s) \in Seq(Values \cup {Nil}) /\ Len(Tail(s)) = u - 1 /\ \A i \in 1 .. u - 1 : Tail(s)[i] = s[i + 1]
  <2> HIDE DEF s
  <2> QED
    BY <1>1, <1>9
<1>11. \A i \in 1 .. u - 1 : s[i + 1] = x[Wrap(f + (i + 1) - 1, n)]
  BY <1>1 DEF Elements
<1>12. \A i \in 1 .. u - 1 : y[Wrap(h + i - 1, n)] = Tail(s)[i]
  <2> HIDE DEF s, h
  <2> QED
    BY <1>3, <1>7, <1>10, <1>11
<1>13. Elements(y, n, h, u - 1) = Tail(s)
  <2> DEFINE r == Elements(y, n, h, u - 1)
  <2>1. r = [i \in 1 .. u - 1 |-> Tail(s)[i]]
    BY <1>12 DEF Elements
  <2>2. Tail(s) = [i \in 1 .. u - 1 |-> Tail(s)[i]]
    <3> HIDE DEF s
    <3> QED
      BY <1>5, <1>10, LenProperties
  <2> QED
    BY <2>1, <2>2
<1> QED
  BY <1>6, <1>9, <1>13

LEMMA RenewFits ==
  ASSUME NEW n \in Nat
  PROVE  /\ Fits([i \in 0 .. n - 1 |-> Nil], n, 0, 0, 0)
         /\ \A x, f : Elements(x, n, f, 0) = <<>>
<1>1. Fits([i \in 0 .. n - 1 |-> Nil], n, 0, 0, 0)
  BY DEF Fits, Taken, Wrap
<1>2. \A x, f : Elements(x, n, f, 0) = <<>>
  BY DEF Elements
<1> QED
  BY <1>1, <1>2

\* What the module says with remainders.
LEMMA FitsMeans ==
  ASSUME NEW x, NEW n, NEW f, NEW e, NEW u, Fits(x, n, f, e, u)
  PROVE  /\ [i \in 1 .. u |-> x[(f + i - 1) % n]] = Elements(x, n, f, u)
         /\ n > 0 => (f + 1) % n = Wrap(f + 1, n) /\ (e + 1) % n = Wrap(e + 1, n)
         /\ \A i \in 0 .. n - 1 : x[i] # Nil <=> \E k \in 1 .. u : i = (f + k - 1) % n
         /\ u # n => x[e] = Nil
<1>1. /\ n \in Nat /\ f \in Nat /\ e \in Nat /\ u \in Nat /\ u <= n
      /\ n > 0 => f < n /\ e < n /\ e = Wrap(f + u, n)
  BY DEF Fits, Wrap
<1>2. \A i \in 1 .. u : (f + i - 1) % n = Wrap(f + i - 1, n)
  <2> SUFFICES ASSUME NEW i \in 1 .. u PROVE (f + i - 1) % n = Wrap(f + i - 1, n)
    OBVIOUS
  <2>1. n > 0 /\ f + i - 1 \in 0 .. 2 * n - 1
    BY <1>1
  <2> QED
    BY <1>1, <2>1, WrapIsRemainder
<1>3. [i \in 1 .. u |-> x[(f + i - 1) % n]] = Elements(x, n, f, u)
  BY <1>2 DEF Elements
<1>4. n > 0 => (f + 1) % n = Wrap(f + 1, n) /\ (e + 1) % n = Wrap(e + 1, n)
  <2> SUFFICES ASSUME n > 0 PROVE (f + 1) % n = Wrap(f + 1, n) /\ (e + 1) % n = Wrap(e + 1, n)
    OBVIOUS
  <2>1. f + 1 \in 0 .. 2 * n - 1 /\ e + 1 \in 0 .. 2 * n - 1
    BY <1>1
  <2> QED
    BY <1>1, <2>1, WrapIsRemainder
<1>5. ASSUME NEW i \in 0 .. n - 1
      PROVE  Taken(i, n, f, u) <=> \E k \in 1 .. u : i = Wrap(f + k - 1, n)
  <2>1. CASE f <= i
    <3>1. Taken(i, n, f, u) => i - f + 1 \in 1 .. u /\ i = Wrap(f + (i - f + 1) - 1, n)
      BY <1>1, <1>5, <2>1 DEF Taken, Wrap
    <3>2. \A k \in 1 .. u : i = Wrap(f + k - 1, n) => Taken(i, n, f, u)
      BY <1>1, <1>5, <2>1 DEF Taken, Wrap
    <3> QED
      BY <3>1, <3>2
  <2>2. CASE ~(f <= i)
    <3>1. Taken(i, n, f, u) => i + n - f + 1 \in 1 .. u /\ i = Wrap(f + (i + n - f + 1) - 1, n)
      BY <1>1, <1>5, <2>2 DEF Taken, Wrap
    <3>2. \A k \in 1 .. u : i = Wrap(f + k - 1, n) => Taken(i, n, f, u)
      BY <1>1, <1>5, <2>2 DEF Taken, Wrap
    <3> QED
      BY <3>1, <3>2
  <2> QED
    BY <2>1, <2>2
<1>6. \A i \in 0 .. n - 1 : x[i] # Nil <=> \E k \in 1 .. u : i = (f + k - 1) % n
  BY <1>2, <1>5 DEF Fits
<1>7. u # n => e \in 0 .. n - 1 /\ ~Taken(e, n, f, u)
  BY <1>1 DEF Taken, Wrap
<1>8. u # n => x[e] = Nil
  BY <1>7 DEF Fits
<1> QED
  BY <1>3, <1>4, <1>6, <1>8

\* A buffer's array, indices and elements, now and after a step.
Fitting(b) == Fits(buffer_[b], bsize_[b], front_idx_[b], back_idx_[b], used_[b])
Within(b) == Elements(buffer_[b], bsize_[b], front_idx_[b], used_[b])

BufferContents == [b \in Buffers |-> C!Content(b)]

\* Every operation keeps the buffers in order, and does to their sequences what
\* the contract promises of it.
LEMMA BufferStep ==
  ASSUME BufferInv
  PROVE  (C!Next => BufferInv') /\ C!Promised
<1>0. /\ bsize_ \in [Buffers -> Nat]
      /\ DOMAIN buffer_ = Buffers /\ DOMAIN front_idx_ = Buffers
      /\ DOMAIN back_idx_ = Buffers /\ DOMAIN used_ = Buffers
      /\ \A b \in Buffers : Fitting(b)
  BY DEF BufferInv, Fitting
<1> DEFINE Typed == /\ bsize_' \in [Buffers -> Nat]
                    /\ DOMAIN buffer_' = Buffers /\ DOMAIN front_idx_' = Buffers
                    /\ DOMAIN back_idx_' = Buffers /\ DOMAIN used_' = Buffers
           cont == [b \in Buffers |-> C!Content(b)]
\* It is enough to say what a step does to the buffers.
<1>1. ASSUME Typed, \A b \in Buffers : Fitting(b)'
      PROVE  /\ BufferInv'
             /\ cont = [b \in Buffers |-> Within(b)] /\ cont' = [b \in Buffers |-> Within(b)']
  <2>1. BufferInv'
    BY <1>1 DEF BufferInv, Fitting
  <2>2. \A b \in Buffers : C!Content(b) = Within(b)
    BY <1>0, FitsMeans DEF Fitting, Within, C!Content
  <2>3. \A b \in Buffers : C!Content(b)' = Within(b)'
    BY <1>1, FitsMeans DEF Fitting, Within, C!Content
  <2> QED
    BY <2>1, <2>2, <2>3
<1> HIDE DEF cont
<1>2. ASSUME NEW b \in Buffers, NEW v \in Values, C!emplace(b, v)
      PROVE  BufferInv' /\ C!Contract!PushBack(b, v)
  <2>1. used_[b] < bsize_[b] /\ bsize_[b] \in Nat /\ bsize_[b] > 0
    BY <1>0, <1>2 DEF C!emplace, C!full, Fitting, Fits
  <2>2. C!After(b, back_idx_[b]) = Wrap(back_idx_[b] + 1, bsize_[b])
    BY <1>0, <2>1, FitsMeans DEF C!After, Fitting
  <2>3. /\ Fitting(b)' /\ Within(b)' = Append(Within(b), v)
        /\ \A c \in Buffers \ {b} : Fitting(c)' /\ Within(c)' = Within(c)
    <3>1. /\ buffer_'[b] = [buffer_[b] EXCEPT ![back_idx_[b]] = v]
          /\ back_idx_'[b] = Wrap(back_idx_[b] + 1, bsize_[b])
          /\ used_'[b] = used_[b] + 1 /\ bsize_' = bsize_ /\ front_idx_' = front_idx_
          /\ \A c \in Buffers \ {b} : /\ buffer_'[c] = buffer_[c] /\ back_idx_'[c] = back_idx_[c]
                                      /\ used_'[c] = used_[c]
      BY <1>0, <1>2, <2>2 DEF C!emplace
    <3>2. Fitting(b)' /\ Within(b)' = Append(Within(b), v)
      <4>1. Fits(buffer_[b], bsize_[b], front_idx_[b], back_idx_[b], used_[b])
        BY <1>0 DEF Fitting
      <4>2. /\ Fits(buffer_'[b], bsize_[b], front_idx_[b], Wrap(back_idx_[b] + 1, bsize_[b]), used_[b] + 1)
            /\ Elements(buffer_'[b], bsize_[b], front_idx_[b], used_[b] + 1)
               = Append(Elements(buffer_[b], bsize_[b], front_idx_[b], used_[b]), v)
        BY <2>1, <3>1, <4>1, EmplaceFits
      <4> QED
        BY <3>1, <4>2 DEF Fitting, Within
    <3> QED
      BY <1>0, <3>1, <3>2 DEF Fitting, Within
  <2>4. Typed
    BY <1>0, <1>2 DEF C!emplace
  <2>5. BufferInv' /\ cont' = [cont EXCEPT ![b] = Append(cont[b], v)]
    BY <1>1, <2>3, <2>4
  <2> QED
    BY <2>5 DEF cont, C!Contract!PushBack, C!Contract!Change
<1>3. ASSUME NEW b \in Buffers, C!pop(b)
      PROVE  BufferInv' /\ C!Contract!Pop(b)
  <2>1. used_[b] > 0 /\ bsize_[b] > 0
    BY <1>0, <1>3 DEF C!pop, C!empty, Fitting, Fits
  <2>2. C!After(b, front_idx_[b]) = Wrap(front_idx_[b] + 1, bsize_[b])
    BY <1>0, <2>1, FitsMeans DEF C!After, Fitting
  <2>3. /\ Fitting(b)' /\ Within(b) # <<>> /\ Within(b)' = Tail(Within(b))
        /\ \A c \in Buffers \ {b} : Fitting(c)' /\ Within(c)' = Within(c)
    <3>1. /\ buffer_'[b] = [buffer_[b] EXCEPT ![front_idx_[b]] = Nil]
          /\ front_idx_'[b] = Wrap(front_idx_[b] + 1, bsize_[b])
          /\ used_'[b] = used_[b] - 1 /\ bsize_' = bsize_ /\ back_idx_' = back_idx_
          /\ \A c \in Buffers \ {b} : /\ buffer_'[c] = buffer_[c] /\ front_idx_'[c] = front_idx_[c]
                                      /\ used_'[c] = used_[c]
      BY <1>0, <1>3, <2>2 DEF C!pop
    <3>2. Fitting(b)' /\ Within(b) # <<>> /\ Within(b)' = Tail(Within(b))
      <4>1. Fits(buffer_[b], bsize_[b], front_idx_[b], back_idx_[b], used_[b])
        BY <1>0 DEF Fitting
      <4>2. /\ Fits(buffer_'[b], bsize_[b], Wrap(front_idx_[b] + 1, bsize_[b]), back_idx_[b], used_[b] - 1)
            /\ Elements(buffer_[b], bsize_[b], front_idx_[b], used_[b]) # <<>>
            /\ Elements(buffer_'[b], bsize_[b], Wrap(front_idx_[b] + 1, bsize_[b]), used_[b] - 1)
               = Tail(Elements(buffer_[b], bsize_[b], front_idx_[b], used_[b]))
        BY <2>1, <3>1, <4>1, PopFits
      <4> QED
        BY <3>1, <4>2 DEF Fitting, Within
    <3> QED
      BY <1>0, <3>1, <3>2 DEF Fitting, Within
  <2>4. Typed
    BY <1>0, <1>3 DEF C!pop
  <2>5. BufferInv' /\ cont[b] # <<>> /\ cont' = [cont EXCEPT ![b] = Tail(cont[b])]
    BY <1>1, <2>3, <2>4
  <2> QED
    BY <2>5 DEF cont, C!Contract!Pop, C!Contract!Change
<1>4. ASSUME NEW b \in Buffers, NEW size \in Sizes, C!renew(b, size)
      PROVE  BufferInv' /\ C!Contract!Clear(b)
  <2>1. size \in Nat
    BY BoundsAssumption
  <2>2. /\ Fitting(b)' /\ Within(b)' = <<>>
        /\ \A c \in Buffers \ {b} : Fitting(c)' /\ Within(c)' = Within(c)
    BY <1>0, <1>4, <2>1, RenewFits DEF C!renew, Fitting, Within
  <2>3. Typed
    BY <1>0, <1>4, <2>1 DEF C!renew
  <2>4. BufferInv' /\ cont' = [cont EXCEPT ![b] = <<>>]
    BY <1>1, <2>2, <2>3
  <2> QED
    BY <2>4 DEF cont, C!Contract!Clear, C!Contract!Change
<1>5. ASSUME NEW b \in Buffers, NEW c \in Buffers, b # c, C!swap_(b, c)
      PROVE  BufferInv' /\ C!Contract!Swap(b, c)
  <2>1. /\ Fitting(b)' /\ Within(b)' = Within(c) /\ Fitting(c)' /\ Within(c)' = Within(b)
        /\ \A d \in Buffers \ {b, c} : Fitting(d)' /\ Within(d)' = Within(d)
    BY <1>0, <1>5 DEF C!swap_, C!Swapped, Fitting, Within
  <2>2. Typed
    BY <1>0, <1>5 DEF C!swap_, C!Swapped
  <2>3. BufferInv' /\ cont' = [cont EXCEPT ![b] = cont[c], ![c] = cont[b]]
    BY <1>1, <1>5, <2>1, <2>2
  <2> QED
    BY <2>3 DEF cont, C!Contract!Swap
<1>6. C!Next => BufferInv'
  BY <1>2, <1>3, <1>4, <1>5 DEF C!Next
<1>7. C!Promised
  BY <1>2, <1>3, <1>4, <1>5 DEF C!Promised
<1> QED
  BY <1>6, <1>7

\* Every step that changes anything is an operation, and so one of the contract's steps.
LEMMA BufferOperation ==
  ASSUME C!Next, C!Promised, C!vars' # C!vars
  PROVE  C!Contract!Next
<1>1. ASSUME NEW b \in Buffers, NEW v \in Values, C!emplace(b, v)
      PROVE  C!Contract!Next
  <2>1. C!Contract!PushBack(b, v)
    BY <1>1 DEF C!Promised
  <2> QED
    BY <2>1 DEF C!Contract!Next
<1>2. ASSUME NEW b \in Buffers, C!pop(b) \/ \E size \in Sizes : C!renew(b, size)
      PROVE  C!Contract!Next
  <2>1. C!Contract!Pop(b) \/ C!Contract!Clear(b)
    BY <1>2 DEF C!Promised
  <2> QED
    BY <2>1 DEF C!Contract!Next
<1>3. ASSUME NEW b \in Buffers, NEW c \in Buffers, b # c, C!swap_(b, c)
      PROVE  C!Contract!Next
  <2>1. C!Contract!Swap(b, c)
    BY <1>3 DEF C!Promised
  <2> QED
    BY <1>3, <2>1 DEF C!Contract!Next
<1> QED
  BY <1>1, <1>2, <1>3 DEF C!Next

\* A buffer has no more elements than its size.
LEMMA BufferFits == BufferInv => \A b \in Buffers : Len(C!Content(b)) <= bsize_[b]
<1> SUFFICES ASSUME BufferInv, NEW b \in Buffers PROVE Len(C!Content(b)) <= bsize_[b]
  OBVIOUS
<1>1. used_[b] \in Nat /\ bsize_[b] \in Nat /\ used_[b] <= bsize_[b]
  BY DEF BufferInv, Fits
<1>2. Len(C!Content(b)) = used_[b]
  BY <1>1 DEF C!Content
<1> QED
  BY <1>1, <1>2


LEMMA BufferInvariant == ContainersSpec => []BufferInv
<1>1. ContainersInit => BufferInv
  BY RenewFits, BoundsAssumption DEF ContainersInit, C!Init, BufferInv
<1>2. BufferInv /\ [ContainersNext]_containersVars => BufferInv'
  <2> SUFFICES ASSUME BufferInv, [ContainersNext]_containersVars PROVE BufferInv'
    OBVIOUS
  <2>1. CASE UNCHANGED bufferVars
    BY <2>1 DEF bufferVars, BufferInv
  <2>2. CASE C!Next
    BY <2>2, BufferStep
  <2> QED
    BY <2>1, <2>2 DEF ContainersNext, containersVars
<1> QED
  BY <1>1, <1>2, PTL DEF ContainersSpec

\* The used places hold the elements, and no others.
LEMMA BuffersMatch == BufferInv => C!PlacesMatch
<1> SUFFICES ASSUME BufferInv, NEW b \in Buffers
             PROVE  /\ \A i \in DOMAIN buffer_[b] :
                         buffer_[b][i] # Nil
                         <=> \E k \in 1 .. used_[b] : i = (front_idx_[b] + k - 1) % bsize_[b]
                    /\ used_[b] # bsize_[b] => buffer_[b][back_idx_[b]] = Nil
  BY DEF C!PlacesMatch, C!full
<1>1. Fits(buffer_[b], bsize_[b], front_idx_[b], back_idx_[b], used_[b])
  BY DEF BufferInv
<1>2. DOMAIN buffer_[b] = 0 .. bsize_[b] - 1
  BY <1>1 DEF Fits
<1> QED
  BY <1>1, <1>2, FitsMeans

LEMMA BuffersImplement == ContainersSpec => C!ImplementsSequences
<1>1. ContainersInit => C!Contract!Init
  <2> SUFFICES ASSUME ContainersInit PROVE C!Contract!Init
    OBVIOUS
  <2>1. \A b \in Buffers : C!Content(b) = <<>>
    BY DEF ContainersInit, C!Init, C!Content
  <2> QED
    BY <2>1 DEF C!Contract!Init
<1>2. BufferInv /\ [ContainersNext]_containersVars => [C!Contract!Next]_BufferContents
  <2> SUFFICES ASSUME BufferInv, [ContainersNext]_containersVars PROVE [C!Contract!Next]_BufferContents
    OBVIOUS
  <2>1. CASE UNCHANGED bufferVars
    BY <2>1 DEF bufferVars, BufferContents, C!Content
  <2>2. CASE C!Next /\ ~ UNCHANGED bufferVars
    <3>1. C!vars' # C!vars
      BY <2>2 DEF bufferVars, C!vars
    <3> QED
      BY <2>2, <3>1, BufferStep, BufferOperation
  <2> QED
    BY <2>1, <2>2 DEF ContainersNext, containersVars
<1>3. BufferInv => C!Promised
  BY BufferStep
<1>4. BufferInv => \A b \in Buffers : Len(C!Content(b)) <= bsize_[b]
  BY BufferFits
<1> QED
  BY <1>1, <1>2, <1>3, <1>4, BufferInvariant, PTL
  DEF ContainersSpec, C!ImplementsSequences, C!Contract!Spec, BufferContents

-----------------------------------------------------------------------------
(* memory::cache.                                                          *)

\* Where a free block is: nobody's, or in one bucket, the one of its header.
MemoryTyped ==
  /\ malloced \subseteq Blocks
  /\ free_list \in [Threads -> [M!Indices -> Seq(Blocks)]]
  /\ free_count \in [Threads -> [M!Indices -> Nat]]
  /\ index \in [Blocks -> Nat] /\ bytes \in [Blocks -> Nat] /\ wanted \in [Blocks -> Nat]

\* What a bucket holds is free, was allocated for this bucket, and is in no other.
Bucketed ==
  \A u \in Threads, i \in M!Indices :
    /\ IsInjective(free_list[u][i])
    /\ free_count[u][i] = Len(free_list[u][i]) /\ free_count[u][i] <= M!Limit(u, i)
    /\ \A b \in ToSet(free_list[u][i]) :
         /\ b \in malloced /\ wanted[b] = 0 /\ index[b] = i
         /\ \A w \in Threads : b \in ToSet(free_list[w][i]) => w = u

\* No free block is lost.
Found ==
  \A b \in malloced : wanted[b] = 0 =>
    index[b] \in M!Indices /\ \E u \in Threads : b \in ToSet(free_list[u][index[b]])

\* A block for a bucket has the bucket's size.
Sized ==
  \A b \in malloced : index[b] \in M!Indices => bytes[b] = M!BlockSize(index[b])

MemoryInv == MemoryTyped /\ Bucketed /\ Found /\ Sized /\ M!BigEnough

LEMMA LimitIsPositive ==
  ASSUME NEW u \in Threads, NEW i \in M!Indices
  PROVE  M!Limit(u, i) \in Nat /\ M!Limit(u, i) > 0
  BY Powers, BoundsAssumption DEF M!Limit, M!BlockSize, M!Indices, Power

\* A list without its last element.
LEMMA BackFacts ==
  ASSUME NEW A, NEW q \in Seq(A), q # <<>>
  PROVE  /\ Front(q) \in Seq(A) /\ Len(Front(q)) = Len(q) - 1
         /\ Last(q) \in A /\ ToSet(q) = ToSet(Front(q)) \cup {Last(q)}
         /\ IsInjective(q) => IsInjective(Front(q)) /\ Last(q) \notin ToSet(Front(q))
<1> DEFINE n == Len(q)
           r == Front(q)
<1>1. n \in Nat /\ n > 0 /\ DOMAIN q = 1 .. n
  BY EmptySeq, LenProperties
<1>2. r \in Seq(A) /\ Len(r) = n - 1 /\ \A i \in 1 .. n - 1 : r[i] = q[i]
  BY <1>1, SubSeqProperties DEF Front
<1>3. DOMAIN r = 1 .. n - 1 /\ Last(q) = q[n]
  BY <1>2, LenProperties DEF Last
<1>4. Last(q) \in A
  BY <1>1, <1>3, ElementOfSeq
<1> HIDE DEF r, n
<1>5. ToSet(q) = ToSet(r) \cup {Last(q)}
  BY <1>1, <1>2, <1>3 DEF ToSet
<1>6. IsInjective(q) => IsInjective(r) /\ Last(q) \notin ToSet(r)
  BY <1>1, <1>2, <1>3 DEF ToSet, IsInjective
<1> QED
  BY <1>2, <1>4, <1>5, <1>6 DEF r, n

\* The bucket loses its last block to a user.
LEMMA TakenFromBucket ==
  ASSUME MemoryInv, NEW u \in Threads, NEW i \in M!Indices,
         NEW size \in Nat, size > 0, size <= M!BlockSize(i), free_list[u][i] # <<>>,
         free_count' = [free_count EXCEPT ![u][i] = @ - 1],
         free_list' = [free_list EXCEPT ![u][i] = Front(@)],
         wanted' = [wanted EXCEPT ![Last(free_list[u][i])] = size],
         UNCHANGED <<malloced, index, bytes>>
  PROVE  MemoryInv'
<1> DEFINE q == free_list[u][i]
           b == Last(q)
<1>1. size \in Nat /\ size > 0 /\ i \in M!Indices /\ size <= M!BlockSize(i)
  OBVIOUS
<1>2. q \in Seq(Blocks) /\ q # <<>>
  BY DEF MemoryInv, MemoryTyped
<1>3. /\ free_list' = [free_list EXCEPT ![u][i] = Front(q)]
      /\ free_count' = [free_count EXCEPT ![u][i] = free_count[u][i] - 1]
      /\ wanted' = [wanted EXCEPT ![b] = size]
      /\ UNCHANGED <<malloced, index, bytes>>
  BY DEF MemoryInv, MemoryTyped
<1>4. /\ IsInjective(q) /\ free_count[u][i] = Len(q) /\ Len(q) \in Nat /\ Len(q) > 0
      /\ b \in ToSet(q) /\ b \in malloced /\ wanted[b] = 0 /\ index[b] = i /\ b \in Blocks
  <2>1. b \in Blocks /\ ToSet(q) = ToSet(Front(q)) \cup {b}
    <3> HIDE DEF q
    <3> QED
      BY <1>2, BackFacts
  <2>2. Len(q) \in Nat /\ Len(q) > 0
    BY <1>2, QueueFacts
  <2> HIDE DEF b
  <2> QED
    BY <1>1, <2>1, <2>2 DEF MemoryInv, Bucketed
<1>5. /\ Front(q) \in Seq(Blocks) /\ Len(Front(q)) = Len(q) - 1 /\ IsInjective(Front(q))
      /\ ToSet(q) = ToSet(Front(q)) \cup {b} /\ b \notin ToSet(Front(q))
  BY <1>2, <1>4, BackFacts
<1>6. \A w \in Threads, j \in M!Indices :
        /\ free_list'[w][j] = IF w = u /\ j = i THEN Front(q) ELSE free_list[w][j]
        /\ free_count'[w][j] = IF w = u /\ j = i THEN Len(q) - 1 ELSE free_count[w][j]
  BY <1>1, <1>3, <1>4, SMTT(20) DEF MemoryInv, MemoryTyped
<1>7. \A w \in Threads, j \in M!Indices :
        ToSet(free_list'[w][j]) = ToSet(free_list[w][j]) \ {b}
  <2> SUFFICES ASSUME NEW w \in Threads, NEW j \in M!Indices
               PROVE  ToSet(free_list'[w][j]) = ToSet(free_list[w][j]) \ {b}
    OBVIOUS
  <2>1. b \in ToSet(free_list[w][j]) => w = u /\ j = i
    BY <1>1, <1>4 DEF MemoryInv, Bucketed
  <2> HIDE DEF b, q
  <2> QED
    BY <1>5, <1>6, <2>1 DEF q
<1>21. \A c \in Blocks : wanted'[c] = IF c = b THEN size ELSE wanted[c]
  BY <1>3, <1>4 DEF MemoryInv, MemoryTyped
<1>8. MemoryTyped'
  BY <1>1, <1>3, <1>4, <1>5, SMTT(20) DEF MemoryInv, MemoryTyped
<1> HIDE DEF b, q
<1>9. Bucketed'
  <2> SUFFICES ASSUME NEW w \in Threads, NEW j \in M!Indices
               PROVE  /\ IsInjective(free_list'[w][j])
                      /\ free_count'[w][j] = Len(free_list'[w][j]) /\ free_count'[w][j] <= M!Limit(w, j)
                      /\ \A c \in ToSet(free_list'[w][j]) :
                           /\ c \in malloced' /\ wanted'[c] = 0 /\ index'[c] = j
                           /\ \A x \in Threads : c \in ToSet(free_list'[x][j]) => x = w
    BY DEF Bucketed, M!Limit, M!BlockSize
  <2>1. /\ IsInjective(free_list'[w][j])
        /\ free_count'[w][j] = Len(free_list'[w][j]) /\ free_count'[w][j] <= M!Limit(w, j)
    <3>1. /\ IsInjective(free_list[w][j]) /\ free_count[w][j] = Len(free_list[w][j])
          /\ free_count[w][j] <= M!Limit(w, j) /\ M!Limit(w, j) \in Nat
      BY LimitIsPositive DEF MemoryInv, Bucketed
    <3>2. CASE w = u /\ j = i
      BY <1>4, <1>5, <1>6, <3>1, <3>2 DEF q
    <3>3. CASE ~(w = u /\ j = i)
      BY <1>6, <3>1, <3>3
    <3> QED
      BY <3>2, <3>3
  <2>2. ASSUME NEW c \in ToSet(free_list'[w][j])
        PROVE  /\ c \in malloced' /\ wanted'[c] = 0 /\ index'[c] = j
               /\ \A x \in Threads : c \in ToSet(free_list'[x][j]) => x = w
    <3>1. c \in ToSet(free_list[w][j]) /\ c # b
      BY <1>7, <2>2
    <3>2. c \in malloced /\ wanted[c] = 0 /\ index[c] = j
      BY <3>1 DEF MemoryInv, Bucketed
    <3>3. ASSUME NEW x \in Threads, c \in ToSet(free_list'[x][j]) PROVE x = w
      BY <1>7, <3>1, <3>3, SMTT(20) DEF MemoryInv, Bucketed
    <3>4. wanted'[c] = wanted[c]
      BY <1>3, <3>1, <3>2 DEF MemoryInv, MemoryTyped
    <3> QED
      BY <1>3, <3>2, <3>3, <3>4
  <2> QED
    BY <2>1, <2>2
<1>10. Found'
  <2> SUFFICES ASSUME NEW c \in malloced', wanted'[c] = 0
               PROVE  index'[c] \in M!Indices /\ \E w \in Threads : c \in ToSet(free_list'[w][index'[c]])
    BY DEF Found, M!Indices
  <2>1. c \in malloced /\ c # b /\ wanted[c] = 0 /\ index'[c] = index[c]
    BY <1>1, <1>3, <1>21 DEF MemoryInv, MemoryTyped
  <2>2. index[c] \in M!Indices /\ \E w \in Threads : c \in ToSet(free_list[w][index[c]])
    BY <2>1 DEF MemoryInv, Found
  <2> QED
    BY <1>7, <2>1, <2>2
<1>11. Sized'
  BY <1>3 DEF MemoryInv, Sized, M!BlockSize, M!Indices
<1>12. M!BigEnough'
  <2>1. b \in malloced' /\ size <= bytes'[b]
    BY <1>1, <1>3, <1>4 DEF MemoryInv, Sized
  <2> QED
    BY <1>3, <1>21, <2>1 DEF MemoryInv, M!BigEnough
<1> QED
  BY <1>8, <1>9, <1>10, <1>11, <1>12 DEF MemoryInv

LEMMA AllocateCachedKeeps ==
  ASSUME MemoryInv, NEW u \in Threads, NEW size \in 1 .. MaxSize, M!AllocateCached(u, size)
  PROVE  MemoryInv'
<1>1. MaxSize \in Nat /\ Buckets \in Nat
  BY BoundsAssumption
<1>2. size \in Nat /\ size > 0
  BY <1>1
<1>3. PICK i : i = M!indexer(size)
  OBVIOUS
<1>4. i \in Nat /\ size <= M!BlockSize(i)
  BY <1>2, <1>3, IndexFits
<1>5. /\ i < Buckets /\ free_list[u][i] # <<>>
      /\ free_count' = [free_count EXCEPT ![u][i] = @ - 1]
      /\ free_list' = [free_list EXCEPT ![u][i] = Front(@)]
      /\ wanted' = [wanted EXCEPT ![Last(free_list[u][i])] = size]
      /\ UNCHANGED <<malloced, index, bytes>>
  <2> DEFINE j == M!indexer(size)
  <2>1. /\ j < Buckets /\ free_list[u][j] # <<>>
        /\ free_count' = [free_count EXCEPT ![u][j] = @ - 1]
        /\ free_list' = [free_list EXCEPT ![u][j] = Front(@)]
        /\ wanted' = [wanted EXCEPT ![Last(free_list[u][j])] = size]
        /\ UNCHANGED <<malloced, index, bytes>>
    BY DEF M!AllocateCached, M!Use, M!Front, M!Last, Front, Last
  <2> HIDE DEF j
  <2> QED
    BY <1>3, <2>1 DEF j
<1>6. i \in M!Indices
  BY <1>1, <1>4, <1>5 DEF M!Indices
<1> QED
  BY <1>2, <1>4, <1>5, <1>6, TakenFromBucket

LEMMA AllocateNewKeeps ==
  ASSUME MemoryInv, NEW u \in Threads, NEW size \in 1 .. MaxSize, NEW b \in Blocks,
         M!AllocateNew(u, b, size)
  PROVE  MemoryInv'
<1>1. MaxSize \in Nat /\ Buckets \in Nat
  BY BoundsAssumption
<1>2. size \in Nat /\ size > 0
  BY <1>1
<1>3. PICK i : i = M!indexer(size)
  OBVIOUS
<1>4. i \in Nat /\ size <= M!BlockSize(i) /\ M!BlockSize(i) \in Nat
  BY <1>2, <1>3, IndexFits, Powers DEF M!BlockSize, Power
<1>5. /\ b \notin malloced /\ malloced' = malloced \cup {b}
      /\ index' = [index EXCEPT ![b] = i]
      /\ bytes' = [bytes EXCEPT ![b] = IF i < Buckets THEN M!BlockSize(i) ELSE size]
      /\ wanted' = [wanted EXCEPT ![b] = size]
      /\ UNCHANGED <<free_list, free_count>>
  BY <1>3 DEF M!AllocateNew, M!allocate_header, M!Use, M!cached
<1>6. \A c \in Blocks : /\ index'[c] = IF c = b THEN i ELSE index[c]
                        /\ wanted'[c] = IF c = b THEN size ELSE wanted[c]
                        /\ bytes'[c] = IF c = b THEN IF i < Buckets THEN M!BlockSize(i) ELSE size
                                                ELSE bytes[c]
  BY <1>5 DEF MemoryInv, MemoryTyped
<1>7. MemoryTyped'
  BY <1>2, <1>4, <1>5 DEF MemoryInv, MemoryTyped, M!Indices
<1>8. Bucketed'
  <2> SUFFICES ASSUME NEW w \in Threads, NEW j \in M!Indices
               PROVE  /\ IsInjective(free_list'[w][j])
                      /\ free_count'[w][j] = Len(free_list'[w][j]) /\ free_count'[w][j] <= M!Limit(w, j)
                      /\ \A c \in ToSet(free_list'[w][j]) :
                           /\ c \in malloced' /\ wanted'[c] = 0 /\ index'[c] = j
                           /\ \A x \in Threads : c \in ToSet(free_list'[x][j]) => x = w
    BY DEF Bucketed, M!Limit, M!BlockSize, M!Indices
  <2>1. free_list' = free_list /\ free_count' = free_count
    BY <1>5
  <2> QED
    BY <1>5, <1>6, <2>1, SMTT(20) DEF MemoryInv, MemoryTyped, Bucketed
<1>9. Found'
  <2> SUFFICES ASSUME NEW c \in malloced', wanted'[c] = 0
               PROVE  index'[c] \in M!Indices /\ \E w \in Threads : c \in ToSet(free_list'[w][index'[c]])
    BY DEF Found, M!Indices
  <2>1. c \in malloced /\ c # b /\ wanted[c] = 0 /\ index'[c] = index[c]
    BY <1>2, <1>5, <1>6 DEF MemoryInv, MemoryTyped
  <2> QED
    BY <1>5, <2>1 DEF MemoryInv, Found
<1>10. Sized'
  <2> SUFFICES ASSUME NEW c \in malloced', index'[c] \in M!Indices
               PROVE  bytes'[c] = M!BlockSize(index'[c])
    BY DEF Sized, M!BlockSize, M!Indices
  <2>1. CASE c = b
    BY <1>1, <1>4, <1>6, <2>1 DEF M!Indices
  <2>2. CASE c # b
    BY <1>5, <1>6, <2>2 DEF MemoryInv, MemoryTyped, Sized
  <2> QED
    BY <2>1, <2>2
<1>11. M!BigEnough'
  BY <1>1, <1>2, <1>4, <1>5, <1>6 DEF MemoryInv, M!BigEnough
<1> QED
  BY <1>7, <1>8, <1>9, <1>10, <1>11 DEF MemoryInv

LEMMA DeallocateCachedKeeps ==
  ASSUME MemoryInv, NEW u \in Threads, NEW b \in Blocks, M!DeallocateCached(u, b)
  PROVE  MemoryInv'
<1>1. PICK i : i = index[b]
  OBVIOUS
<1>2. PICK q : q = free_list[u][i]
  OBVIOUS
<1>3. /\ wanted[b] > 0 /\ i < Buckets /\ free_count[u][i] < M!Limit(u, i)
      /\ free_count' = [free_count EXCEPT ![u][i] = @ + 1]
      /\ free_list' = [free_list EXCEPT ![u][i] = Append(@, b)]
      /\ wanted' = [wanted EXCEPT ![b] = 0]
      /\ UNCHANGED <<malloced, index, bytes>>
  BY <1>1 DEF M!DeallocateCached, M!Use
<1>4. i \in M!Indices /\ Buckets \in Nat
  <2>1. Buckets \in Nat
    BY BoundsAssumption
  <2>2. i \in Nat
    BY <1>1 DEF MemoryInv, MemoryTyped
  <2> QED
    BY <1>3, <2>1, <2>2 DEF M!Indices
<1>21. malloced' = malloced /\ index' = index /\ bytes' = bytes
  BY <1>3
<1>5. q \in Seq(Blocks) /\ IsInjective(q) /\ b \in malloced
  BY <1>2, <1>3, <1>4 DEF MemoryInv, MemoryTyped, Bucketed, M!BigEnough
<1>6. \A w \in Threads, j \in M!Indices : b \notin ToSet(free_list[w][j])
  BY <1>3 DEF MemoryInv, Bucketed
<1>7. \A w \in Threads, j \in M!Indices :
        /\ free_list'[w][j] = IF w = u /\ j = i THEN Append(q, b) ELSE free_list[w][j]
        /\ free_count'[w][j] = IF w = u /\ j = i THEN free_count[u][i] + 1 ELSE free_count[w][j]
  BY <1>2, <1>3, <1>4 DEF MemoryInv, MemoryTyped
<1>8. /\ Append(q, b) \in Seq(Blocks) /\ Len(Append(q, b)) = Len(q) + 1 /\ Len(q) \in Nat
      /\ ToSet(Append(q, b)) = ToSet(q) \cup {b} /\ IsInjective(Append(q, b))
  BY <1>2, <1>4, <1>5, <1>6, QueueFacts, ElementFacts, DistinctFacts
<1>9. \A c \in Blocks : wanted'[c] = IF c = b THEN 0 ELSE wanted[c]
  BY <1>3 DEF MemoryInv, MemoryTyped
<1>10. MemoryTyped'
  <2>1. free_list' \in [Threads -> [M!Indices -> Seq(Blocks)]]
    BY <1>2, <1>3, <1>4, <1>8 DEF MemoryInv, MemoryTyped
  <2>2. free_count' \in [Threads -> [M!Indices -> Nat]]
    BY <1>3, <1>4 DEF MemoryInv, MemoryTyped
  <2> QED
    BY <1>3, <2>1, <2>2 DEF MemoryInv, MemoryTyped, M!Indices
<1>22. \A w \in Threads, j \in M!Indices :
        ToSet(free_list'[w][j]) = IF w = u /\ j = i THEN ToSet(free_list[w][j]) \cup {b}
                                  ELSE ToSet(free_list[w][j])
  BY <1>2, <1>7, <1>8
<1>11. Bucketed'
  <2> SUFFICES ASSUME NEW w \in Threads, NEW j \in M!Indices
               PROVE  /\ IsInjective(free_list'[w][j])
                      /\ free_count'[w][j] = Len(free_list'[w][j]) /\ free_count'[w][j] <= M!Limit(w, j)
                      /\ \A c \in ToSet(free_list'[w][j]) :
                           /\ c \in malloced' /\ wanted'[c] = 0 /\ index'[c] = j
                           /\ \A x \in Threads : c \in ToSet(free_list'[x][j]) => x = w
    BY DEF Bucketed, M!Limit, M!BlockSize, M!Indices
  <2>1. /\ IsInjective(free_list[w][j]) /\ free_count[w][j] = Len(free_list[w][j])
        /\ free_count[w][j] <= M!Limit(w, j) /\ M!Limit(w, j) \in Nat
    BY LimitIsPositive DEF MemoryInv, Bucketed
  <2>2. /\ IsInjective(free_list'[w][j])
        /\ free_count'[w][j] = Len(free_list'[w][j]) /\ free_count'[w][j] <= M!Limit(w, j)
    <3>1. CASE w = u /\ j = i
      <4>1. free_count[u][i] = Len(q) /\ M!Limit(u, i) \in Nat /\ free_count[u][i] < M!Limit(u, i)
        BY <1>2, <1>3, <2>1, <3>1
      <4>2. free_count'[u][i] = Len(q) + 1 /\ free_list'[u][i] = Append(q, b)
        BY <1>4, <1>7, <4>1
      <4> QED
        BY <1>8, <3>1, <4>1, <4>2
    <3>2. CASE ~(w = u /\ j = i)
      BY <1>7, <2>1, <3>2
    <3> QED
      BY <3>1, <3>2
  <2>3. ASSUME NEW c \in ToSet(free_list'[w][j])
        PROVE  /\ c \in malloced' /\ wanted'[c] = 0 /\ index'[c] = j
               /\ \A x \in Threads : c \in ToSet(free_list'[x][j]) => x = w
    <3>1. CASE c = b
      <4>1. w = u /\ j = i /\ \A x \in Threads : b \in ToSet(free_list'[x][j]) => x = u
        BY <1>6, <1>22, <2>3, <3>1
      <4> QED
        BY <1>1, <1>5, <1>9, <1>21, <3>1, <4>1
    <3>2. CASE c # b
      <4>1. c \in ToSet(free_list[w][j])
        BY <1>22, <2>3, <3>2
      <4>2. /\ c \in malloced /\ wanted[c] = 0 /\ index[c] = j
            /\ \A x \in Threads : c \in ToSet(free_list[x][j]) => x = w
        BY <4>1 DEF MemoryInv, Bucketed
      <4>4. c \in Blocks
        BY <4>2 DEF MemoryInv, MemoryTyped
      <4>3. \A x \in Threads : c \in ToSet(free_list'[x][j]) => c \in ToSet(free_list[x][j])
        BY <1>22, <3>2
      <4> QED
        BY <1>9, <1>21, <3>2, <4>2, <4>3, <4>4
    <3> QED
      BY <3>1, <3>2
  <2> QED
    BY <2>2, <2>3
<1>12. Found'
  <2> SUFFICES ASSUME NEW c \in malloced', wanted'[c] = 0
               PROVE  index'[c] \in M!Indices /\ \E w \in Threads : c \in ToSet(free_list'[w][index'[c]])
    BY DEF Found, M!Indices
  <2>1. CASE c = b
    <3>1. b \in ToSet(free_list'[u][i])
      BY <1>4, <1>22
    <3> QED
      BY <1>1, <1>4, <1>21, <2>1, <3>1
  <2>2. CASE c # b
    <3>1. c \in malloced /\ wanted[c] = 0
      BY <1>9, <1>21, <2>2 DEF MemoryInv, MemoryTyped
    <3>2. index[c] \in M!Indices /\ \E w \in Threads : c \in ToSet(free_list[w][index[c]])
      BY <3>1 DEF MemoryInv, Found
    <3> QED
      BY <1>21, <1>22, <3>2
  <2> QED
    BY <2>1, <2>2
<1>23. Sized'
  BY <1>21 DEF MemoryInv, Sized, M!BlockSize, M!Indices
<1>24. M!BigEnough'
  BY <1>9, <1>21 DEF MemoryInv, M!BigEnough
<1>13. Sized' /\ M!BigEnough'
  BY <1>23, <1>24
<1> QED
  BY <1>10, <1>11, <1>12, <1>13 DEF MemoryInv

LEMMA DeallocateFreeKeeps ==
  ASSUME MemoryInv, NEW u \in Threads, NEW b \in Blocks, M!DeallocateFree(u, b)
  PROVE  MemoryInv'
<1>1. /\ wanted[b] > 0 /\ malloced' = malloced \ {b}
      /\ wanted' = [wanted EXCEPT ![b] = 0]
      /\ UNCHANGED <<free_list, free_count, index, bytes>>
  BY DEF M!DeallocateFree, M!deallocate_header, M!Use, M!cached
<1>2. \A c \in Blocks : wanted'[c] = IF c = b THEN 0 ELSE wanted[c]
  BY <1>1 DEF MemoryInv, MemoryTyped
<1>3. MemoryTyped'
  BY <1>1 DEF MemoryInv, MemoryTyped, M!Indices
<1>4. Bucketed'
  <2> SUFFICES ASSUME NEW w \in Threads, NEW j \in M!Indices
               PROVE  /\ IsInjective(free_list[w][j])
                      /\ free_count[w][j] = Len(free_list[w][j]) /\ free_count[w][j] <= M!Limit(w, j)
                      /\ \A c \in ToSet(free_list[w][j]) :
                           /\ c \in malloced' /\ wanted'[c] = 0 /\ index[c] = j
                           /\ \A x \in Threads : c \in ToSet(free_list[x][j]) => x = w
    BY <1>1 DEF Bucketed, M!Limit, M!BlockSize, M!Indices
  <2> QED
    BY <1>1, <1>2 DEF MemoryInv, MemoryTyped, Bucketed
<1>5. Found'
  BY <1>1, <1>2 DEF MemoryInv, MemoryTyped, Found, M!Indices
<1>6. Sized' /\ M!BigEnough'
  <2>1. Sized'
    BY <1>1 DEF MemoryInv, Sized, M!BlockSize, M!Indices
  <2>2. M!BigEnough'
    BY <1>1, <1>2 DEF MemoryInv, M!BigEnough
  <2> QED
    BY <2>1, <2>2
<1> QED
  BY <1>3, <1>4, <1>5, <1>6 DEF MemoryInv

LEMMA ClearKeeps ==
  ASSUME MemoryInv, NEW u \in Threads, M!clear(u)
  PROVE  MemoryInv'
<1>1. /\ malloced' = malloced \ UNION {ToSet(free_list[u][i]) : i \in M!Indices}
      /\ free_list' = [free_list EXCEPT ![u] = [i \in M!Indices |-> <<>>]]
      /\ free_count' = [free_count EXCEPT ![u] = [i \in M!Indices |-> 0]]
      /\ UNCHANGED <<index, bytes, wanted>>
  BY DEF M!clear, M!ToSet, ToSet
<1>2. \A w \in Threads, j \in M!Indices :
        /\ free_list'[w][j] = IF w = u THEN <<>> ELSE free_list[w][j]
        /\ free_count'[w][j] = IF w = u THEN 0 ELSE free_count[w][j]
  BY <1>1 DEF MemoryInv, MemoryTyped
<1>3. ToSet(<<>>) = {} /\ IsInjective(<<>>) /\ Len(<<>>) = 0
  BY DEF ToSet, IsInjective
<1>4. \A c \in malloced : c \in malloced' <=> \A j \in M!Indices : c \notin ToSet(free_list[u][j])
  BY <1>1
<1>5. MemoryTyped'
  BY <1>1 DEF MemoryInv, MemoryTyped, M!Indices
<1>6. Bucketed'
  <2> SUFFICES ASSUME NEW w \in Threads, NEW j \in M!Indices
               PROVE  /\ IsInjective(free_list'[w][j])
                      /\ free_count'[w][j] = Len(free_list'[w][j]) /\ free_count'[w][j] <= M!Limit(w, j)
                      /\ \A c \in ToSet(free_list'[w][j]) :
                           /\ c \in malloced' /\ wanted[c] = 0 /\ index[c] = j
                           /\ \A x \in Threads : c \in ToSet(free_list'[x][j]) => x = w
    BY <1>1 DEF Bucketed, M!Limit, M!BlockSize, M!Indices
  <2>1. CASE w = u
    BY <1>2, <1>3, <2>1, LimitIsPositive
  <2>2. CASE w # u
    <3>1. /\ IsInjective(free_list[w][j]) /\ free_count[w][j] = Len(free_list[w][j])
          /\ free_count[w][j] <= M!Limit(w, j)
      BY DEF MemoryInv, Bucketed
    <3>2. ASSUME NEW c \in ToSet(free_list[w][j])
          PROVE  /\ c \in malloced' /\ wanted[c] = 0 /\ index[c] = j
                 /\ \A x \in Threads : c \in ToSet(free_list'[x][j]) => x = w
      <4>1. /\ c \in malloced /\ wanted[c] = 0 /\ index[c] = j
            /\ \A x \in Threads : c \in ToSet(free_list[x][j]) => x = w
        BY <3>2 DEF MemoryInv, Bucketed
      <4>2. \A k \in M!Indices : c \in ToSet(free_list[u][k]) => k = j
        BY <4>1 DEF MemoryInv, Bucketed
      <4>3. c \in malloced'
        BY <1>4, <2>2, <4>1, <4>2
      <4> QED
        BY <1>2, <1>3, <4>1, <4>3
    <3> QED
      BY <1>2, <2>2, <3>1, <3>2
  <2> QED
    BY <2>1, <2>2
<1>7. Found'
  <2> SUFFICES ASSUME NEW c \in malloced', wanted[c] = 0
               PROVE  index[c] \in M!Indices /\ \E w \in Threads : c \in ToSet(free_list'[w][index[c]])
    BY <1>1 DEF Found, M!Indices
  <2>1. c \in malloced
    BY <1>1
  <2> QED
    BY <1>2, <1>4, <2>1 DEF MemoryInv, Found
<1>8. Sized'
  BY <1>1 DEF MemoryInv, Sized, M!BlockSize, M!Indices
<1>9. M!BigEnough'
  <2> SUFFICES ASSUME NEW c \in Blocks, wanted[c] > 0
               PROVE  c \in malloced' /\ wanted[c] <= bytes[c]
    BY <1>1 DEF M!BigEnough
  <2>1. c \in malloced /\ wanted[c] <= bytes[c]
    BY DEF MemoryInv, M!BigEnough
  <2>2. \A j \in M!Indices : c \notin ToSet(free_list[u][j])
    BY DEF MemoryInv, MemoryTyped, Bucketed
  <2> QED
    BY <1>4, <2>1, <2>2
<1> QED
  BY <1>5, <1>6, <1>7, <1>8, <1>9 DEF MemoryInv

LEMMA MemoryInvariant == ContainersSpec => []MemoryInv
<1>1. ContainersInit => MemoryInv
  <2> SUFFICES ASSUME ContainersInit PROVE MemoryInv
    OBVIOUS
  <2>1. M!Init
    BY DEF ContainersInit
  <2>2. ToSet(<<>>) = {} /\ IsInjective(<<>>) /\ Len(<<>>) = 0
    BY DEF ToSet, IsInjective
  <2>3. MemoryTyped
    BY <2>1 DEF M!Init, MemoryTyped
  <2>4. Bucketed
    BY <2>1, <2>2, LimitIsPositive DEF M!Init, Bucketed
  <2>5. Found /\ Sized /\ M!BigEnough
    BY <2>1 DEF M!Init, Found, Sized, M!BigEnough
  <2> QED
    BY <2>3, <2>4, <2>5 DEF MemoryInv
<1>2. MemoryInv /\ [ContainersNext]_containersVars => MemoryInv'
  <2> SUFFICES ASSUME MemoryInv, [ContainersNext]_containersVars PROVE MemoryInv'
    OBVIOUS
  <2>1. CASE UNCHANGED memoryVars
    BY <2>1 DEF memoryVars, MemoryInv, MemoryTyped, Bucketed, Found, Sized, M!BigEnough,
                M!Indices, M!Limit, M!BlockSize
  <2>2. CASE M!Next
    BY <2>2, AllocateCachedKeeps, AllocateNewKeeps, DeallocateCachedKeeps, DeallocateFreeKeeps,
       ClearKeeps DEF M!Next
  <2> QED
    BY <2>1, <2>2 DEF ContainersNext, containersVars
<1> QED
  BY <1>1, <1>2, PTL DEF ContainersSpec

\* The buckets of a block, as a set of places, are one or none.
LEMMA BlocksHaveOneUser == MemoryInv => M!OneUser
<1> SUFFICES ASSUME MemoryInv PROVE M!OneUser
  OBVIOUS
<1>1. ASSUME NEW b \in Blocks
      PROVE  IF b \in malloced /\ wanted[b] = 0 THEN \E p \in M!Places(b) : M!Places(b) = {p}
             ELSE M!Places(b) = {}
  <2>1. \A p : p \in M!Places(b) <=>
                 \E w \in Threads, j \in M!Indices :
                   \E k \in DOMAIN free_list[w][j] : free_list[w][j][k] = b /\ p = <<w, j, k>>
    BY DEF M!Places
  <2>2. \A w \in Threads, j \in M!Indices : \A k \in DOMAIN free_list[w][j] :
          free_list[w][j][k] = b => b \in ToSet(free_list[w][j])
    BY DEF ToSet
  <2>3. CASE ~(b \in malloced /\ wanted[b] = 0)
    <3>1. \A w \in Threads, j \in M!Indices : b \notin ToSet(free_list[w][j])
      BY <2>3 DEF MemoryInv, Bucketed
    <3> QED
      BY <2>1, <2>2, <2>3, <3>1
  <2>4. CASE b \in malloced /\ wanted[b] = 0
    <3>1. PICK u \in Threads : b \in ToSet(free_list[u][index[b]])
      BY <2>4 DEF MemoryInv, Found
    <3>2. index[b] \in M!Indices
      BY <2>4 DEF MemoryInv, Found
    <3>3. PICK k \in DOMAIN free_list[u][index[b]] : free_list[u][index[b]][k] = b
      BY <3>1 DEF ToSet
    <3>4. \A w \in Threads, j \in M!Indices : b \in ToSet(free_list[w][j]) => w = u /\ j = index[b]
      BY <3>1, <3>2 DEF MemoryInv, Bucketed
    <3>5. \A m \in DOMAIN free_list[u][index[b]] : free_list[u][index[b]][m] = b => m = k
      BY <3>2, <3>3 DEF MemoryInv, Bucketed, IsInjective
    <3>6. <<u, index[b], k>> \in M!Places(b)
      BY <2>1, <3>2, <3>3
    <3>7. \A p \in M!Places(b) : p = <<u, index[b], k>>
      BY <2>1, <2>2, <3>4, <3>5
    <3>8. M!Places(b) = {<<u, index[b], k>>}
      BY <3>6, <3>7
    <3> QED
      BY <2>4, <3>6, <3>8
  <2> QED
    BY <2>3, <2>4
<1>2. \A w \in Threads, j \in M!Indices :
        free_count[w][j] = Len(free_list[w][j]) /\ free_count[w][j] <= M!Limit(w, j)
  BY DEF MemoryInv, Bucketed
<1> QED
  BY <1>1, <1>2 DEF M!OneUser

-----------------------------------------------------------------------------
(* list: the chain of a list's nodes, for its head h, tail e, size m and    *)
(* the pointers nx.                                                        *)

Linked(s, h, e, m, nx) ==
  /\ s \in Seq(Nodes) /\ IsInjective(s) /\ m = Len(s)
  /\ IF s = <<>> THEN h = Nil ELSE h = s[1] /\ e = s[m]
  /\ \A i \in 1 .. m : nx[s[i]] = IF i < m THEN s[i + 1] ELSE Nil

\* The values in the order of the chain.
Read(s, v) == [i \in 1 .. Len(s) |-> v[s[i]]]

Pointers == [Nodes -> Nodes \cup {Nil}]

LEMMA NodeIsNotNull == \A n \in Nodes : n # Nil
  BY NullAssumption

LEMMA ChainFacts ==
  ASSUME NEW s \in Seq(Nodes)
  PROVE  /\ Len(s) \in Nat /\ DOMAIN s = 1 .. Len(s)
         /\ s = <<>> <=> Len(s) = 0
         /\ \A i \in 1 .. Len(s) : s[i] \in Nodes /\ s[i] \in ToSet(s)
         /\ \A n \in ToSet(s) : n \in Nodes /\ \E i \in 1 .. Len(s) : s[i] = n
  BY EmptySeq, LenProperties, ElementOfSeq DEF ToSet

\* What does not touch a chain's nodes leaves it linked.
LEMMA LinkedFrame ==
  ASSUME NEW s, NEW h, NEW e, NEW m, NEW nx, NEW ny, Linked(s, h, e, m, nx),
         \A n \in ToSet(s) : ny[n] = nx[n]
  PROVE  Linked(s, h, e, m, ny)
  BY ChainFacts DEF Linked

LEMMA LinkedFirst ==
  ASSUME NEW n \in Nodes, NEW nx \in Pointers
  PROVE  /\ Linked(<<n>>, n, n, 1, [nx EXCEPT ![n] = Nil])
         /\ <<n>> = Append(<<>>, n)
<1>1. <<n>> \in Seq(Nodes) /\ Len(<<n>>) = 1 /\ <<n>>[1] = n /\ <<n>> # <<>> /\ IsInjective(<<n>>)
  BY DEF IsInjective
<1> QED
  BY <1>1 DEF Linked, Pointers

LEMMA LinkedAppend ==
  ASSUME NEW s, NEW h, NEW e, NEW m, NEW nx \in Pointers, Linked(s, h, e, m, nx),
         NEW n \in Nodes, n \notin ToSet(s), s # <<>>
  PROVE  Linked(Append(s, n), h, n, m + 1, [nx EXCEPT ![e] = n, ![n] = Nil])
<1> DEFINE r == Append(s, n)
           ny == [nx EXCEPT ![e] = n, ![n] = Nil]
<1>1. /\ s \in Seq(Nodes) /\ IsInjective(s) /\ m = Len(s) /\ m \in Nat /\ m > 0
      /\ h = s[1] /\ e = s[m] /\ DOMAIN s = 1 .. m
      /\ \A i \in 1 .. m : s[i] \in Nodes /\ s[i] # n
      /\ \A i \in 1 .. m : nx[s[i]] = IF i < m THEN s[i + 1] ELSE Nil
  BY ChainFacts DEF Linked
<1>2. r \in Seq(Nodes) /\ Len(r) = m + 1 /\ r[m + 1] = n /\ \A i \in 1 .. m : r[i] = s[i]
  BY <1>1, AppendProperties
<1>3. r # <<>> /\ IsInjective(r)
  BY <1>1, <1>2, DistinctFacts, EmptySeq
<1>4. /\ e \in Nodes /\ e # n
      /\ \A x \in Nodes : ny[x] = IF x = n THEN Nil ELSE IF x = e THEN n ELSE nx[x]
  BY <1>1 DEF Pointers
<1> HIDE DEF r, ny
<1>5. \A i \in 1 .. m + 1 : ny[r[i]] = IF i < m + 1 THEN r[i + 1] ELSE Nil
  <2> SUFFICES ASSUME NEW i \in 1 .. m + 1 PROVE ny[r[i]] = IF i < m + 1 THEN r[i + 1] ELSE Nil
    OBVIOUS
  <2>1. CASE i = m + 1
    BY <1>1, <1>2, <1>4, <2>1
  <2>2. CASE i = m
    BY <1>1, <1>2, <1>4, <2>2
  <2>3. CASE i \in 1 .. m - 1
    <3>1. i \in 1 .. m /\ i + 1 \in 1 .. m /\ i # m /\ m \in 1 .. m
      BY <1>1, <2>3
    <3>2. s[i] # e
      BY <1>1, <3>1 DEF IsInjective
    <3> QED
      BY <1>1, <1>2, <1>4, <3>1, <3>2
  <2> QED
    BY <1>1, <2>1, <2>2, <2>3
<1>6. r[1] = h
  BY <1>1, <1>2
<1> QED
  BY <1>1, <1>2, <1>3, <1>5, <1>6 DEF Linked, r, ny

LEMMA LinkedCons ==
  ASSUME NEW s, NEW h, NEW e, NEW m, NEW nx \in Pointers, Linked(s, h, e, m, nx),
         NEW n \in Nodes, n \notin ToSet(s), s # <<>>
  PROVE  /\ Linked(<<n>> \o s, n, e, m + 1, [nx EXCEPT ![n] = h])
         /\ <<n>> \o s \in Seq(Nodes) /\ ToSet(<<n>> \o s) = ToSet(s) \cup {n}
<1> DEFINE r == <<n>> \o s
           ny == [nx EXCEPT ![n] = h]
<1>1. /\ s \in Seq(Nodes) /\ IsInjective(s) /\ m = Len(s) /\ m \in Nat /\ m > 0
      /\ h = s[1] /\ e = s[m]
      /\ \A i \in 1 .. m : s[i] \in Nodes /\ s[i] # n
      /\ \A i \in 1 .. m : nx[s[i]] = IF i < m THEN s[i + 1] ELSE Nil
  BY ChainFacts DEF Linked
<1>2. /\ <<n>> \in Seq(Nodes) /\ Len(<<n>>) = 1 /\ <<n>>[1] = n /\ IsInjective(<<n>>)
      /\ ToSet(<<n>>) = {n}
  BY DEF IsInjective, ToSet
<1>3. /\ r \in Seq(Nodes) /\ Len(r) = m + 1 /\ r[1] = n
      /\ \A i \in 1 .. m + 1 : i # 1 => r[i] = s[i - 1]
  <2>1. /\ r \in Seq(Nodes) /\ Len(r) = Len(<<n>>) + Len(s)
        /\ \A i \in 1 .. Len(<<n>>) + Len(s) :
             r[i] = IF i <= Len(<<n>>) THEN <<n>>[i] ELSE s[i - Len(<<n>>)]
    BY <1>1, <1>2, ConcatProperties
  <2> HIDE DEF r
  <2>2. r \in Seq(Nodes) /\ Len(r) = m + 1
    BY <1>1, <1>2, <2>1
  <2>3. \A i \in 1 .. m + 1 : r[i] = IF i <= 1 THEN <<n>>[i] ELSE s[i - 1]
    BY <1>1, <1>2, <2>1
  <2>4. 1 \in 1 .. m + 1 /\ \A i \in 1 .. m + 1 : i # 1 => ~(i <= 1)
    BY <1>1
  <2>5. r[1] = <<n>>[1]
    BY <2>3, <2>4
  <2>6. r[1] = n
    BY <1>2, <2>5
  <2>7. \A i \in 1 .. m + 1 : i # 1 => r[i] = s[i - 1]
    BY <2>3, <2>4
  <2> QED
    BY <2>2, <2>6, <2>7
<1>4. r # <<>> /\ IsInjective(r) /\ ToSet(r) = ToSet(s) \cup {n}
  <2>1. IsInjective(r) /\ ToSet(r) = ToSet(s) \cup {n}
    <3>1. /\ ToSet(r) = ToSet(<<n>>) \cup ToSet(s)
          /\ ToSet(<<n>>) \cap ToSet(s) = {} => IsInjective(r)
      <4>1. PICK p \in Seq(Nodes) : p = <<n>>
        BY <1>2
      <4>2. IsInjective(p) /\ r = p \o s
        BY <1>2, <4>1
      <4> HIDE DEF r
      <4>3. ToSet(r) = ToSet(p) \cup ToSet(s) /\ (ToSet(p) \cap ToSet(s) = {} => IsInjective(r))
        BY <1>1, <4>2, ConcatFacts
      <4> QED
        BY <4>1, <4>3
    <3> QED
      BY <1>2, <3>1
  <2> HIDE DEF r
  <2> QED
    BY <1>1, <1>3, <2>1, EmptySeq
<1>5. \A x \in Nodes : ny[x] = IF x = n THEN h ELSE nx[x]
  BY DEF Pointers
<1> HIDE DEF r, ny
<1>6. \A i \in 1 .. m + 1 : ny[r[i]] = IF i < m + 1 THEN r[i + 1] ELSE Nil
  <2> SUFFICES ASSUME NEW i \in 1 .. m + 1 PROVE ny[r[i]] = IF i < m + 1 THEN r[i + 1] ELSE Nil
    OBVIOUS
  <2>1. CASE i = 1
    BY <1>1, <1>3, <1>5, <2>1
  <2>2. CASE i # 1
    <3>1. i - 1 \in 1 .. m /\ i \in 1 .. m + 1 /\ (i < m + 1 => i + 1 \in 1 .. m + 1 /\ i + 1 # 1)
      BY <1>1, <2>2
    <3> QED
      BY <1>1, <1>3, <1>5, <2>2, <3>1
  <2> QED
    BY <2>1, <2>2
<1>7. r[m + 1] = e
  BY <1>1, <1>3
<1> QED
  BY <1>1, <1>3, <1>4, <1>6, <1>7 DEF Linked, r, ny

LEMMA LinkedTail ==
  ASSUME NEW s, NEW h, NEW e, NEW m, NEW nx, Linked(s, h, e, m, nx), s # <<>>
  PROVE  /\ Linked(Tail(s), nx[h], e, m - 1, nx)
         /\ h = s[1] /\ h \in Nodes /\ Tail(s) \in Seq(Nodes)
         /\ ToSet(Tail(s)) = ToSet(s) \ {h}
<1> DEFINE r == Tail(s)
<1>1. /\ s \in Seq(Nodes) /\ IsInjective(s) /\ m = Len(s) /\ m \in Nat /\ m > 0
      /\ h = s[1] /\ e = s[m]
      /\ \A i \in 1 .. m : s[i] \in Nodes
      /\ \A i \in 1 .. m : nx[s[i]] = IF i < m THEN s[i + 1] ELSE Nil
  BY ChainFacts DEF Linked
<1>2. Head(s) = h
  BY <1>1
<1>3. r \in Seq(Nodes) /\ Len(r) = m - 1 /\ \A i \in 1 .. m - 1 : r[i] = s[i + 1]
  BY <1>1, HeadTailProperties
<1>4. IsInjective(r) /\ ToSet(r) = ToSet(s) \ {h}
  BY <1>1, <1>2, DistinctFacts, ElementFacts
<1>5. r = <<>> <=> m = 1
  BY <1>1, <1>3, EmptySeq
<1> HIDE DEF r
<1>6. \A i \in 1 .. m - 1 : nx[r[i]] = IF i < m - 1 THEN r[i + 1] ELSE Nil
  BY <1>1, <1>3
<1>7. IF r = <<>> THEN nx[h] = Nil ELSE nx[h] = r[1] /\ e = r[m - 1]
  BY <1>1, <1>3, <1>5
<1> QED
  BY <1>1, <1>3, <1>4, <1>6, <1>7 DEF Linked, r

LEMMA LinkedConcat ==
  ASSUME NEW p, NEW q, NEW hp, NEW hq, NEW ep, NEW eq, NEW mp, NEW mq, NEW nx \in Pointers,
         Linked(p, hp, ep, mp, nx), Linked(q, hq, eq, mq, nx), p # <<>>, q # <<>>,
         ToSet(p) \cap ToSet(q) = {}
  PROVE  Linked(p \o q, hp, eq, mp + mq, [nx EXCEPT ![ep] = hq])
<1> DEFINE r == p \o q
           ny == [nx EXCEPT ![ep] = hq]
<1>1. /\ p \in Seq(Nodes) /\ IsInjective(p) /\ mp = Len(p) /\ mp \in Nat /\ mp > 0
      /\ hp = p[1] /\ ep = p[mp] /\ DOMAIN p = 1 .. mp
      /\ \A i \in 1 .. mp : p[i] \in Nodes /\ p[i] \in ToSet(p)
      /\ \A i \in 1 .. mp : nx[p[i]] = IF i < mp THEN p[i + 1] ELSE Nil
  BY ChainFacts DEF Linked
<1>2. /\ q \in Seq(Nodes) /\ IsInjective(q) /\ mq = Len(q) /\ mq \in Nat /\ mq > 0
      /\ hq = q[1] /\ eq = q[mq]
      /\ \A i \in 1 .. mq : q[i] \in Nodes /\ q[i] \in ToSet(q)
      /\ \A i \in 1 .. mq : nx[q[i]] = IF i < mq THEN q[i + 1] ELSE Nil
  BY ChainFacts DEF Linked
<1>3. /\ r \in Seq(Nodes) /\ Len(r) = mp + mq
      /\ \A i \in 1 .. mp + mq : r[i] = IF i <= mp THEN p[i] ELSE q[i - mp]
  BY <1>1, <1>2, ConcatProperties
<1>4. IsInjective(r) /\ r # <<>>
  BY <1>1, <1>2, <1>3, ConcatFacts, EmptySeq
<1>5. ep \in Nodes /\ \A x \in Nodes : ny[x] = IF x = ep THEN hq ELSE nx[x]
  BY <1>1 DEF Pointers
<1> HIDE DEF r, ny
<1>6. ASSUME NEW i \in 1 .. mp + mq
      PROVE  ny[r[i]] = IF i < mp + mq THEN r[i + 1] ELSE Nil
  <2>1. CASE i < mp
    <3>1. i \in 1 .. mp /\ i + 1 \in 1 .. mp /\ mp \in 1 .. mp /\ i # mp /\ i + 1 \in 1 .. mp + mq
      BY <1>1, <1>2, <1>6, <2>1
    <3>2. p[i] # ep
      BY <1>1, <3>1 DEF IsInjective
    <3> QED
      BY <1>1, <1>2, <1>3, <1>5, <1>6, <2>1, <3>1, <3>2, SMTT(20)
  <2>2. CASE i = mp
    <3>1. mp + 1 \in 1 .. mp + mq /\ (mp + 1) - mp = 1 /\ i < mp + mq
      BY <1>1, <1>2, <2>2
    <3>2. r[mp + 1] = q[1] /\ r[mp] = p[mp]
      BY <1>1, <1>2, <1>3, <3>1, SMTT(20)
    <3> QED
      BY <1>1, <1>2, <1>5, <2>2, <3>1, <3>2
  <2>3. CASE i > mp
    <3>1. i - mp \in 1 .. mq /\ (i < mp + mq => i + 1 \in 1 .. mp + mq /\ (i + 1) - mp = (i - mp) + 1)
      BY <1>1, <1>2, <1>6, <2>3
    <3>2. r[i] = q[i - mp] /\ (i < mp + mq => r[i + 1] = q[(i - mp) + 1])
      BY <1>1, <1>2, <1>3, <1>6, <2>3, <3>1
    <3>3. q[i - mp] # ep /\ q[i - mp] \in Nodes
      BY <1>1, <1>2, <3>1
    <3>4. nx[q[i - mp]] = IF i - mp < mq THEN q[(i - mp) + 1] ELSE Nil
      BY <1>2, <3>1
    <3>5. i - mp < mq <=> i < mp + mq
      BY <1>1, <1>2, <1>6
    <3> QED
      BY <1>5, <3>2, <3>3, <3>4, <3>5
  <2> QED
    BY <1>1, <1>2, <1>6, <2>1, <2>2, <2>3
<1>7. r[1] = hp /\ r[mp + mq] = eq
  <2>1. /\ 1 \in 1 .. mp + mq /\ 1 <= mp /\ mp + mq \in 1 .. mp + mq
        /\ ~(mp + mq <= mp) /\ (mp + mq) - mp = mq
    BY <1>1, <1>2
  <2> QED
    BY <1>1, <1>2, <1>3, <2>1
<1> QED
  BY <1>1, <1>2, <1>3, <1>4, <1>6, <1>7 DEF Linked, r, ny

\* The walk of Nth from a head h along pointers nx.
Walk(h, nx) ==
  CHOOSE f : f = [k \in Nat \ {0} |->
                    IF k = 1 THEN h ELSE IF f[k - 1] = Nil THEN Nil ELSE nx[f[k - 1]]]

LEMMA NthIsWalk == \A l \in Lists : \A i : L!Nth(l, i) = Walk(head_[l], next)[i]
  BY DEF L!Nth, Walk

\* Following the pointers from the head gives the chain.
LEMMA WalkFollows ==
  ASSUME NEW h, NEW nx, NEW s, NEW e, NEW m, Linked(s, h, e, m, nx), NEW i \in Nat \ {0}
  PROVE  Walk(h, nx)[i] = IF i <= m THEN s[i] ELSE Nil
<1> DEFINE F(f) == [k \in Nat \ {0} |->
                      IF k = 1 THEN h ELSE IF f[k - 1] = Nil THEN Nil ELSE nx[f[k - 1]]]
           w == [k \in Nat \ {0} |-> IF k <= m THEN s[k] ELSE Nil]
           q == CHOOSE f : f = F(f)
<1>1. /\ s \in Seq(Nodes) /\ m \in Nat
      /\ h = IF m = 0 THEN Nil ELSE s[1]
      /\ \A k \in 1 .. m : s[k] # Nil /\ nx[s[k]] = IF k < m THEN s[k + 1] ELSE Nil
  BY ChainFacts, NodeIsNotNull DEF Linked
<1>2. w = F(w)
  <2>1. ASSUME NEW k \in Nat \ {0}
        PROVE  w[k] = IF k = 1 THEN h
                      ELSE IF w[k - 1] = Nil THEN Nil ELSE nx[w[k - 1]]
    <3>1. CASE k = 1
      BY <1>1, <3>1
    <3>2. CASE k # 1 /\ k - 1 <= m
      <4>1. k - 1 \in 1 .. m /\ k - 1 \in Nat \ {0} /\ (k - 1) + 1 = k /\ (k - 1 < m <=> k <= m)
        BY <1>1, <3>2
      <4> QED
        BY <1>1, <3>2, <4>1
    <3>3. CASE k # 1 /\ k - 1 > m
      <4>1. k - 1 \in Nat \ {0} /\ ~(k - 1 <= m) /\ ~(k <= m)
        BY <1>1, <3>3
      <4> QED
        BY <3>3, <4>1
    <3> QED
      BY <1>1, <3>1, <3>2, <3>3
  <2>2. w = [k \in Nat \ {0} |-> w[k]]
    OBVIOUS
  <2> HIDE DEF w
  <2> QED
    BY <2>1, <2>2
<1>3. q = F(q)
  <2> HIDE DEF w, F
  <2> QED
    BY <1>2
<1>4. Walk(h, nx)[i] = q[i]
  BY DEF Walk
<1> DEFINE T == {k \in Nat : k # 0 => q[k] = w[k]}
<1> HIDE DEF q
<1>5. 0 \in T
  OBVIOUS
<1>6. ASSUME NEW k \in Nat, k \in T PROVE k + 1 \in T
  <2>1. k + 1 \in Nat \ {0} /\ (k + 1) - 1 = k /\ (k + 1 = 1 <=> k = 0)
    OBVIOUS
  <2>2. q[k + 1] = IF k = 0 THEN h ELSE IF q[k] = Nil THEN Nil ELSE nx[q[k]]
    <3> HIDE DEF w, T
    <3> QED
      BY <1>3, <2>1
  <2>3. w[k + 1] = IF k = 0 THEN h ELSE IF w[k] = Nil THEN Nil ELSE nx[w[k]]
    <3> HIDE DEF w, T
    <3> QED
      BY <1>2, <2>1
  <2>4. k # 0 => q[k] = w[k]
    BY <1>6
  <2> HIDE DEF w, F
  <2> QED
    BY <2>2, <2>3, <2>4
<1> HIDE DEF T
<1>7. Nat \subseteq T
  BY <1>5, <1>6, Induction
<1>8. q[i] = w[i]
  BY <1>7 DEF T
<1> QED
  BY <1>4, <1>8

-----------------------------------------------------------------------------
(* The values along a chain.                                               *)

ValueMaps == [Nodes -> Values \cup {Nil}]

LEMMA ReadFacts ==
  ASSUME NEW s \in Seq(Nodes), NEW v \in ValueMaps
  PROVE  /\ Read(s, v) \in Seq(Values \cup {Nil}) /\ Len(Read(s, v)) = Len(s)
         /\ \A i \in 1 .. Len(s) : Read(s, v)[i] = v[s[i]]
  BY ChainFacts, IsASeq, LenProperties DEF Read, ValueMaps

\* Sequences with the same length and elements are equal.
LEMMA SameSequence ==
  ASSUME NEW A, NEW p \in Seq(A), NEW q \in Seq(A), Len(p) = Len(q),
         \A i \in 1 .. Len(p) : p[i] = q[i]
  PROVE  p = q
  BY SeqEqual

LEMMA ReadFrame ==
  ASSUME NEW s \in Seq(Nodes), NEW v, NEW w, \A n \in ToSet(s) : v[n] = w[n]
  PROVE  Read(s, v) = Read(s, w)
  BY ChainFacts DEF Read

\* Node n has the value x now.
Updated(w, v, n, x) == w[n] = x /\ \A y \in Nodes : y # n => w[y] = v[y]

LEMMA ReadAppend ==
  ASSUME NEW s \in Seq(Nodes), NEW n \in Nodes, NEW x \in Values,
         NEW v \in ValueMaps, n \notin ToSet(s),
         NEW w \in ValueMaps, Updated(w, v, n, x)
  PROVE  Read(Append(s, n), w) = Append(Read(s, v), x)
<1> DEFINE r == Append(s, n)
           a == Read(r, w)
           c == Read(s, v)
           b == Append(c, x)
           m == Len(s)
<1>1. m \in Nat /\ \A i \in 1 .. m : s[i] \in Nodes /\ s[i] # n
  BY ChainFacts
<1>2. r \in Seq(Nodes) /\ Len(r) = m + 1 /\ r[m + 1] = n /\ \A i \in 1 .. m : r[i] = s[i]
  BY AppendProperties
<1>3. w \in ValueMaps /\ w[n] = x /\ \A y \in Nodes : y # n => w[y] = v[y]
  BY DEF Updated
<1>4. c \in Seq(Values \cup {Nil}) /\ Len(c) = m /\ \A i \in 1 .. m : c[i] = v[s[i]]
  BY ReadFacts
<1> HIDE DEF r, c, m
<1>5. a \in Seq(Values \cup {Nil}) /\ Len(a) = m + 1 /\ \A i \in 1 .. m + 1 : a[i] = w[r[i]]
  <2>1. a \in Seq(Values \cup {Nil}) /\ Len(a) = Len(r) /\ \A i \in 1 .. Len(r) : a[i] = w[r[i]]
    BY <1>2, <1>3, ReadFacts
  <2> HIDE DEF a
  <2> QED
    BY <1>2, <2>1
<1>6. b \in Seq(Values \cup {Nil}) /\ Len(b) = m + 1 /\ b[m + 1] = x /\ \A i \in 1 .. m : b[i] = c[i]
  BY <1>4, AppendProperties
<1> HIDE DEF a, b
<1>7. \A i \in 1 .. m + 1 : a[i] = b[i]
  <2> SUFFICES ASSUME NEW i \in 1 .. m + 1 PROVE a[i] = b[i]
    OBVIOUS
  <2>1. CASE i = m + 1
    BY <1>1, <1>2, <1>3, <1>5, <1>6, <2>1
  <2>2. CASE i # m + 1
    <3>1. i \in 1 .. m
      BY <1>1, <2>2
    <3> QED
      BY <1>1, <1>2, <1>3, <1>4, <1>5, <1>6, <3>1
  <2> QED
    BY <2>1, <2>2
<1>8. a = b
  BY <1>5, <1>6, <1>7, SameSequence
<1> QED
  BY <1>8 DEF a, b, c, r

LEMMA ReadConcat ==
  ASSUME NEW p \in Seq(Nodes), NEW q \in Seq(Nodes), NEW v \in ValueMaps
  PROVE  Read(p \o q, v) = Read(p, v) \o Read(q, v)
<1> DEFINE r == p \o q
           a == Read(r, v)
           c == Read(p, v)
           d == Read(q, v)
           b == c \o d
           m == Len(p)
           n == Len(q)
<1>1. m \in Nat /\ n \in Nat
  BY ChainFacts
<1>2. r \in Seq(Nodes) /\ Len(r) = m + n /\ \A i \in 1 .. m + n : r[i] = IF i <= m THEN p[i] ELSE q[i - m]
  BY ConcatProperties
<1>3. /\ c \in Seq(Values \cup {Nil}) /\ Len(c) = m /\ \A i \in 1 .. m : c[i] = v[p[i]]
      /\ d \in Seq(Values \cup {Nil}) /\ Len(d) = n /\ \A i \in 1 .. n : d[i] = v[q[i]]
  BY ReadFacts
<1> HIDE DEF r, c, d, m, n
<1>4. a \in Seq(Values \cup {Nil}) /\ Len(a) = m + n /\ \A i \in 1 .. m + n : a[i] = v[r[i]]
  <2>1. a \in Seq(Values \cup {Nil}) /\ Len(a) = Len(r) /\ \A i \in 1 .. Len(r) : a[i] = v[r[i]]
    BY <1>2, ReadFacts
  <2> HIDE DEF a
  <2> QED
    BY <1>2, <2>1
<1>5. /\ b \in Seq(Values \cup {Nil}) /\ Len(b) = m + n
      /\ \A i \in 1 .. m + n : b[i] = IF i <= m THEN c[i] ELSE d[i - m]
  <2>1. /\ b \in Seq(Values \cup {Nil}) /\ Len(b) = Len(c) + Len(d)
        /\ \A i \in 1 .. Len(c) + Len(d) : b[i] = IF i <= Len(c) THEN c[i] ELSE d[i - Len(c)]
    BY <1>3, ConcatProperties
  <2> HIDE DEF b
  <2> QED
    BY <1>3, <2>1
<1> HIDE DEF a, b
<1>6. \A i \in 1 .. m + n : a[i] = b[i]
  <2> SUFFICES ASSUME NEW i \in 1 .. m + n PROVE a[i] = b[i]
    OBVIOUS
  <2>1. CASE i <= m
    <3>1. i \in 1 .. m
      BY <1>1, <2>1
    <3>2. a[i] = v[p[i]] /\ b[i] = c[i]
      BY <1>2, <1>4, <1>5, <2>1
    <3> QED
      BY <1>3, <3>1, <3>2
  <2>2. CASE ~(i <= m)
    <3>1. i - m \in 1 .. n
      BY <1>1, <2>2
    <3>2. a[i] = v[q[i - m]] /\ b[i] = d[i - m]
      BY <1>2, <1>4, <1>5, <2>2
    <3> QED
      BY <1>3, <3>1, <3>2
  <2> QED
    BY <2>1, <2>2
<1>7. a = b
  BY <1>4, <1>5, <1>6, SameSequence
<1> QED
  BY <1>7 DEF a, b, c, d, r

LEMMA ReadCons ==
  ASSUME NEW s \in Seq(Nodes), NEW n \in Nodes, NEW x \in Values,
         NEW v \in ValueMaps, n \notin ToSet(s),
         NEW w \in ValueMaps, Updated(w, v, n, x)
  PROVE  Read(Cons(n, s), w) = Cons(x, Read(s, v))
<1>1. w \in ValueMaps /\ w[n] = x /\ \A y \in Nodes : y # n => w[y] = v[y]
  BY DEF Updated
<1>2. PICK p \in Seq(Nodes) : p = <<n>>
  <2>1. <<n>> \in Seq(Nodes)
    OBVIOUS
  <2> QED
    BY <2>1
<1>3. Read(p, w) = <<x>>
  BY <1>1, <1>2 DEF Read
<1>4. Read(s, w) = Read(s, v)
  <2>1. \A y \in ToSet(s) : w[y] = v[y]
    BY <1>1, ChainFacts
  <2> QED
    BY <2>1, ReadFrame
<1>5. Read(p \o s, w) = Read(p, w) \o Read(s, w)
  BY <1>1, ReadConcat
<1> QED
  BY <1>2, <1>3, <1>4, <1>5 DEF Cons

LEMMA ReadTail ==
  ASSUME NEW s \in Seq(Nodes), NEW v \in ValueMaps, s # <<>>
  PROVE  Read(s, v) # <<>> /\ Read(Tail(s), v) = Tail(Read(s, v))
<1> DEFINE r == Tail(s)
           a == Read(r, v)
           c == Read(s, v)
           b == Tail(c)
           m == Len(s)
<1>1. m \in Nat /\ m > 0
  BY ChainFacts
<1>2. r \in Seq(Nodes) /\ Len(r) = m - 1 /\ \A i \in 1 .. m - 1 : r[i] = s[i + 1]
  BY HeadTailProperties
<1>3. c \in Seq(Values \cup {Nil}) /\ Len(c) = m /\ \A i \in 1 .. m : c[i] = v[s[i]]
  BY ReadFacts
<1> HIDE DEF r, c, m
<1>4. c # <<>>
  BY <1>1, <1>3, EmptySeq
<1>5. a \in Seq(Values \cup {Nil}) /\ Len(a) = m - 1 /\ \A i \in 1 .. m - 1 : a[i] = v[r[i]]
  BY <1>2, ReadFacts
<1>6. b \in Seq(Values \cup {Nil}) /\ Len(b) = m - 1 /\ \A i \in 1 .. m - 1 : b[i] = c[i + 1]
  BY <1>3, <1>4, HeadTailProperties
<1> HIDE DEF a, b
<1>7. \A i \in 1 .. m - 1 : a[i] = b[i]
  <2> SUFFICES ASSUME NEW i \in 1 .. m - 1 PROVE a[i] = b[i]
    OBVIOUS
  <2>1. i + 1 \in 1 .. m
    BY <1>1
  <2> QED
    BY <1>2, <1>3, <1>5, <1>6, <2>1, SMTT(20)
<1>8. a = b
  BY <1>5, <1>6, <1>7, SameSequence
<1> QED
  BY <1>4, <1>8 DEF a, b, c, r

-----------------------------------------------------------------------------
(* Who owns a node.                                                        *)

ListTyped ==
  /\ DOMAIN head_ = Lists /\ DOMAIN tail_ = Lists
  /\ size_ \in [Lists -> Nat]
  /\ pool_ \in [Lists -> Seq(Nodes)]
  /\ next \in Pointers
  /\ value \in [Nodes -> Values \cup {Nil}]
  /\ heap \subseteq Nodes
  /\ \A l \in Lists : IsInjective(pool_[l])

\* The lists have the chains c, and a node n is at place[n]: in a list or a pool
\* of owner[n], or with the memory cache.
Owned(c, place, owner) ==
  /\ \A l \in Lists : Linked(c[l], head_[l], tail_[l], size_[l], next)
  /\ \A l \in Lists, n \in Nodes :
       /\ n \in ToSet(c[l]) <=> place[n] = "list" /\ owner[n] = l
       /\ n \in ToSet(pool_[l]) <=> place[n] = "pool" /\ owner[n] = l
  /\ \A n \in Nodes : /\ n \in heap <=> place[n] = "heap"
                      /\ place[n] \in {"list", "pool", "heap"}
                      /\ place[n] # "heap" => owner[n] \in Lists

ListInv == ListTyped /\ \E c, place, owner : Owned(c, place, owner)

LEMMA WalkReads ==
  ASSUME NEW h, NEW nx, NEW s, NEW e, NEW m, Linked(s, h, e, m, nx)
  PROVE  m = Len(s) /\ \A i \in 1 .. m : Walk(h, nx)[i] = s[i] /\ s[i] # Nil
<1>1. s \in Seq(Nodes) /\ m = Len(s) /\ m \in Nat
  BY ChainFacts DEF Linked
<1>2. ASSUME NEW i \in 1 .. m PROVE Walk(h, nx)[i] = s[i] /\ s[i] # Nil
  <2>1. i \in Nat \ {0} /\ i <= m
    BY <1>1
  <2>2. Walk(h, nx)[i] = s[i]
    BY <2>1, WalkFollows
  <2> QED
    BY <1>1, <2>2, ChainFacts, NodeIsNotNull
<1> QED
  BY <1>1, <1>2

LEMMA OnePosition ==
  ASSUME NEW s, IsInjective(s), NEW n
  PROVE  /\ n \notin ToSet(s) => {i \in DOMAIN s : s[i] = n} = {}
         /\ n \in ToSet(s) => \E j : {i \in DOMAIN s : s[i] = n} = {j}
<1>1. ASSUME n \in ToSet(s) PROVE \E j : {i \in DOMAIN s : s[i] = n} = {j}
  <2>1. PICK j \in DOMAIN s : s[j] = n
    BY <1>1 DEF ToSet
  <2>2. \A i \in DOMAIN s : s[i] = n <=> i = j
    BY <2>1 DEF IsInjective
  <2> QED
    BY <2>2
<1>2. n \notin ToSet(s) => {i \in DOMAIN s : s[i] = n} = {}
  BY DEF ToSet
<1> QED
  BY <1>1, <1>2

\* A node is in one place, the tail is the last node, and behind it is Nil.
LEMMA NodesHaveOnePlace == ListInv => L!NodesOwned
<1> SUFFICES ASSUME ListTyped, NEW c, NEW place, NEW owner, Owned(c, place, owner)
             PROVE  L!NodesOwned
  BY DEF ListInv
<1>1. ASSUME NEW l \in Lists
      PROVE  /\ c[l] \in Seq(Nodes) /\ IsInjective(c[l]) /\ size_[l] = Len(c[l]) /\ size_[l] \in Nat
             /\ DOMAIN c[l] = 1 .. size_[l]
             /\ size_[l] > 0 => tail_[l] = c[l][size_[l]]
             /\ \A i \in Nat \ {0} : L!Nth(l, i) = IF i <= size_[l] THEN c[l][i] ELSE Nil
  <2>1. Linked(c[l], head_[l], tail_[l], size_[l], next)
    BY DEF Owned
  <2>2. \A i \in Nat \ {0} : L!Nth(l, i) = IF i <= size_[l] THEN c[l][i] ELSE Nil
    BY <2>1, WalkFollows, NthIsWalk
  <2> QED
    BY <2>1, <2>2, ChainFacts DEF Linked
<1>2. ASSUME NEW l \in Lists
      PROVE  L!Nth(l, size_[l] + 1) = Nil /\ (size_[l] > 0 => L!Nth(l, size_[l]) = tail_[l])
  <2>1. size_[l] + 1 \in Nat \ {0} /\ ~(size_[l] + 1 <= size_[l])
    BY <1>1
  <2>2. size_[l] > 0 => size_[l] \in Nat \ {0}
    BY <1>1
  <2> QED
    BY <1>1, <2>1, <2>2
<1>3. ASSUME NEW n \in Nodes
      PROVE  \E p \in L!Places(n) : L!Places(n) = {p}
  <2> DEFINE InList(l) == {<<"list", l, i>> : i \in {i \in 1 .. size_[l] : L!Nth(l, i) = n}}
             InPool(l) == {<<"pool", l, i>> : i \in {i \in DOMAIN pool_[l] : pool_[l][i] = n}}
             InHeap == {<<"heap">> : m \in heap \cap {n}}
  <2>1. L!Places(n) = (UNION {InList(l) : l \in Lists}) \cup (UNION {InPool(l) : l \in Lists}) \cup InHeap
    BY DEF L!Places
  <2>2. ASSUME NEW l \in Lists
        PROVE  /\ n \notin ToSet(c[l]) => InList(l) = {}
               /\ n \in ToSet(c[l]) => \E p : InList(l) = {p}
    <3> DEFINE J == {i \in 1 .. size_[l] : L!Nth(l, i) = n}
    <3>1. J = {i \in DOMAIN c[l] : c[l][i] = n}
      <4>1. \A i \in 1 .. size_[l] : i \in Nat \ {0} /\ i <= size_[l]
        BY <1>1
      <4>2. \A i \in 1 .. size_[l] : L!Nth(l, i) = c[l][i]
        BY <1>1, <4>1
      <4> QED
        BY <1>1, <4>2
    <3>2. (n \notin ToSet(c[l]) => J = {}) /\ (n \in ToSet(c[l]) => \E j : J = {j})
      <4>1. PICK s : s = c[l] /\ IsInjective(s)
        BY <1>1
      <4> HIDE DEF J
      <4>2. J = {i \in DOMAIN s : s[i] = n}
        BY <3>1, <4>1
      <4> QED
        BY <4>1, <4>2, OnePosition
    <3>3. InList(l) = {<<"list", l, i>> : i \in J}
      OBVIOUS
    <3> HIDE DEF J, InList
    <3>4. (J = {} => InList(l) = {}) /\ \A j : J = {j} => InList(l) = {<<"list", l, j>>}
      BY <3>3
    <3> QED
      BY <3>2, <3>4
  <2>3. ASSUME NEW l \in Lists
        PROVE  /\ n \notin ToSet(pool_[l]) => InPool(l) = {}
               /\ n \in ToSet(pool_[l]) => \E p : InPool(l) = {p}
    <3> DEFINE J == {i \in DOMAIN pool_[l] : pool_[l][i] = n}
    <3>1. (n \notin ToSet(pool_[l]) => J = {}) /\ (n \in ToSet(pool_[l]) => \E j : J = {j})
      BY OnePosition DEF ListTyped
    <3>2. InPool(l) = {<<"pool", l, i>> : i \in J}
      OBVIOUS
    <3> HIDE DEF J, InPool
    <3>4. (J = {} => InPool(l) = {}) /\ \A j : J = {j} => InPool(l) = {<<"pool", l, j>>}
      BY <3>2
    <3> QED
      BY <3>1, <3>4
  <2>4. /\ n \notin heap => InHeap = {}
        /\ n \in heap => InHeap = {<<"heap">>}
    OBVIOUS
  <2>5. \A l \in Lists : /\ n \in ToSet(c[l]) <=> place[n] = "list" /\ owner[n] = l
                         /\ n \in ToSet(pool_[l]) <=> place[n] = "pool" /\ owner[n] = l
    BY DEF Owned
  <2>6. /\ n \in heap <=> place[n] = "heap"
        /\ place[n] \in {"list", "pool", "heap"}
        /\ place[n] # "heap" => owner[n] \in Lists
    BY DEF Owned
  <2> HIDE DEF InList, InPool, InHeap
  <2> DEFINE InLists == UNION {InList(l) : l \in Lists}
             InPools == UNION {InPool(l) : l \in Lists}
  <2>10. L!Places(n) = InLists \cup InPools \cup InHeap
    BY <2>1
  <2>7. CASE place[n] = "list"
    <3>1. PICK p : InList(owner[n]) = {p}
      BY <2>2, <2>5, <2>6, <2>7
    <3>2. /\ \A l \in Lists : l # owner[n] => InList(l) = {}
          /\ \A l \in Lists : InPool(l) = {}
          /\ InHeap = {}
      BY <2>2, <2>3, <2>4, <2>5, <2>6, <2>7
    <3>3. InLists = {p}
      BY <2>6, <2>7, <3>1, <3>2
    <3>4. InPools = {}
      BY <2>6, <2>7, <3>1, <3>2
    <3> HIDE DEF InLists, InPools
    <3>5. L!Places(n) = {p}
      BY <2>10, <3>2, <3>3, <3>4
    <3> QED
      BY <3>5
  <2>8. CASE place[n] = "pool"
    <3>1. PICK p : InPool(owner[n]) = {p}
      BY <2>3, <2>5, <2>6, <2>8
    <3>2. /\ \A l \in Lists : l # owner[n] => InPool(l) = {}
          /\ \A l \in Lists : InList(l) = {}
          /\ InHeap = {}
      BY <2>2, <2>3, <2>4, <2>5, <2>6, <2>8
    <3>3. InLists = {}
      BY <2>6, <2>8, <3>1, <3>2
    <3>4. InPools = {p}
      BY <2>6, <2>8, <3>1, <3>2
    <3> HIDE DEF InLists, InPools
    <3>5. L!Places(n) = {p}
      BY <2>10, <3>2, <3>3, <3>4
    <3> QED
      BY <3>5
  <2>9. CASE place[n] = "heap"
    <3>1. /\ \A l \in Lists : InList(l) = {} /\ InPool(l) = {}
      BY <2>2, <2>3, <2>5, <2>9
    <3>2. InLists = {} /\ InPools = {}
      BY <3>1
    <3> HIDE DEF InLists, InPools
    <3>3. L!Places(n) = {<<"heap">>}
      BY <2>10, <2>4, <2>6, <2>9, <3>2
    <3> QED
      BY <3>3
  <2> QED
    BY <2>6, <2>7, <2>8, <2>9
<1> QED
  BY <1>2, <1>3 DEF L!NodesOwned

\* The node of a new value comes from the list's pool or from the cache.
LEMMA AllocateOwns ==
  ASSUME ListTyped, NEW c, NEW place, NEW owner, Owned(c, place, owner),
         NEW l \in Lists, NEW n \in Nodes, L!Allocate(l, n)
  PROVE  /\ pool_' \in [Lists -> Seq(Nodes)] /\ heap' \subseteq Nodes
         /\ \A k \in Lists : IsInjective(pool_'[k]) /\ n \notin ToSet(c[k])
         /\ \A x \in Nodes, k \in Lists : x \in ToSet(pool_'[k]) <=> x # n /\ x \in ToSet(pool_[k])
         /\ \A x \in Nodes : x \in heap' <=> x # n /\ x \in heap
<1> DEFINE p == pool_[l]
<1>1. p \in Seq(Nodes) /\ IsInjective(p)
  BY DEF ListTyped
<1>2. CASE p # <<>>
  <2>1. n = Last(p) /\ pool_' = [pool_ EXCEPT ![l] = Front(p)] /\ heap' = heap
    BY <1>2 DEF L!Allocate, L!Last, L!Front, Last, Front
  <2> HIDE DEF p
  <2>2. /\ Front(p) \in Seq(Nodes) /\ IsInjective(Front(p))
        /\ ToSet(p) = ToSet(Front(p)) \cup {n} /\ n \notin ToSet(Front(p))
    BY <1>1, <1>2, <2>1, BackFacts
  <2>3. place[n] = "pool" /\ owner[n] = l
    BY <2>2 DEF Owned, p
  <2>4. \A k \in Lists : n \notin ToSet(c[k]) /\ (k # l => n \notin ToSet(pool_[k]))
    BY <2>3 DEF Owned
  <2>5. n \notin heap
    BY <2>3 DEF Owned
  <2>6. /\ pool_' \in [Lists -> Seq(Nodes)]
        /\ \A k \in Lists : pool_'[k] = IF k = l THEN Front(p) ELSE pool_[k]
    BY <2>1, <2>2 DEF ListTyped
  <2>7. \A k \in Lists : IsInjective(pool_'[k])
    BY <2>2, <2>6 DEF ListTyped
  <2>8. \A x \in Nodes, k \in Lists : x \in ToSet(pool_'[k]) <=> x # n /\ x \in ToSet(pool_[k])
    BY <2>2, <2>4, <2>6 DEF p
  <2> QED
    BY <2>1, <2>4, <2>5, <2>6, <2>7, <2>8 DEF ListTyped
<1>3. CASE p = <<>>
  <2>1. n \in heap /\ heap' = heap \ {n} /\ pool_' = pool_
    BY <1>3 DEF L!Allocate
  <2>2. \A k \in Lists : n \notin ToSet(c[k]) /\ n \notin ToSet(pool_[k])
    BY <2>1 DEF Owned
  <2> QED
    BY <2>1, <2>2 DEF ListTyped
<1> QED
  BY <1>2, <1>3

\* A node that leaves its list goes to the list's pool or to the cache.
LEMMA DeallocateOwns ==
  ASSUME ListTyped, NEW c, NEW place, NEW owner, Owned(c, place, owner),
         NEW l \in Lists, NEW n \in Nodes, place[n] = "list", L!Deallocate(l, n)
  PROVE  /\ pool_' \in [Lists -> Seq(Nodes)] /\ heap' \subseteq Nodes
         /\ \A k \in Lists : IsInjective(pool_'[k])
         /\ \E to \in {"pool", "heap"} :
              /\ \A x \in Nodes, k \in Lists :
                   x \in ToSet(pool_'[k]) <=> IF x = n THEN to = "pool" /\ k = l ELSE x \in ToSet(pool_[k])
              /\ \A x \in Nodes : x \in heap' <=> IF x = n THEN to = "heap" ELSE x \in heap
<1> DEFINE p == pool_[l]
<1>1. p \in Seq(Nodes) /\ IsInjective(p)
  BY DEF ListTyped
<1>2. n \notin heap /\ \A k \in Lists : n \notin ToSet(pool_[k])
  BY DEF Owned
<1>3. CASE Len(p) < PoolLimit
  <2>1. pool_' = [pool_ EXCEPT ![l] = Append(p, n)] /\ heap' = heap
    BY <1>3 DEF L!Deallocate
  <2>2. Append(p, n) \in Seq(Nodes) /\ IsInjective(Append(p, n)) /\ ToSet(Append(p, n)) = ToSet(p) \cup {n}
    BY <1>1, <1>2, QueueFacts, ElementFacts, DistinctFacts
  <2> HIDE DEF p
  <2>3. /\ pool_' \in [Lists -> Seq(Nodes)]
        /\ \A k \in Lists : pool_'[k] = IF k = l THEN Append(p, n) ELSE pool_[k]
    BY <2>1, <2>2 DEF ListTyped
  <2>4. \A k \in Lists : IsInjective(pool_'[k])
    BY <2>2, <2>3 DEF ListTyped
  <2>5. \A x \in Nodes, k \in Lists :
          x \in ToSet(pool_'[k]) <=> IF x = n THEN k = l ELSE x \in ToSet(pool_[k])
    BY <1>2, <2>2, <2>3 DEF p
  <2>6. "pool" \in {"pool", "heap"} /\ "pool" # "heap" /\ \A x \in Nodes : x \in heap' <=> x # n /\ x \in heap
    BY <1>2, <2>1
  <2> QED
    BY <2>1, <2>3, <2>4, <2>5, <2>6 DEF ListTyped
<1>4. CASE ~(Len(p) < PoolLimit)
  <2>1. heap' = heap \cup {n} /\ pool_' = pool_
    BY <1>4 DEF L!Deallocate
  <2>2. "heap" \in {"pool", "heap"} /\ "pool" # "heap"
    OBVIOUS
  <2> QED
    BY <1>2, <2>1, <2>2 DEF ListTyped
<1> QED
  BY <1>3, <1>4

ListContents == [l \in Lists |-> L!Content(l)]

\* The contents are the values along the chains, before and after a step.
LEMMA ListPromise ==
  ASSUME ListTyped, NEW c, NEW place, NEW owner, Owned(c, place, owner),
         ListTyped', NEW d, NEW there, NEW whose, Owned(d, there, whose)'
  PROVE  /\ ListInv'
         /\ ListContents = [k \in Lists |-> Read(c[k], value)]
         /\ ListContents' = [k \in Lists |-> Read(d[k], value')]
<1> DEFINE V(k) == Read(c[k], value)
           W(k) == Read(d[k], value')
<1>1. ListInv'
  BY DEF ListInv
<1>2. \A k \in Lists : L!Content(k) = V(k)
  <2> SUFFICES ASSUME NEW k \in Lists PROVE L!Content(k) = V(k)
    OBVIOUS
  <2>1. Linked(c[k], head_[k], tail_[k], size_[k], next)
    BY DEF Owned
  <2>2. L!Content(k) = [i \in 1 .. size_[k] |->
                           IF Walk(head_[k], next)[i] = Nil THEN Nil
                           ELSE value[Walk(head_[k], next)[i]]]
    BY DEF L!Content, L!Nth, Walk
  <2>3. /\ size_[k] = Len(c[k])
        /\ \A i \in 1 .. size_[k] : Walk(head_[k], next)[i] = c[k][i] /\ c[k][i] # Nil
    BY <2>1, WalkReads
  <2>4. L!Content(k) = [i \in 1 .. size_[k] |-> value[c[k][i]]]
    BY <2>2, <2>3
  <2>5. Read(c[k], value) = [i \in 1 .. size_[k] |-> value[c[k][i]]]
    BY <2>3 DEF Read
  <2> QED
    BY <2>4, <2>5
<1>3. \A k \in Lists : L!Content(k)' = W(k)
  <2> SUFFICES ASSUME NEW k \in Lists PROVE L!Content(k)' = W(k)
    OBVIOUS
  <2>1. Linked(d[k], head_[k], tail_[k], size_[k], next)'
    BY DEF Owned
  <2>2. L!Content(k)' = [i \in 1 .. size_'[k] |->
                           IF Walk(head_'[k], next')[i] = Nil THEN Nil
                           ELSE value'[Walk(head_'[k], next')[i]]]
    BY DEF L!Content, L!Nth, Walk
  <2>3. /\ size_'[k] = Len(d[k])
        /\ \A i \in 1 .. size_'[k] : Walk(head_'[k], next')[i] = d[k][i] /\ d[k][i] # Nil
    BY <2>1, WalkReads
  <2>4. L!Content(k)' = [i \in 1 .. size_'[k] |-> value'[d[k][i]]]
    BY <2>2, <2>3
  <2>5. Read(d[k], value') = [i \in 1 .. size_'[k] |-> value'[d[k][i]]]
    BY <2>3 DEF Read
  <2> QED
    BY <2>4, <2>5
<1> QED
  BY <1>1, <1>2, <1>3 DEF ListContents

\* What the contract's steps say of the contents.
LEMMA ListChanges ==
  ASSUME DOMAIN ListContents = Lists, NEW l \in Lists, NEW r \in Lists, NEW v
  PROVE  /\ ListContents' = [ListContents EXCEPT ![l] = Append(ListContents[l], v)]
              => L!Contract!PushBack(l, v)
         /\ ListContents' = [ListContents EXCEPT ![l] = <<v>> \o ListContents[l]]
              => L!Contract!PushFront(l, v)
         /\ ListContents[l] # <<>> /\ ListContents' = [ListContents EXCEPT ![l] = Tail(ListContents[l])]
              => L!Contract!Pop(l)
         /\ ListContents' = [ListContents EXCEPT ![l] = <<>>] => L!Contract!Clear(l)
         /\ ListContents' = [ListContents EXCEPT ![l] = ListContents[l] \o ListContents[r], ![r] = <<>>]
              => L!Contract!Concatenate(l, r)
         /\ ListContents' = [ListContents EXCEPT ![l] = ListContents[r], ![r] = ListContents[l]]
              => L!Contract!Swap(l, r)
BY DEF ListContents, L!Contract!PushBack, L!Contract!PushFront, L!Contract!Pop, L!Contract!Clear,
  L!Contract!Concatenate, L!Contract!Swap, L!Contract!Change

\* The chains of the lists, one by one.
LEMMA OwnedMeans ==
  ASSUME ListTyped, NEW c, NEW place, NEW owner, Owned(c, place, owner), NEW l \in Lists
  PROVE  /\ Linked(c[l], head_[l], tail_[l], size_[l], next)
         /\ c[l] \in Seq(Nodes) /\ IsInjective(c[l]) /\ ToSet(c[l]) \subseteq Nodes
         /\ size_[l] = Len(c[l]) /\ (size_[l] = 0 <=> c[l] = <<>>)
         /\ \A k \in Lists \ {l} : ToSet(c[l]) \cap ToSet(c[k]) = {}
<1>1. Linked(c[l], head_[l], tail_[l], size_[l], next)
  BY DEF Owned
<1>2. c[l] \in Seq(Nodes) /\ IsInjective(c[l]) /\ size_[l] = Len(c[l])
  BY <1>1 DEF Linked
<1>3. ToSet(c[l]) \subseteq Nodes /\ (size_[l] = 0 <=> c[l] = <<>>)
  BY <1>2, ChainFacts
<1>4. \A k \in Lists \ {l} : ToSet(c[l]) \cap ToSet(c[k]) = {}
  BY <1>3 DEF Owned
<1> QED
  BY <1>1, <1>2, <1>3, <1>4

AtAnEnd(s, q, n) == (s = Append(q, n) \/ s = Cons(n, q)) /\ ToSet(s) = ToSet(q) \cup {n}

PointersTyped == DOMAIN head_ = Lists /\ DOMAIN tail_ = Lists /\ next \in Pointers

\* A step changes the chain of no list but l.
OthersStay(c, l) ==
  \A k \in Lists \ {l} : /\ head_'[k] = head_[k] /\ tail_'[k] = tail_[k]
                         /\ \A x \in ToSet(c[k]) : next'[x] = next[x]

\* A new node joins a list, at either end.
LEMMA NewKeeps ==
  ASSUME ListTyped, NEW c, NEW place, NEW owner, Owned(c, place, owner),
         NEW l \in Lists, NEW n \in Nodes, NEW v \in Values, L!New(l, n, v),
         NEW s, Linked(s, head_'[l], tail_'[l], size_[l] + 1, next'),
         AtAnEnd(s, c[l], n), PointersTyped', OthersStay(c, l)
  PROVE  /\ ListInv'
         /\ s = Append(c[l], n) => L!Contract!PushBack(l, v)
         /\ s = Cons(n, c[l]) => L!Contract!PushFront(l, v)
<1> DEFINE d == [k \in Lists |-> IF k = l THEN s ELSE c[k]]
           there == [x \in Nodes |-> IF x = n THEN "list" ELSE place[x]]
           whose == [x \in Nodes |-> IF x = n THEN l ELSE owner[x]]
<1>1. /\ L!Allocate(l, n) /\ value' = [value EXCEPT ![n] = v]
      /\ size_' = [size_ EXCEPT ![l] = size_[l] + 1]
  BY DEF L!New
<1>2. /\ pool_' \in [Lists -> Seq(Nodes)] /\ heap' \subseteq Nodes
      /\ \A k \in Lists : IsInjective(pool_'[k]) /\ n \notin ToSet(c[k])
      /\ \A x \in Nodes, k \in Lists : x \in ToSet(pool_'[k]) <=> x # n /\ x \in ToSet(pool_[k])
      /\ \A x \in Nodes : x \in heap' <=> x # n /\ x \in heap
  BY <1>1, AllocateOwns
<1>3. /\ size_' \in [Lists -> Nat] /\ value' \in [Nodes -> Values \cup {Nil}]
      /\ size_'[l] = size_[l] + 1 /\ \A k \in Lists \ {l} : size_'[k] = size_[k]
  BY <1>1 DEF ListTyped
<1>4. ListTyped'
  BY <1>2, <1>3 DEF ListTyped, PointersTyped
<1>5. ASSUME NEW k \in Lists
      PROVE  Linked(d[k], head_'[k], tail_'[k], size_'[k], next')
  <2>1. CASE k = l
    BY <1>3, <2>1
  <2>2. CASE k # l
    <3>1. Linked(c[k], head_[k], tail_[k], size_[k], next)
      BY DEF Owned
    <3>2. Linked(c[k], head_[k], tail_[k], size_[k], next')
      BY <2>2, <3>1, LinkedFrame DEF OthersStay
    <3> QED
      BY <1>3, <2>2, <3>2 DEF OthersStay
  <2> QED
    BY <2>1, <2>2
<1>6. \A k \in Lists : ToSet(d[k]) = IF k = l THEN ToSet(c[l]) \cup {n} ELSE ToSet(c[k])
  BY DEF AtAnEnd
<1>7. Owned(d, there, whose)'
  <2>1. \A x \in Nodes, k \in Lists : x \in ToSet(d[k]) <=> there[x] = "list" /\ whose[x] = k
    <3> HIDE DEF d
    <3> QED
      BY <1>2, <1>6 DEF Owned
  <2>2. \A x \in Nodes, k \in Lists : x \in ToSet(pool_'[k]) <=> there[x] = "pool" /\ whose[x] = k
    BY <1>2 DEF Owned
  <2>3. \A x \in Nodes : /\ x \in heap' <=> there[x] = "heap"
                         /\ there[x] \in {"list", "pool", "heap"}
                         /\ there[x] # "heap" => whose[x] \in Lists
    BY <1>2 DEF Owned
  <2> HIDE DEF d, there, whose
  <2> QED
    BY <1>5, <2>1, <2>2, <2>3 DEF Owned
<1>8. \A k \in Lists \ {l} : Read(d[k], value') = Read(c[k], value)
  <2> SUFFICES ASSUME NEW k \in Lists \ {l} PROVE Read(c[k], value') = Read(c[k], value)
    OBVIOUS
  <2>1. c[k] \in Seq(Nodes) /\ ToSet(c[k]) \subseteq Nodes
    BY OwnedMeans
  <2>2. \A x \in ToSet(c[k]) : value'[x] = value[x]
    BY <1>1, <1>2, <2>1 DEF ListTyped
  <2> QED
    BY <2>1, <2>2, ReadFrame
<1>9. /\ s = Append(c[l], n) => Read(d[l], value') = Append(Read(c[l], value), v)
      /\ s = Cons(n, c[l]) => Read(d[l], value') = <<v>> \o Read(c[l], value)
  <2>1. c[l] \in Seq(Nodes) /\ n \notin ToSet(c[l]) /\ value \in [Nodes -> Values \cup {Nil}]
    BY <1>2, OwnedMeans DEF ListTyped
  <2>2. d[l] = s
    OBVIOUS
  <2> HIDE DEF d
  <2>3. value \in ValueMaps /\ value' \in ValueMaps /\ Updated(value', value, n, v)
    BY <1>1, <1>3, <2>1 DEF ValueMaps, Updated
  <2>4. ASSUME s = Append(c[l], n)
        PROVE  Read(d[l], value') = Append(Read(c[l], value), v)
    BY <2>1, <2>2, <2>3, <2>4, ReadAppend
  <2>5. ASSUME s = Cons(n, c[l])
        PROVE  Read(d[l], value') = <<v>> \o Read(c[l], value)
    <3>1. Read(Cons(n, c[l]), value') = Cons(v, Read(c[l], value))
      BY <2>1, <2>3, ReadCons
    <3> QED
      BY <2>2, <2>5, <3>1 DEF Cons
  <2> QED
    BY <2>4, <2>5
<1> HIDE DEF d, there, whose
<1>10. /\ ListInv' /\ ListContents = [k \in Lists |-> Read(c[k], value)]
       /\ ListContents' = [k \in Lists |-> Read(d[k], value')]
  BY <1>4, <1>7, ListPromise
<1>11. ASSUME s = Append(c[l], n) PROVE L!Contract!PushBack(l, v)
  <2>1. ListContents' = [ListContents EXCEPT ![l] = Append(ListContents[l], v)]
    BY <1>8, <1>9, <1>10, <1>11
  <2> QED
    BY <1>10, <2>1, ListChanges
<1>12. ASSUME s = Cons(n, c[l]) PROVE L!Contract!PushFront(l, v)
  <2>1. ListContents' = [ListContents EXCEPT ![l] = <<v>> \o ListContents[l]]
    BY <1>8, <1>9, <1>10, <1>12
  <2> QED
    BY <1>10, <2>1, ListChanges
<1> QED
  BY <1>10, <1>11, <1>12

LEMMA FirstKeeps ==
  ASSUME ListTyped, NEW c, NEW place, NEW owner, Owned(c, place, owner),
         NEW l \in Lists, NEW n \in Nodes, NEW v \in Values, L!New(l, n, v),
         size_[l] = 0, L!FirstNode(l, n)
  PROVE  ListInv' /\ L!Contract!PushBack(l, v) /\ L!Contract!PushFront(l, v)
<1>1. /\ head_' = [head_ EXCEPT ![l] = n] /\ tail_' = [tail_ EXCEPT ![l] = n]
      /\ next' = [next EXCEPT ![n] = Nil] /\ next \in Pointers
      /\ DOMAIN head_ = Lists /\ DOMAIN tail_ = Lists
  BY DEF L!FirstNode, ListTyped
<1>2. c[l] = <<>> /\ ToSet(c[l]) = {}
  BY OwnedMeans, ElementFacts
<1>3. n \notin UNION {ToSet(c[k]) : k \in Lists} /\ \A k \in Lists : ToSet(c[k]) \subseteq Nodes
  BY AllocateOwns, OwnedMeans DEF L!New
<1>4. PICK s : s = <<n>>
  OBVIOUS
<1>5. Linked(s, n, n, 1, next') /\ s = Append(c[l], n)
  BY <1>1, <1>2, <1>4, LinkedFirst
<1>6. AtAnEnd(s, c[l], n) /\ s = Append(c[l], n) /\ s = Cons(n, c[l])
  BY <1>2, <1>4, <1>5 DEF ToSet, AtAnEnd, Cons
<1>7. PointersTyped' /\ head_'[l] = n /\ tail_'[l] = n /\ size_[l] + 1 = 1
  BY <1>1 DEF Pointers, PointersTyped
<1>8. OthersStay(c, l)
  BY <1>1, <1>3 DEF Pointers, OthersStay
<1>9. Linked(s, head_'[l], tail_'[l], size_[l] + 1, next')
  BY <1>5, <1>7
<1> QED
  BY <1>6, <1>7, <1>8, <1>9, NewKeeps

LEMMA EmplaceBackKeeps ==
  ASSUME ListInv, NEW l \in Lists, NEW n \in Nodes, NEW v \in Values, L!emplace_back(l, n, v)
  PROVE  ListInv' /\ L!Contract!PushBack(l, v)
<1>1. PICK c, place, owner : Owned(c, place, owner)
  BY DEF ListInv
<1>2. ListTyped /\ L!New(l, n, v)
  BY DEF ListInv, L!emplace_back
<1>3. CASE size_[l] = 0
  BY <1>1, <1>2, <1>3, FirstKeeps DEF L!emplace_back
<1>4. CASE size_[l] # 0
  <2>1. /\ next' = [next EXCEPT ![tail_[l]] = n, ![n] = Nil]
        /\ tail_' = [tail_ EXCEPT ![l] = n] /\ head_' = head_
        /\ next \in Pointers /\ DOMAIN head_ = Lists /\ DOMAIN tail_ = Lists
    BY <1>2, <1>4 DEF L!emplace_back, ListTyped
  <2>2. /\ Linked(c[l], head_[l], tail_[l], size_[l], next) /\ c[l] # <<>> /\ c[l] \in Seq(Nodes)
        /\ \A k \in Lists : n \notin ToSet(c[k])
    BY <1>1, <1>2, <1>4, OwnedMeans, AllocateOwns DEF L!New
  <2>3. Linked(Append(c[l], n), head_[l], n, size_[l] + 1, next')
    BY <2>1, <2>2, LinkedAppend
  <2>4. tail_[l] \in ToSet(c[l])
    <3>1. tail_[l] = c[l][Len(c[l])]
      BY <2>2 DEF Linked
    <3>2. Len(c[l]) \in 1 .. Len(c[l])
      BY <2>2, ChainFacts
    <3> QED
      BY <2>2, <3>1, <3>2, ChainFacts
  <2>5. ToSet(Append(c[l], n)) = ToSet(c[l]) \cup {n}
    BY <2>2, ElementFacts
  <2>6. /\ PointersTyped'
        /\ head_'[l] = head_[l] /\ tail_'[l] = n
    BY <2>1 DEF Pointers, PointersTyped
  <2>7. OthersStay(c, l)
    <3>1. \A k \in Lists \ {l} : tail_[l] \notin ToSet(c[k]) /\ ToSet(c[k]) \subseteq Nodes
      BY <1>1, <1>2, <2>4, OwnedMeans
    <3> QED
      BY <2>1, <2>2, <3>1 DEF Pointers, OthersStay
  <2>8. PICK s : s = Append(c[l], n)
    OBVIOUS
  <2>9. Linked(s, head_'[l], tail_'[l], size_[l] + 1, next') /\ AtAnEnd(s, c[l], n)
    BY <2>3, <2>5, <2>6, <2>8 DEF AtAnEnd
  <2> QED
    BY <1>1, <1>2, <2>6, <2>7, <2>8, <2>9, NewKeeps
<1> QED
  BY <1>3, <1>4

LEMMA EmplaceFrontKeeps ==
  ASSUME ListInv, NEW l \in Lists, NEW n \in Nodes, NEW v \in Values, L!emplace_front(l, n, v)
  PROVE  ListInv' /\ L!Contract!PushFront(l, v)
<1>1. PICK c, place, owner : Owned(c, place, owner)
  BY DEF ListInv
<1>2. ListTyped /\ L!New(l, n, v)
  BY DEF ListInv, L!emplace_front
<1>3. CASE size_[l] = 0
  BY <1>1, <1>2, <1>3, FirstKeeps DEF L!emplace_front
<1>4. CASE size_[l] # 0
  <2>1. /\ next' = [next EXCEPT ![n] = head_[l]]
        /\ head_' = [head_ EXCEPT ![l] = n] /\ tail_' = tail_
        /\ next \in Pointers /\ DOMAIN head_ = Lists /\ DOMAIN tail_ = Lists
    BY <1>2, <1>4 DEF L!emplace_front, ListTyped
  <2>2. /\ Linked(c[l], head_[l], tail_[l], size_[l], next) /\ c[l] # <<>> /\ c[l] \in Seq(Nodes)
        /\ \A k \in Lists : n \notin ToSet(c[k])
    BY <1>1, <1>2, <1>4, OwnedMeans, AllocateOwns DEF L!New
  <2>3. PICK s : s = <<n>> \o c[l]
    OBVIOUS
  <2>4. Linked(s, n, tail_[l], size_[l] + 1, next') /\ ToSet(s) = ToSet(c[l]) \cup {n}
    BY <2>1, <2>2, <2>3, LinkedCons
  <2>5. head_[l] \in Nodes
    BY <2>2, ChainFacts, LinkedTail
  <2>6. /\ PointersTyped'
        /\ head_'[l] = n /\ tail_'[l] = tail_[l]
    BY <2>1, <2>5 DEF Pointers, PointersTyped
  <2>7. OthersStay(c, l)
    <3>1. \A k \in Lists \ {l} : ToSet(c[k]) \subseteq Nodes
      BY <1>1, <1>2, OwnedMeans
    <3> QED
      BY <2>1, <2>2, <3>1 DEF Pointers, OthersStay
  <2>8. /\ Linked(s, head_'[l], tail_'[l], size_[l] + 1, next')
        /\ AtAnEnd(s, c[l], n) /\ s = Cons(n, c[l])
    BY <2>3, <2>4, <2>6 DEF AtAnEnd, Cons
  <2> QED
    BY <1>1, <1>2, <2>6, <2>7, <2>8, NewKeeps
<1> QED
  BY <1>3, <1>4

LEMMA EmptyLinked ==
  ASSUME NEW e, NEW nx
  PROVE  /\ Linked(<<>>, Nil, e, 0, nx)
         /\ \A v : Read(<<>>, v) = <<>>
         /\ ToSet(<<>>) = {}
  BY DEF Linked, IsInjective, Read, ToSet

LEMMA SameCardinality == L!Cardinality(Nodes) = Cardinality(Nodes)
  BY DEF L!Cardinality, Cardinality

\* A step that moves nodes between owners as there and whose say, and leaves
\* the lists the chains d.
LEMMA MovedOwns ==
  ASSUME NEW c, NEW place, NEW owner, Owned(c, place, owner), NEW d, NEW there, NEW whose,
         \A k \in Lists : Linked(d[k], head_'[k], tail_'[k], size_'[k], next'),
         \A x \in Nodes, k \in Lists :
           /\ x \in ToSet(d[k]) <=> there[x] = "list" /\ whose[x] = k
           /\ x \in ToSet(pool_'[k]) <=> there[x] = "pool" /\ whose[x] = k,
         \A x \in Nodes : /\ x \in heap' <=> there[x] = "heap"
                          /\ there[x] \in {"list", "pool", "heap"}
                          /\ there[x] # "heap" => whose[x] \in Lists
  PROVE  Owned(d, there, whose)'
  BY DEF Owned

LEMMA PopKeeps ==
  ASSUME ListInv, NEW l \in Lists, L!pop(l)
  PROVE  ListInv' /\ L!Contract!Pop(l)
<1>1. PICK c, place, owner : Owned(c, place, owner)
  BY DEF ListInv
<1>2. PICK h : h = head_[l]
  OBVIOUS
<1>3. /\ ListTyped /\ size_[l] > 0 /\ L!Deallocate(l, h)
      /\ head_' = [head_ EXCEPT ![l] = next[h]] /\ size_' = [size_ EXCEPT ![l] = size_[l] - 1]
      /\ UNCHANGED <<tail_, next, value>>
  BY <1>2 DEF ListInv, L!pop, ListTyped
<1>4. /\ Linked(c[l], h, tail_[l], size_[l], next) /\ c[l] \in Seq(Nodes)
      /\ size_[l] \in Nat /\ size_[l] # 0 /\ c[l] # <<>>
  BY <1>1, <1>2, <1>3, OwnedMeans DEF ListTyped
<1>5. PICK s : s = Tail(c[l])
  OBVIOUS
<1>6. /\ Linked(s, next[h], tail_[l], size_[l] - 1, next)
      /\ h \in Nodes /\ ToSet(s) = ToSet(c[l]) \ {h}
  BY <1>4, <1>5, LinkedTail
<1>7. h \in ToSet(c[l])
  BY <1>4, LinkedTail, ElementFacts
<1>8. place[h] = "list" /\ owner[h] = l
  BY <1>1, <1>6, <1>7 DEF Owned
<1>9. /\ pool_' \in [Lists -> Seq(Nodes)] /\ heap' \subseteq Nodes
      /\ \A k \in Lists : IsInjective(pool_'[k])
  BY <1>1, <1>3, <1>6, <1>8, DeallocateOwns
<1>10. PICK to \in {"pool", "heap"} :
         /\ \A x \in Nodes, k \in Lists :
              x \in ToSet(pool_'[k]) <=> IF x = h THEN to = "pool" /\ k = l ELSE x \in ToSet(pool_[k])
         /\ \A x \in Nodes : x \in heap' <=> IF x = h THEN to = "heap" ELSE x \in heap
  BY <1>1, <1>3, <1>6, <1>8, DeallocateOwns
<1> DEFINE d == [k \in Lists |-> IF k = l THEN s ELSE c[k]]
           there == [x \in Nodes |-> IF x = h THEN to ELSE place[x]]
<1>11. ListTyped'
  <2>1. size_[l] - 1 \in Nat
    BY <1>4
  <2>2. size_' \in [Lists -> Nat] /\ DOMAIN head_' = Lists
    BY <1>3, <2>1 DEF ListTyped
  <2> QED
    BY <1>3, <1>9, <2>2 DEF ListTyped
<1>12. \A k \in Lists : Linked(d[k], head_'[k], tail_'[k], size_'[k], next')
  <2> SUFFICES ASSUME NEW k \in Lists PROVE Linked(d[k], head_'[k], tail_'[k], size_'[k], next')
    OBVIOUS
  <2>1. CASE k = l
    BY <1>3, <1>6, <2>1 DEF ListTyped
  <2>2. CASE k # l
    BY <1>1, <1>3, <2>2 DEF ListTyped, Owned
  <2> QED
    BY <2>1, <2>2
<1>13. \A x \in Nodes, k \in Lists : x \in ToSet(d[k]) <=> x \in ToSet(c[k]) /\ x # h
  BY <1>1, <1>6, <1>8 DEF Owned
<1>14. Owned(d, there, owner)'
  <2>1. \A x \in Nodes, k \in Lists :
          /\ x \in ToSet(d[k]) <=> there[x] = "list" /\ owner[x] = k
          /\ x \in ToSet(pool_'[k]) <=> there[x] = "pool" /\ owner[x] = k
    <3> HIDE DEF d
    <3> QED
      BY <1>1, <1>8, <1>10, <1>13 DEF Owned
  <2>2. \A x \in Nodes : /\ x \in heap' <=> there[x] = "heap"
                         /\ there[x] \in {"list", "pool", "heap"}
                         /\ there[x] # "heap" => owner[x] \in Lists
    BY <1>1, <1>8, <1>10 DEF Owned
  <2> HIDE DEF d, there
  <2> QED
    BY <1>1, <1>12, <2>1, <2>2, MovedOwns
<1>15. /\ \A k \in Lists \ {l} : Read(d[k], value') = Read(c[k], value)
       /\ Read(c[l], value) # <<>> /\ Read(d[l], value') = Tail(Read(c[l], value))
  <2>1. Read(c[l], value) # <<>> /\ Read(s, value) = Tail(Read(c[l], value))
    BY <1>3, <1>4, <1>5, ReadTail DEF ListTyped, ValueMaps
  <2> QED
    BY <1>3, <2>1
<1> HIDE DEF d, there
<1>16. /\ ListInv' /\ ListContents = [k \in Lists |-> Read(c[k], value)]
       /\ ListContents' = [k \in Lists |-> Read(d[k], value')]
  BY <1>1, <1>3, <1>11, <1>14, ListPromise
<1>17. ListContents[l] # <<>> /\ ListContents' = [ListContents EXCEPT ![l] = Tail(ListContents[l])]
  BY <1>15, <1>16
<1> QED
  BY <1>16, <1>17, ListChanges

\* Two lists trade their chains, and their pools when the allocators go along.
LEMMA SwapKeeps ==
  ASSUME ListInv, NEW l \in Lists, NEW r \in Lists, l # r,
         head_' = L!Swapped(head_, l, r), tail_' = L!Swapped(tail_, l, r),
         size_' = L!Swapped(size_, l, r), pool_' = pool_ \/ pool_' = L!Swapped(pool_, l, r),
         UNCHANGED <<next, value, heap>>
  PROVE  ListInv' /\ L!Contract!Swap(l, r) /\ (size_[l] = 0 => L!Contract!Concatenate(l, r))
<1>1. PICK c, place, owner : Owned(c, place, owner)
  BY DEF ListInv
<1>0. PICK traded \in BOOLEAN : traded <=> pool_' # pool_
  OBVIOUS
<1> DEFINE other(k) == IF k = l THEN r ELSE IF k = r THEN l ELSE k
           d == [k \in Lists |-> c[other(k)]]
           whose == [x \in Nodes |-> IF place[x] = "list" \/ traded THEN other(owner[x]) ELSE owner[x]]
<1>2. ListTyped /\ \A k \in Lists : other(k) \in Lists /\ other(other(k)) = k
  BY DEF ListInv
<1>3. \A k \in Lists : /\ head_'[k] = head_[other(k)] /\ tail_'[k] = tail_[other(k)]
                       /\ size_'[k] = size_[other(k)]
  BY <1>2 DEF ListTyped, L!Swapped
<1>4. \A k \in Lists : pool_'[k] = IF traded THEN pool_[other(k)] ELSE pool_[k]
  BY <1>0, <1>2 DEF ListTyped, L!Swapped
<1>5. ListTyped'
  BY <1>2 DEF ListTyped, L!Swapped
<1>6. \A k \in Lists : Linked(d[k], head_'[k], tail_'[k], size_'[k], next')
  BY <1>1, <1>2, <1>3 DEF Owned
<1>7. Owned(d, place, whose)'
  <2>1. ASSUME NEW x \in Nodes, NEW k \in Lists
        PROVE  /\ x \in ToSet(d[k]) <=> place[x] = "list" /\ whose[x] = k
               /\ x \in ToSet(pool_'[k]) <=> place[x] = "pool" /\ whose[x] = k
    <3>1. /\ x \in ToSet(d[k]) <=> place[x] = "list" /\ owner[x] = other(k)
          /\ x \in ToSet(pool_[k]) <=> place[x] = "pool" /\ owner[x] = k
          /\ x \in ToSet(pool_[other(k)]) <=> place[x] = "pool" /\ owner[x] = other(k)
      BY <1>1, <1>2 DEF Owned
    <3>2. owner[x] = other(k) <=> other(owner[x]) = k
      OBVIOUS
    <3> HIDE DEF other, d
    <3> QED
      BY <1>4, <3>1, <3>2
  <2>2. \A x \in Nodes : /\ x \in heap' <=> place[x] = "heap"
                         /\ place[x] \in {"list", "pool", "heap"}
                         /\ place[x] # "heap" => whose[x] \in Lists
    BY <1>1, <1>2 DEF Owned
  <2> HIDE DEF d, whose, other
  <2>3. \A x \in Nodes, k \in Lists :
          /\ x \in ToSet(d[k]) <=> place[x] = "list" /\ whose[x] = k
          /\ x \in ToSet(pool_'[k]) <=> place[x] = "pool" /\ whose[x] = k
    BY <2>1
  <2> QED
    BY <1>1, <1>6, <2>2, <2>3, MovedOwns
<1>8. /\ \A k \in Lists \ {l, r} : Read(d[k], value') = Read(c[k], value)
      /\ Read(d[l], value') = Read(c[r], value) /\ Read(d[r], value') = Read(c[l], value)
  OBVIOUS
<1> HIDE DEF d, whose
<1>9. /\ ListInv' /\ ListContents = [k \in Lists |-> Read(c[k], value)]
      /\ ListContents' = [k \in Lists |-> Read(d[k], value')]
  BY <1>1, <1>2, <1>5, <1>7, ListPromise
<1>10. ListContents' = [ListContents EXCEPT ![l] = ListContents[r], ![r] = ListContents[l]]
  BY <1>8, <1>9
<1>11. ASSUME size_[l] = 0 PROVE L!Contract!Concatenate(l, r)
  <2>1. c[l] = <<>> /\ c[r] \in Seq(Nodes)
    BY <1>1, <1>2, <1>11, OwnedMeans
  <2>2. Read(c[r], value) \in Seq(Values \cup {Nil})
    BY <1>2, <2>1, ReadFacts DEF ListTyped, ValueMaps
  <2>3. Read(c[l], value) = <<>> /\ <<>> \o Read(c[r], value) = Read(c[r], value)
    BY <2>1, <2>2, EmptyLinked
  <2>4. ListContents' = [ListContents EXCEPT ![l] = ListContents[l] \o ListContents[r], ![r] = <<>>]
    BY <1>9, <1>10, <2>3
  <2> QED
    BY <1>9, <2>4, ListChanges
<1> QED
  BY <1>9, <1>10, <1>11, ListChanges

LEMMA ConcatenateKeeps ==
  ASSUME ListInv, NEW l \in Lists, NEW r \in Lists, l # r, L!concatenate(l, r)
  PROVE  ListInv' /\ L!Contract!Concatenate(l, r)
<1>1. PICK c, place, owner : Owned(c, place, owner)
  BY DEF ListInv
<1>2. ListTyped /\ size_[r] > 0 /\ UNCHANGED <<pool_, value, heap>> /\ size_[l] \in Nat /\ size_[r] \in Nat
  BY DEF ListInv, L!concatenate, ListTyped
<1>3. CASE size_[l] > 0
  <2> DEFINE s == c[l] \o c[r]
             d == [k \in Lists |-> IF k = l THEN s ELSE IF k = r THEN <<>> ELSE c[k]]
             whose == [x \in Nodes |-> IF place[x] = "list" /\ owner[x] = r THEN l ELSE owner[x]]
  <2>1. /\ next' = [next EXCEPT ![tail_[l]] = head_[r]]
        /\ tail_' = [tail_ EXCEPT ![l] = tail_[r], ![r] = Nil]
        /\ head_' = [head_ EXCEPT ![r] = Nil]
        /\ size_' = [size_ EXCEPT ![l] = size_[l] + size_[r], ![r] = 0]
    BY <1>2, <1>3 DEF L!concatenate, ListTyped
  <2>2. /\ Linked(c[l], head_[l], tail_[l], size_[l], next) /\ c[l] # <<>> /\ c[l] \in Seq(Nodes)
        /\ Linked(c[r], head_[r], tail_[r], size_[r], next) /\ c[r] # <<>> /\ c[r] \in Seq(Nodes)
        /\ ToSet(c[l]) \cap ToSet(c[r]) = {}
    <3>1. size_[l] # 0 /\ size_[r] # 0
      BY <1>2, <1>3
    <3>2. Linked(c[l], head_[l], tail_[l], size_[l], next) /\ c[l] # <<>> /\ c[l] \in Seq(Nodes)
      BY <1>1, <1>2, <3>1, OwnedMeans
    <3>3. Linked(c[r], head_[r], tail_[r], size_[r], next) /\ c[r] # <<>> /\ c[r] \in Seq(Nodes)
      BY <1>1, <1>2, <3>1, OwnedMeans
    <3>4. ToSet(c[l]) \cap ToSet(c[r]) = {}
      BY <1>1, <1>2, OwnedMeans
    <3> QED
      BY <3>2, <3>3, <3>4
  <2>3. tail_[l] \in ToSet(c[l]) /\ tail_[l] \in Nodes /\ head_[r] \in Nodes
    BY <2>2, ChainFacts, LinkedTail DEF Linked
  <2>4. Linked(s, head_[l], tail_[r], size_[l] + size_[r], next')
    BY <1>2, <2>1, <2>2, LinkedConcat DEF ListTyped
  <2>5. s \in Seq(Nodes) /\ ToSet(s) = ToSet(c[l]) \cup ToSet(c[r])
    BY <2>2, ConcatFacts
  <2> HIDE DEF s
  <2>6. ListTyped'
    <3>1. size_' \in [Lists -> Nat]
      <4>1. size_[l] + size_[r] \in Nat
        BY <1>2
      <4> QED
        BY <1>2, <2>1, <4>1 DEF ListTyped
    <3>2. next' \in Pointers
      BY <1>2, <2>1, <2>3 DEF ListTyped, Pointers
    <3>3. DOMAIN head_' = Lists /\ DOMAIN tail_' = Lists
      BY <1>2, <2>1 DEF ListTyped
    <3> QED
      BY <1>2, <3>1, <3>2, <3>3 DEF ListTyped
  <2>7. ASSUME NEW k \in Lists
        PROVE  Linked(d[k], head_'[k], tail_'[k], size_'[k], next')
    <3>1. CASE k = l
      BY <1>2, <2>1, <2>4, <3>1 DEF ListTyped
    <3>2. CASE k = r
      BY <1>2, <2>1, <3>2, EmptyLinked DEF ListTyped
    <3>3. CASE k # l /\ k # r
      <4>1. /\ Linked(c[k], head_[k], tail_[k], size_[k], next)
            /\ tail_[l] \notin ToSet(c[k]) /\ ToSet(c[k]) \subseteq Nodes
        BY <1>1, <1>2, <2>3, <3>3, OwnedMeans
      <4>2. \A x \in ToSet(c[k]) : next'[x] = next[x]
        BY <1>2, <2>1, <4>1 DEF ListTyped, Pointers
      <4>3. Linked(c[k], head_[k], tail_[k], size_[k], next')
        BY <4>1, <4>2, LinkedFrame
      <4> QED
        BY <1>2, <2>1, <3>3, <4>3 DEF ListTyped
    <3> QED
      BY <3>1, <3>2, <3>3
  <2>8. Owned(d, place, whose)'
    <3>1. ASSUME NEW x \in Nodes, NEW k \in Lists
          PROVE  /\ x \in ToSet(d[k]) <=> place[x] = "list" /\ whose[x] = k
                 /\ x \in ToSet(pool_'[k]) <=> place[x] = "pool" /\ whose[x] = k
      <4>1. ToSet(d[k]) = IF k = l THEN ToSet(c[l]) \cup ToSet(c[r]) ELSE IF k = r THEN {} ELSE ToSet(c[k])
        BY <2>5, EmptyLinked
      <4> HIDE DEF d
      <4> QED
        BY <1>1, <1>2, <4>1 DEF Owned
    <3>2. \A x \in Nodes : /\ x \in heap' <=> place[x] = "heap"
                           /\ place[x] \in {"list", "pool", "heap"}
                           /\ place[x] # "heap" => whose[x] \in Lists
      BY <1>1, <1>2 DEF Owned
    <3> HIDE DEF d, whose
    <3> QED
      BY <1>1, <2>7, <3>1, <3>2, MovedOwns
  <2>9. /\ \A k \in Lists \ {l, r} : Read(d[k], value') = Read(c[k], value)
        /\ Read(d[l], value') = Read(c[l], value) \o Read(c[r], value)
        /\ Read(d[r], value') = <<>>
    <3>1. Read(s, value) = Read(c[l], value) \o Read(c[r], value)
      BY <1>2, <2>2, ReadConcat DEF ListTyped, ValueMaps, s
    <3> QED
      BY <1>2, <3>1, EmptyLinked
  <2> HIDE DEF d, whose
  <2>10. /\ ListInv' /\ ListContents = [k \in Lists |-> Read(c[k], value)]
         /\ ListContents' = [k \in Lists |-> Read(d[k], value')]
    BY <1>1, <1>2, <2>6, <2>8, ListPromise
  <2>11. ListContents' = [ListContents EXCEPT ![l] = ListContents[l] \o ListContents[r], ![r] = <<>>]
    BY <2>9, <2>10
  <2> QED
    BY <2>10, <2>11, ListChanges
<1>4. CASE ~(size_[l] > 0)
  BY <1>2, <1>4, SwapKeeps DEF L!concatenate
<1> QED
  BY <1>3, <1>4

LEMMA RenewKeeps ==
  ASSUME ListInv, NEW l \in Lists, L!renew(l)
  PROVE  ListInv' /\ L!Contract!Clear(l)
<1>1. PICK c, place, owner : Owned(c, place, owner)
  BY DEF ListInv
<1> DEFINE found == {L!Nth(l, i) : i \in 1 .. Cardinality(Nodes)} \ {Nil}
           d == [k \in Lists |-> IF k = l THEN <<>> ELSE c[k]]
           there == [x \in Nodes |-> IF owner[x] = l THEN "heap" ELSE place[x]]
<1>2. /\ ListTyped /\ UNCHANGED <<next, value>>
      /\ head_' = [head_ EXCEPT ![l] = Nil] /\ tail_' = [tail_ EXCEPT ![l] = Nil]
      /\ size_' = [size_ EXCEPT ![l] = 0] /\ pool_' = [pool_ EXCEPT ![l] = <<>>]
      /\ heap' = heap \cup ToSet(pool_[l]) \cup found
  BY SameCardinality DEF ListInv, L!renew, L!ToSet, ToSet
<1>3. /\ Linked(c[l], head_[l], tail_[l], size_[l], next) /\ c[l] \in Seq(Nodes) /\ IsInjective(c[l])
      /\ ToSet(c[l]) \subseteq Nodes
  BY <1>1, <1>2, OwnedMeans
<1>4. Cardinality(Nodes) \in Nat /\ Len(c[l]) <= Cardinality(Nodes)
  <2>1. IsFiniteSet(Nodes) /\ Cardinality(Nodes) \in Nat
    BY BoundsAssumption, FS_CardinalityType
  <2>2. /\ IsFiniteSet(1 .. Len(c[l])) /\ Cardinality(1 .. Len(c[l])) = Len(c[l])
        /\ Len(c[l]) \in Nat /\ DOMAIN c[l] = 1 .. Len(c[l])
    <3>1. Len(c[l]) \in Nat /\ DOMAIN c[l] = 1 .. Len(c[l])
      BY <1>3, ChainFacts
    <3>2. 1 \in Int /\ Len(c[l]) \in Int
      BY <3>1
    <3>3. /\ IsFiniteSet(1 .. Len(c[l]))
          /\ Cardinality(1 .. Len(c[l])) = IF 1 > Len(c[l]) THEN 0 ELSE Len(c[l]) - 1 + 1
      BY <3>2, FS_Interval
    <3> QED
      BY <3>1, <3>3
  <2>3. c[l] \in Injection(1 .. Len(c[l]), Nodes)
    <3>1. PICK s : s = c[l]
      OBVIOUS
    <3>2. s \in Seq(Nodes) /\ IsInjective(s)
      BY <1>3, <3>1
    <3>3. s \in [1 .. Len(s) -> Nodes]
      BY <3>2
    <3> QED
      BY <3>1, <3>2, <3>3 DEF Injection
  <2> QED
    BY <2>1, <2>2, <2>3, FS_Injection
<1>5. found = ToSet(c[l])
  <2>1. \A i \in 1 .. Len(c[l]) : L!Nth(l, i) = c[l][i] /\ c[l][i] # Nil
    <3>1. \A i \in 1 .. size_[l] : Walk(head_[l], next)[i] = c[l][i] /\ c[l][i] # Nil
      BY <1>3, WalkReads
    <3>2. size_[l] = Len(c[l])
      BY <1>3 DEF Linked
    <3> QED
      BY <3>1, <3>2, NthIsWalk
  <2>2. ASSUME NEW i \in 1 .. Cardinality(Nodes), ~(i <= Len(c[l]))
        PROVE  L!Nth(l, i) = Nil
    <3>1. i \in Nat \ {0} /\ size_[l] = Len(c[l])
      BY <1>3, <1>4 DEF Linked
    <3>2. Walk(head_[l], next)[i] = IF i <= size_[l] THEN c[l][i] ELSE Nil
      BY <1>3, <3>1, WalkFollows
    <3> QED
      BY <2>2, <3>1, <3>2, NthIsWalk
  <2>3. Len(c[l]) \in Nat
    BY <1>3, ChainFacts
  <2>4. found \subseteq ToSet(c[l])
    BY <1>3, <1>4, <2>1, <2>2, <2>3, ChainFacts
  <2>5. ToSet(c[l]) \subseteq found
    BY <1>3, <1>4, <2>1, <2>3, ChainFacts
  <2> QED
    BY <2>4, <2>5
<1> HIDE DEF found
<1>6. ListTyped'
  <2>1. <<>> \in Seq(Nodes) /\ IsInjective(<<>>) /\ ToSet(pool_[l]) \subseteq Nodes
    BY <1>2, ElementFacts DEF ListTyped, IsInjective
  <2> QED
    BY <1>2, <1>3, <1>5, <2>1 DEF ListTyped
<1>7. ASSUME NEW k \in Lists
      PROVE  Linked(d[k], head_'[k], tail_'[k], size_'[k], next')
  <2>1. CASE k = l
    BY <1>2, <2>1, EmptyLinked DEF ListTyped
  <2>2. CASE k # l
    BY <1>1, <1>2, <2>2 DEF ListTyped, Owned
  <2> QED
    BY <2>1, <2>2
<1>8. Owned(d, there, owner)'
  <2>1. ASSUME NEW x \in Nodes, NEW k \in Lists
        PROVE  /\ x \in ToSet(d[k]) <=> there[x] = "list" /\ owner[x] = k
               /\ x \in ToSet(pool_'[k]) <=> there[x] = "pool" /\ owner[x] = k
    <3>1. /\ ToSet(d[k]) = IF k = l THEN {} ELSE ToSet(c[k])
          /\ ToSet(pool_'[k]) = IF k = l THEN {} ELSE ToSet(pool_[k])
      BY <1>2 DEF ListTyped, ToSet
    <3> HIDE DEF d
    <3> QED
      BY <1>1, <3>1 DEF Owned
  <2>2. \A x \in Nodes : /\ x \in heap' <=> there[x] = "heap"
                         /\ there[x] \in {"list", "pool", "heap"}
                         /\ there[x] # "heap" => owner[x] \in Lists
    BY <1>1, <1>2, <1>5 DEF Owned
  <2> HIDE DEF d, there
  <2> QED
    BY <1>1, <1>7, <2>1, <2>2, MovedOwns
<1>9. /\ \A k \in Lists \ {l} : Read(d[k], value') = Read(c[k], value)
      /\ Read(d[l], value') = <<>>
  BY <1>2, EmptyLinked
<1> HIDE DEF d, there
<1>10. /\ ListInv' /\ ListContents = [k \in Lists |-> Read(c[k], value)]
       /\ ListContents' = [k \in Lists |-> Read(d[k], value')]
  BY <1>1, <1>2, <1>6, <1>8, ListPromise
<1>11. ListContents' = [ListContents EXCEPT ![l] = <<>>]
  BY <1>9, <1>10
<1> QED
  BY <1>10, <1>11, ListChanges

\* Every operation keeps the lists in order, and does to their sequences what
\* the contract promises of it.
LEMMA ListStep ==
  ASSUME ListInv
  PROVE  (L!Next => ListInv') /\ L!Promised
<1>1. ASSUME NEW l \in Lists, NEW r \in Lists, l # r, L!move_(l, r)
      PROVE  ListInv' /\ L!Contract!Swap(l, r)
  BY <1>1, SwapKeeps DEF L!move_
<1>2. L!Next => ListInv'
  BY <1>1, EmplaceBackKeeps, EmplaceFrontKeeps, PopKeeps, ConcatenateKeeps, RenewKeeps DEF L!Next
<1>3. L!Promised
  BY <1>1, EmplaceBackKeeps, EmplaceFrontKeeps, PopKeeps, ConcatenateKeeps, RenewKeeps DEF L!Promised
<1> QED
  BY <1>2, <1>3

\* Every step that changes anything is an operation, and so one of the contract's steps.
LEMMA ListOperation ==
  ASSUME L!Next, L!Promised, L!vars' # L!vars
  PROVE  L!Contract!Next
<1>1. ASSUME NEW l \in Lists, NEW n \in Nodes, NEW v \in Values,
             L!emplace_back(l, n, v) \/ L!emplace_front(l, n, v)
      PROVE  L!Contract!Next
  <2>1. L!Contract!PushBack(l, v) \/ L!Contract!PushFront(l, v)
    BY <1>1 DEF L!Promised
  <2> QED
    BY <2>1 DEF L!Contract!Next
<1>2. ASSUME NEW l \in Lists, L!pop(l) \/ L!renew(l)
      PROVE  L!Contract!Next
  <2>1. L!Contract!Pop(l) \/ L!Contract!Clear(l)
    BY <1>2 DEF L!Promised
  <2> QED
    BY <2>1 DEF L!Contract!Next
<1>3. ASSUME NEW l \in Lists, NEW r \in Lists, l # r, L!concatenate(l, r) \/ L!move_(l, r)
      PROVE  L!Contract!Next
  <2>1. L!Contract!Concatenate(l, r) \/ L!Contract!Swap(l, r)
    BY <1>3 DEF L!Promised
  <2> QED
    BY <1>3, <2>1 DEF L!Contract!Next
<1> QED
  BY <1>1, <1>2, <1>3 DEF L!Next

LEMMA ListInvariant == ContainersSpec => []ListInv
<1>1. ContainersInit => ListInv
  <2> SUFFICES ASSUME ContainersInit PROVE ListInv
    OBVIOUS
  <2> DEFINE c == [l \in Lists |-> <<>>]
             place == [n \in Nodes |-> "heap"]
  <2>1. ListTyped
    BY DEF ContainersInit, L!Init, ListTyped, Pointers, IsInjective
  <2>2. Owned(c, place, place)
    BY EmptyLinked DEF ContainersInit, L!Init, Owned, ToSet
  <2> HIDE DEF c, place
  <2> QED
    BY <2>1, <2>2 DEF ListInv
<1>2. ListInv /\ [ContainersNext]_containersVars => ListInv'
  <2> SUFFICES ASSUME ListInv, [ContainersNext]_containersVars PROVE ListInv'
    OBVIOUS
  <2>1. CASE UNCHANGED listVars
    <3>1. PICK c, place, owner : Owned(c, place, owner)
      BY DEF ListInv
    <3>2. Owned(c, place, owner)'
      BY <2>1, <3>1 DEF listVars, Owned
    <3>3. ListTyped'
      BY <2>1 DEF listVars, ListInv, ListTyped
    <3> QED
      BY <3>2, <3>3 DEF ListInv
  <2>2. CASE L!Next
    BY <2>2, ListStep
  <2> QED
    BY <2>1, <2>2 DEF ContainersNext, containersVars
<1> QED
  BY <1>1, <1>2, PTL DEF ContainersSpec

LEMMA ListsImplement == ContainersSpec => L!ImplementsSequences
<1>1. ContainersInit => L!Contract!Init
  <2> SUFFICES ASSUME ContainersInit PROVE L!Contract!Init
    OBVIOUS
  <2>1. \A l \in Lists : L!Content(l) = <<>>
    BY DEF ContainersInit, L!Init, L!Content
  <2> QED
    BY <2>1 DEF L!Contract!Init
<1>2. ListInv /\ [ContainersNext]_containersVars => [L!Contract!Next]_ListContents
  <2> SUFFICES ASSUME ListInv, [ContainersNext]_containersVars PROVE [L!Contract!Next]_ListContents
    OBVIOUS
  <2>1. CASE UNCHANGED listVars
    BY <2>1 DEF listVars, ListContents, L!Content, L!Nth
  <2>2. CASE L!Next /\ ~ UNCHANGED listVars
    <3>1. L!vars' # L!vars
      BY <2>2 DEF listVars, L!vars
    <3> QED
      BY <2>2, <3>1, ListStep, ListOperation
  <2> QED
    BY <2>1, <2>2 DEF ContainersNext, containersVars
<1>3. ListInv => L!Promised
  BY ListStep
<1> QED
  BY <1>1, <1>2, <1>3, ListInvariant, PTL
  DEF ContainersSpec, L!ImplementsSequences, L!Contract!Spec, ListContents

-----------------------------------------------------------------------------
(* The structures together.                                                *)

\* A node is in one list, in one pool or free; the used places of a buffer hold
\* its elements and no others; a block is with its user, large enough, or in one
\* bucket, or not allocated.  Whatever the structures have traded, reused, freed
\* and wrapped, no memory has two owners and none is lost (list::renew goes by the
\* pointers, circular_buffer by the remainders, memory::cache by the headers).
THEOREM MemoryHasOneOwner == ContainersSpec => []MemoryOwned
<1>1. ListInv => L!NodesOwned
  BY NodesHaveOnePlace
<1>2. BufferInv => C!PlacesMatch
  BY BuffersMatch
<1>3. MemoryInv => M!BigEnough /\ M!OneUser
  BY BlocksHaveOneUser DEF MemoryInv
<1> QED
  BY <1>1, <1>2, <1>3, ListInvariant, BufferInvariant, MemoryInvariant, PTL DEF MemoryOwned

\* Following the pointers of a list, or the indices of a buffer, gives a sequence;
\* emplace_back() appends to it, emplace_front() prepends, pop() takes the first,
\* concatenate() and the moves do what they say, on the lists they are called on
\* and no other; and a buffer never holds more than its size.
THEOREM StructuresAreSequences == ContainersSpec => AreSequences
  BY ListsImplement, BuffersImplement, PTL DEF AreSequences
=============================================================================
