------------------------------- MODULE ListFacts -------------------------------
(***************************************************************************)
(* Facts about the lists of the other modules, for their proofs.           *)
(***************************************************************************)
EXTENDS SequencesExt, SequenceTheorems, TLAPS

\* Lengths, and what append, front and pop do to a list's type.
LEMMA QueueFacts ==
  ASSUME NEW S, NEW q \in Seq(S)
  PROVE  /\ Len(q) \in Nat
         /\ q = <<>> <=> Len(q) = 0
         /\ \A e \in S : Append(q, e) \in Seq(S) /\ Len(Append(q, e)) = Len(q) + 1
         /\ q # <<>> => Head(q) \in S /\ Tail(q) \in Seq(S) /\ Len(Tail(q)) = Len(q) - 1
BY EmptySeq, HeadTailProperties, AppendProperties, LenProperties

\* The elements of a list.
LEMMA ElementFacts ==
  ASSUME NEW S, NEW q \in Seq(S)
  PROVE  /\ q = <<>> => ToSet(q) = {}
         /\ ToSet(q) \subseteq S
         /\ \A e \in S : ToSet(Append(q, e)) = ToSet(q) \cup {e}
         /\ q # <<>> => Head(q) \in ToSet(q) /\ ToSet(q) = ToSet(Tail(q)) \cup {Head(q)}
<1>1. Len(q) \in Nat /\ DOMAIN q = 1 .. Len(q)
  BY LenProperties
<1>2. q = <<>> => ToSet(q) = {}
  BY DEF ToSet
<1>3. ToSet(q) \subseteq S
  BY ElementOfSeq, <1>1 DEF ToSet
<1>4. ASSUME NEW e \in S PROVE ToSet(Append(q, e)) = ToSet(q) \cup {e}
  <2> DEFINE r == Append(q, e)
  <2>1. r \in Seq(S) /\ Len(r) = Len(q) + 1 /\ r[Len(q) + 1] = e /\ \A i \in 1 .. Len(q) : r[i] = q[i]
    BY AppendProperties
  <2>2. DOMAIN r = 1 .. Len(q) + 1
    BY <2>1, LenProperties
  <2> HIDE DEF r
  <2> QED
    BY <1>1, <2>1, <2>2 DEF ToSet, r
<1>5. ASSUME q # <<>>
      PROVE  Head(q) \in ToSet(q) /\ ToSet(q) = ToSet(Tail(q)) \cup {Head(q)}
  <2> DEFINE r == Tail(q)
  <2>1. r \in Seq(S) /\ Len(r) = Len(q) - 1 /\ \A i \in 1 .. Len(r) : r[i] = q[i + 1]
    BY <1>5, HeadTailProperties
  <2>2. DOMAIN r = 1 .. Len(q) - 1 /\ Len(q) >= 1
    BY <1>1, <1>5, <2>1, LenProperties, EmptySeq
  <2>3. Head(q) = q[1]
    BY <1>5
  <2> HIDE DEF r
  <2>4. \A i \in 1 .. Len(q) : i = 1 \/ (i - 1 \in DOMAIN r /\ q[i] = r[i - 1])
    BY <1>1, <2>1, <2>2
  <2>5. \A i \in DOMAIN r : i + 1 \in DOMAIN q /\ r[i] = q[i + 1]
    BY <1>1, <2>1, <2>2
  <2>6. Head(q) \in ToSet(q)
    BY <1>1, <2>2, <2>3 DEF ToSet
  <2>7. ToSet(r) \subseteq ToSet(q)
    BY <2>5 DEF ToSet
  <2>8. ToSet(q) \subseteq ToSet(r) \cup {q[1]}
    BY <1>1, <2>4 DEF ToSet
  <2> QED
    BY <2>3, <2>6, <2>7, <2>8 DEF r
<1> QED
  BY <1>2, <1>3, <1>4, <1>5

\* A list without repetitions keeps none when a new element is appended or
\* its front popped.
LEMMA DistinctFacts ==
  ASSUME NEW S, NEW q \in Seq(S), IsInjective(q)
  PROVE  /\ \A e \in S : e \notin ToSet(q) => IsInjective(Append(q, e))
         /\ q # <<>> => IsInjective(Tail(q)) /\ Head(q) \notin ToSet(Tail(q))
<1>1. Len(q) \in Nat /\ DOMAIN q = 1 .. Len(q)
  BY LenProperties
<1>2. ASSUME NEW e \in S, e \notin ToSet(q) PROVE IsInjective(Append(q, e))
  <2> DEFINE r == Append(q, e)
  <2>1. r \in Seq(S) /\ Len(r) = Len(q) + 1 /\ r[Len(q) + 1] = e /\ \A i \in 1 .. Len(q) : r[i] = q[i]
    BY AppendProperties
  <2>2. DOMAIN r = 1 .. Len(q) + 1
    BY <2>1, LenProperties
  <2> HIDE DEF r
  <2> QED
    BY <1>1, <1>2, <2>1, <2>2 DEF ToSet, IsInjective, r
<1>3. ASSUME q # <<>> PROVE IsInjective(Tail(q)) /\ Head(q) \notin ToSet(Tail(q))
  <2> DEFINE r == Tail(q)
  <2>1. r \in Seq(S) /\ Len(r) = Len(q) - 1 /\ \A i \in 1 .. Len(r) : r[i] = q[i + 1]
    BY <1>3, HeadTailProperties
  <2>2. DOMAIN r = 1 .. Len(q) - 1 /\ Len(q) >= 1
    BY <1>1, <1>3, <2>1, LenProperties, EmptySeq
  <2>3. Head(q) = q[1]
    BY <1>3
  <2> HIDE DEF r
  <2>4. \A i \in DOMAIN r : i + 1 \in DOMAIN q /\ i + 1 # 1 /\ r[i] = q[i + 1]
    BY <1>1, <2>1, <2>2
  <2> QED
    BY <1>1, <2>2, <2>3, <2>4 DEF ToSet, IsInjective, r
<1> QED
  BY <1>2, <1>3

\* Two lists one after the other.
LEMMA ConcatFacts ==
  ASSUME NEW S, NEW p \in Seq(S), NEW q \in Seq(S)
  PROVE  /\ p \o q \in Seq(S)
         /\ ToSet(p \o q) = ToSet(p) \cup ToSet(q)
         /\ IsInjective(p) /\ IsInjective(q) /\ ToSet(p) \cap ToSet(q) = {} => IsInjective(p \o q)
<1> DEFINE r == p \o q
           m == Len(p)
           n == Len(q)
<1>1. m \in Nat /\ n \in Nat /\ DOMAIN p = 1 .. m /\ DOMAIN q = 1 .. n
  BY LenProperties
<1>2. /\ r \in Seq(S) /\ Len(r) = m + n
      /\ \A i \in 1 .. m + n : r[i] = IF i <= m THEN p[i] ELSE q[i - m]
  BY ConcatProperties
<1>3. DOMAIN r = 1 .. m + n
  BY <1>2, LenProperties
<1> HIDE DEF r, m, n
<1>4. /\ \A i \in DOMAIN r : (i \in DOMAIN p /\ r[i] = p[i]) \/ (i - m \in DOMAIN q /\ i > m /\ r[i] = q[i - m])
      /\ \A i \in DOMAIN p : i \in DOMAIN r /\ r[i] = p[i]
      /\ \A i \in DOMAIN q : i + m \in DOMAIN r /\ r[i + m] = q[i]
  <2>1. ASSUME NEW i \in DOMAIN q
        PROVE  i + m \in DOMAIN r /\ r[i + m] = q[i]
    <3>1. i + m \in 1 .. m + n /\ ~(i + m <= m) /\ (i + m) - m = i
      BY <1>1
    <3> QED
      BY <1>2, <1>3, <3>1
  <2> QED
    BY <1>1, <1>2, <1>3, <2>1
<1>5. ToSet(r) \subseteq ToSet(p) \cup ToSet(q)
  BY <1>4 DEF ToSet
<1>6. ToSet(p) \subseteq ToSet(r) /\ ToSet(q) \subseteq ToSet(r)
  BY <1>4 DEF ToSet
<1>7. ASSUME IsInjective(p), IsInjective(q), ToSet(p) \cap ToSet(q) = {}
      PROVE  IsInjective(r)
  <2> SUFFICES ASSUME NEW i \in DOMAIN r, NEW j \in DOMAIN r, r[i] = r[j]
               PROVE  i = j
    BY DEF IsInjective
  <2>1. i \in Nat /\ j \in Nat
    BY <1>1, <1>3
  <2>2. CASE i \in DOMAIN p /\ r[i] = p[i] /\ j \in DOMAIN p /\ r[j] = p[j]
    BY <1>7, <2>2 DEF IsInjective
  <2>3. CASE /\ i - m \in DOMAIN q /\ i > m /\ r[i] = q[i - m]
             /\ j - m \in DOMAIN q /\ j > m /\ r[j] = q[j - m]
    <3>1. i - m = j - m
      BY <1>7, <2>3 DEF IsInjective
    <3> QED
      BY <1>1, <2>1, <3>1
  <2>4. CASE i \in DOMAIN p /\ r[i] = p[i] /\ j - m \in DOMAIN q /\ r[j] = q[j - m]
    BY <1>7, <2>4 DEF ToSet
  <2>5. CASE j \in DOMAIN p /\ r[j] = p[j] /\ i - m \in DOMAIN q /\ r[i] = q[i - m]
    BY <1>7, <2>5 DEF ToSet
  <2> QED
    BY <1>4, <2>2, <2>3, <2>4, <2>5
<1> QED
  BY <1>2, <1>5, <1>6, <1>7 DEF r

\* A list cut in two after its k-th element.
LEMMA SplitFacts ==
  ASSUME NEW S, NEW q \in Seq(S), NEW k \in 0 .. Len(q)
  PROVE  LET front == SubSeq(q, 1, k)
             back == SubSeq(q, k + 1, Len(q))
         IN /\ front \in Seq(S) /\ DOMAIN front = 1 .. k
            /\ \A i \in 1 .. k : i \in DOMAIN q /\ front[i] = q[i]
            /\ back \in Seq(S) /\ DOMAIN back = 1 .. Len(q) - k
            /\ \A i \in 1 .. Len(q) - k : i + k \in DOMAIN q /\ back[i] = q[i + k]
            /\ ToSet(q) = ToSet(front) \cup ToSet(back)
            /\ IsInjective(q) =>
                 IsInjective(front) /\ IsInjective(back) /\ ToSet(front) \cap ToSet(back) = {}
<1> DEFINE front == SubSeq(q, 1, k)
           back == SubSeq(q, k + 1, Len(q))
           n == Len(q)
<1>1. n \in Nat /\ DOMAIN q = 1 .. n /\ k \in Nat /\ k <= n
  BY LenProperties
<1>2. /\ front \in Seq(S) /\ Len(front) = k
      /\ \A i \in 1 .. k : i \in DOMAIN q /\ front[i] = q[i]
  <2>1. \A i \in 1 .. k : q[i] \in S /\ i \in DOMAIN q
    BY <1>1, ElementOfSeq
  <2>2. k - 1 + 1 = k /\ \A i \in 1 .. k : 1 + i - 1 = i
    BY <1>1
  <2> QED
    BY <1>1, <2>1, <2>2, SubSeqProperties
<1>3. /\ back \in Seq(S) /\ Len(back) = n - k
      /\ \A i \in 1 .. n - k : i + k \in DOMAIN q /\ back[i] = q[i + k]
  <2>1. \A i \in k + 1 .. n : q[i] \in S
    BY <1>1, ElementOfSeq
  <2>2. PICK m \in Int : m = k + 1
    BY <1>1
  <2>3. n \in Int /\ back = SubSeq(q, m, n) /\ \A i \in m .. n : q[i] \in S
    BY <1>1, <2>1, <2>2
  <2> HIDE DEF back, n
  <2>4. /\ back \in Seq(S)
        /\ Len(back) = IF m <= n THEN n - m + 1 ELSE 0
        /\ \A i \in 1 .. n - m + 1 : back[i] = q[m + i - 1]
    BY <2>3, SubSeqProperties
  <2>5. /\ n - m + 1 = n - k
        /\ \A i \in 1 .. n - k : m + i - 1 = i + k /\ i + k \in 1 .. n
        /\ (IF m <= n THEN n - m + 1 ELSE 0) = n - k
    BY <1>1, <2>2
  <2> QED
    BY <1>1, <2>4, <2>5
<1> HIDE DEF front, back, n
<1>4. DOMAIN front = 1 .. k /\ DOMAIN back = 1 .. n - k
  BY <1>2, <1>3, LenProperties
<1>5. \A i \in DOMAIN q : \/ i \in DOMAIN front /\ q[i] = front[i]
                          \/ i - k \in DOMAIN back /\ q[i] = back[i - k]
  <2> SUFFICES ASSUME NEW i \in DOMAIN q, i \notin DOMAIN front
               PROVE  i - k \in DOMAIN back /\ q[i] = back[i - k]
    BY <1>2, <1>4
  <2>1. i - k \in 1 .. n - k /\ (i - k) + k = i
    BY <1>1, <1>4
  <2> QED
    BY <1>3, <1>4, <2>1
<1>6. ToSet(q) = ToSet(front) \cup ToSet(back)
  <2>1. \A i \in DOMAIN q : q[i] \in ToSet(front) \/ q[i] \in ToSet(back)
    BY <1>5 DEF ToSet
  <2>2. \A i \in DOMAIN front : front[i] \in ToSet(q)
    BY <1>2, <1>4 DEF ToSet
  <2>3. \A i \in DOMAIN back : back[i] \in ToSet(q)
    BY <1>3, <1>4 DEF ToSet
  <2> QED
    BY <2>1, <2>2, <2>3 DEF ToSet
<1>7. ASSUME IsInjective(q)
      PROVE  IsInjective(front) /\ IsInjective(back) /\ ToSet(front) \cap ToSet(back) = {}
  <2>1. IsInjective(front)
    BY <1>2, <1>4, <1>7 DEF IsInjective
  <2>2. IsInjective(back)
    <3> SUFFICES ASSUME NEW i \in DOMAIN back, NEW j \in DOMAIN back, back[i] = back[j]
                 PROVE  i = j
      BY DEF IsInjective
    <3>1. i + k = j + k
      BY <1>3, <1>4, <1>7 DEF IsInjective
    <3> QED
      BY <1>1, <1>4, <3>1
  <2>3. ASSUME NEW i \in DOMAIN front, NEW j \in DOMAIN back, front[i] = back[j]
        PROVE  FALSE
    <3>1. i = j + k
      BY <1>2, <1>3, <1>4, <1>7, <2>3 DEF IsInjective
    <3> QED
      BY <1>1, <1>4, <3>1
  <2> QED
    BY <2>1, <2>2, <2>3 DEF ToSet
<1> QED
  BY <1>2, <1>3, <1>4, <1>6, <1>7 DEF front, back, n

\* A list with an element put in after its k-th.
LEMMA InsertFacts ==
  ASSUME NEW S, NEW q \in Seq(S), NEW k \in 0 .. Len(q), NEW e \in S
  PROVE  LET r == InsertAt(q, k + 1, e)
         IN /\ r \in Seq(S) /\ DOMAIN r = 1 .. Len(q) + 1
            /\ r[k + 1] = e
            /\ \A i \in 1 .. k : r[i] = q[i]
            /\ \A i \in k + 2 .. Len(q) + 1 : i - 1 \in DOMAIN q /\ r[i] = q[i - 1]
            /\ ToSet(r) = ToSet(q) \cup {e}
            /\ IsInjective(q) /\ e \notin ToSet(q) => IsInjective(r)
<1> DEFINE front == SubSeq(q, 1, k)
           back == SubSeq(q, k + 1, Len(q))
           n == Len(q)
           one == <<e>>
           start == front \o one
           r == start \o back
<1>0. n \in Nat /\ DOMAIN q = 1 .. n /\ k \in Nat /\ k <= n
  BY LenProperties
<1>1. InsertAt(q, k + 1, e) = r
  <2>1. InsertAt(q, k + 1, e) = SubSeq(q, 1, (k + 1) - 1) \o <<e>> \o SubSeq(q, k + 1, Len(q))
    BY DEF InsertAt
  <2>2. (k + 1) - 1 = k
    BY <1>0
  <2> QED
    BY <2>1, <2>2, Zenon
<1>2. /\ front \in Seq(S) /\ DOMAIN front = 1 .. k
      /\ \A i \in 1 .. k : i \in DOMAIN q /\ front[i] = q[i]
      /\ back \in Seq(S) /\ DOMAIN back = 1 .. n - k
      /\ \A i \in 1 .. n - k : i + k \in DOMAIN q /\ back[i] = q[i + k]
      /\ ToSet(q) = ToSet(front) \cup ToSet(back)
      /\ IsInjective(q) =>
           IsInjective(front) /\ IsInjective(back) /\ ToSet(front) \cap ToSet(back) = {}
  BY SplitFacts
<1>3. one \in Seq(S) /\ Len(one) = 1 /\ one[1] = e /\ ToSet(one) = {e} /\ IsInjective(one)
  BY DEF ToSet, IsInjective
<1> HIDE DEF front, back, n, one
<1>4. Len(front) = k /\ Len(back) = n - k
  <2>1. Len(front) \in Nat /\ DOMAIN front = 1 .. Len(front) /\ Len(back) \in Nat /\ DOMAIN back = 1 .. Len(back)
    BY <1>2, LenProperties
  <2> QED
    BY <1>0, <1>2, <2>1
<1>5. /\ start \in Seq(S) /\ Len(start) = k + 1
      /\ \A i \in 1 .. k : start[i] = q[i]
      /\ start[k + 1] = e
      /\ ToSet(start) = ToSet(front) \cup {e}
      /\ IsInjective(front) /\ e \notin ToSet(front) => IsInjective(start)
  <2>a. front \in Seq(S) /\ one \in Seq(S)
    BY <1>2, <1>3
  <2>0. /\ start \in Seq(S) /\ Len(start) = Len(front) + Len(one)
        /\ \A i \in 1 .. Len(front) + Len(one) :
             start[i] = IF i <= Len(front) THEN front[i] ELSE one[i - Len(front)]
    BY <2>a, ConcatProperties
  <2>1. /\ start \in Seq(S) /\ Len(start) = k + 1
        /\ \A i \in 1 .. k + 1 : start[i] = IF i <= k THEN front[i] ELSE one[i - k]
    BY <1>3, <1>4, <2>0, Zenon
  <2>2. /\ ToSet(start) = ToSet(front) \cup {e}
        /\ IsInjective(front) /\ e \notin ToSet(front) => IsInjective(start)
    BY <1>2, <1>3, ConcatFacts
  <2>3. ~(k + 1 <= k) /\ k + 1 - k = 1 /\ k + 1 \in 1 .. k + 1 /\ \A i \in 1 .. k : i \in 1 .. k + 1 /\ i <= k
    BY <1>0
  <2> HIDE DEF start
  <2> QED
    BY <1>2, <1>3, <2>1, <2>2, <2>3
<1> HIDE DEF start
<1>6. /\ r \in Seq(S) /\ Len(r) = n + 1
      /\ \A i \in 1 .. n + 1 : r[i] = IF i <= k + 1 THEN start[i] ELSE back[i - (k + 1)]
      /\ ToSet(r) = ToSet(start) \cup ToSet(back)
      /\ IsInjective(start) /\ IsInjective(back) /\ ToSet(start) \cap ToSet(back) = {} => IsInjective(r)
  <2>1. (k + 1) + (n - k) = n + 1
    BY <1>0
  <2>a. start \in Seq(S) /\ back \in Seq(S)
    BY <1>2, <1>5
  <2>2. /\ r \in Seq(S) /\ Len(r) = Len(start) + Len(back)
        /\ \A i \in 1 .. Len(start) + Len(back) :
             r[i] = IF i <= Len(start) THEN start[i] ELSE back[i - Len(start)]
    BY <2>a, ConcatProperties
  <2>3. /\ ToSet(r) = ToSet(start) \cup ToSet(back)
        /\ IsInjective(start) /\ IsInjective(back) /\ ToSet(start) \cap ToSet(back) = {} => IsInjective(r)
    BY <1>2, <1>5, ConcatFacts
  <2> HIDE DEF r
  <2> QED
    BY <1>4, <1>5, <2>1, <2>2, <2>3
<1> HIDE DEF r
<1>7. DOMAIN r = 1 .. n + 1
  BY <1>6, LenProperties
<1>8. r[k + 1] = e /\ \A i \in 1 .. k : r[i] = q[i]
  <2>1. k + 1 \in 1 .. n + 1 /\ \A i \in 1 .. k : i \in 1 .. n + 1 /\ i <= k + 1
    BY <1>0
  <2> QED
    BY <1>5, <1>6, <2>1
<1>9. ASSUME NEW i \in k + 2 .. n + 1
      PROVE  i - 1 \in DOMAIN q /\ r[i] = q[i - 1]
  <2>1. /\ i \in 1 .. n + 1 /\ ~(i <= k + 1) /\ i - (k + 1) \in 1 .. n - k
        /\ (i - (k + 1)) + k = i - 1
    BY <1>0
  <2> QED
    BY <1>2, <1>6, <2>1
<1>10. /\ ToSet(r) = ToSet(q) \cup {e}
       /\ IsInjective(q) /\ e \notin ToSet(q) => IsInjective(r)
  BY <1>2, <1>5, <1>6
<1> QED
  BY <1>1, <1>6, <1>7, <1>8, <1>9, <1>10 DEF n

\* Taking from the front of two lists in a row, and adding to their end.
LEMMA RowFacts ==
  ASSUME NEW S, NEW p \in Seq(S), NEW q \in Seq(S)
  PROVE  /\ p \o <<>> = p /\ <<>> \o q = q
         /\ \A e \in S : p \o Append(q, e) = Append(p \o q, e)
         /\ p # <<>> => /\ p \o q # <<>> /\ Head(p \o q) = Head(p)
                       /\ Tail(p \o q) = Tail(p) \o q
         /\ p # <<>> /\ q # <<>> => Append(Tail(p), Head(q)) \o Tail(q) = Tail(p \o q)
<1>1. p \o <<>> = p /\ <<>> \o q = q
  BY ConcatEmptySeq
<1>2. ASSUME NEW e \in S PROVE p \o Append(q, e) = Append(p \o q, e)
  <2>1. p \o q \in Seq(S) /\ <<e>> \in Seq(S)
    BY ConcatProperties
  <2>2. Append(q, e) = q \o <<e>> /\ Append(p \o q, e) = (p \o q) \o <<e>>
    BY <2>1, AppendIsConcat
  <2> QED
    BY <2>1, <2>2, ConcatAssociative
<1>3. ASSUME p # <<>>
      PROVE  p \o q # <<>> /\ Head(p \o q) = Head(p) /\ Tail(p \o q) = Tail(p) \o q
  <2> DEFINE r == p \o q
             rest == Tail(p)
             m == Len(p)
             n == Len(q)
  <2>1. m \in Nat /\ n \in Nat /\ m # 0
    BY <1>3, EmptySeq, LenProperties
  <2>2. /\ r \in Seq(S) /\ Len(r) = m + n
        /\ \A i \in 1 .. m + n : r[i] = IF i <= m THEN p[i] ELSE q[i - m]
    BY ConcatProperties
  <2>3. /\ rest \in Seq(S) /\ Len(rest) = m - 1
        /\ \A i \in 1 .. m - 1 : rest[i] = p[i + 1]
    BY <1>3, HeadTailProperties
  <2>4. /\ rest \o q \in Seq(S) /\ Len(rest \o q) = (m - 1) + n
        /\ \A i \in 1 .. (m - 1) + n : (rest \o q)[i] = IF i <= m - 1 THEN rest[i] ELSE q[i - (m - 1)]
    BY <2>3, ConcatProperties
  <2>5. r # <<>> /\ Head(r) = r[1] /\ Head(p) = p[1]
    <3>1. Len(r) # 0
      BY <2>1, <2>2
    <3>2. r # <<>>
      BY <3>1, EmptySeq
    <3> QED
      BY <1>3, <2>2, <3>2
  <2>6. /\ Tail(r) \in Seq(S) /\ Len(Tail(r)) = (m + n) - 1
        /\ \A i \in 1 .. (m + n) - 1 : Tail(r)[i] = r[i + 1]
    BY <2>2, <2>5, HeadTailProperties
  <2> DEFINE u == rest \o q
             w == Tail(r)
  <2> HIDE DEF r, rest, m, n, u, w
  <2>7. Head(r) = Head(p)
    <3>1. 1 \in 1 .. m + n /\ 1 <= m
      BY <2>1
    <3> QED
      BY <2>2, <2>5, <3>1
  <2>8. \A i \in 1 .. (m + n) - 1 : w[i] = u[i]
    <3> SUFFICES ASSUME NEW i \in 1 .. (m + n) - 1 PROVE w[i] = u[i]
      OBVIOUS
    <3>1. w[i] = r[i + 1] /\ i + 1 \in 1 .. m + n
      BY <2>1, <2>6 DEF w
    <3>2. CASE i <= m - 1
      <4>1. i + 1 <= m /\ i \in 1 .. m - 1 /\ i \in 1 .. (m - 1) + n
        BY <2>1, <3>2
      <4> QED
        BY <2>2, <2>3, <2>4, <3>1, <3>2, <4>1 DEF u
    <3>3. CASE ~(i <= m - 1)
      <4>1. ~(i + 1 <= m) /\ i \in 1 .. (m - 1) + n /\ (i + 1) - m = i - (m - 1)
        BY <2>1, <3>3
      <4> QED
        BY <2>2, <2>4, <3>1, <3>3, <4>1 DEF u
    <3> QED
      BY <3>2, <3>3
  <2>9. w = u
    <3>1. w \in Seq(S) /\ u \in Seq(S) /\ Len(w) = (m + n) - 1 /\ Len(u) = (m + n) - 1
      BY <2>1, <2>4, <2>6 DEF u, w
    <3> QED
      BY <2>8, <3>1, SeqEqual
  <2> QED
    BY <2>5, <2>7, <2>9 DEF r, rest, u, w
<1>4. ASSUME p # <<>>, q # <<>>
      PROVE  Append(Tail(p), Head(q)) \o Tail(q) = Tail(p \o q)
  <2> DEFINE x == Tail(p)
             h == Head(q)
             y == Tail(q)
             one == <<h>>
  <2>1. x \in Seq(S) /\ h \in S /\ y \in Seq(S) /\ one \in Seq(S)
    BY <1>4, HeadTailProperties
  <2>2. q = one \o y
    <3>1. q = <<Head(q)>> \o Tail(q)
      <4>1. /\ Len(q) \in Nat \ {0} /\ Len(y) = Len(q) - 1
            /\ \A i \in 1 .. Len(y) : y[i] = q[i + 1]
        BY <1>4, EmptySeq, HeadTailProperties
      <4>2. Len(one) = 1 /\ one[1] = q[1]
        BY <1>4
      <4>a. one \in Seq(S) /\ y \in Seq(S)
        BY <2>1
      <4> HIDE DEF one, y, h
      <4>b. /\ one \o y \in Seq(S) /\ Len(one \o y) = Len(one) + Len(y)
            /\ \A i \in 1 .. Len(one) + Len(y) :
                 (one \o y)[i] = IF i <= Len(one) THEN one[i] ELSE y[i - Len(one)]
        BY <4>a, ConcatProperties
      <4>3. /\ one \o y \in Seq(S) /\ Len(one \o y) = 1 + Len(y)
            /\ \A i \in 1 .. 1 + Len(y) : (one \o y)[i] = IF i <= 1 THEN one[i] ELSE y[i - 1]
        BY <4>2, <4>b, Zenon
      <4> DEFINE z == one \o y
      <4> HIDE DEF z
      <4>4. \A i \in 1 .. Len(q) : q[i] = z[i]
        <5> SUFFICES ASSUME NEW i \in 1 .. Len(q) PROVE q[i] = z[i]
          OBVIOUS
        <5>1. i \in 1 .. 1 + Len(y)
          BY <4>1
        <5>2. CASE i = 1
          BY <4>2, <4>3, <5>1, <5>2 DEF z
        <5>3. CASE i # 1
          <6>1. ~(i <= 1) /\ i - 1 \in 1 .. Len(y) /\ (i - 1) + 1 = i
            BY <4>1, <5>3
          <6> QED
            BY <4>1, <4>3, <5>1, <6>1 DEF z
        <5> QED
          BY <5>2, <5>3
      <4>5. Len(q) = Len(z) /\ z \in Seq(S)
        BY <4>1, <4>3 DEF z
      <4>6. q = z
        BY <4>4, <4>5, SeqEqual
      <4> QED
        BY <4>6 DEF z, one, y, h
    <3> QED
      BY <3>1
  <2>3. Append(x, h) = x \o one
    BY <2>1, AppendIsConcat
  <2> HIDE DEF x, h, y, one
  <2>4. (x \o one) \o y = x \o (one \o y)
    BY <2>1, ConcatAssociative, SMTT(20)
  <2>5. Append(x, h) \o y = x \o q
    BY <2>2, <2>3, <2>4
  <2>6. x \o q = Tail(p \o q)
    BY <1>3, <1>4 DEF x
  <2> QED
    BY <2>5, <2>6 DEF x, h, y
<1> QED
  BY <1>1, <1>2, <1>3, <1>4

\* A list is the start of itself with another behind it.
LEMMA PrefixFacts ==
  ASSUME NEW S, NEW p \in Seq(S), NEW q \in Seq(S)
  PROVE  SubSeq(p, 1, Len(p)) = SubSeq(p \o q, 1, Len(p)) /\ Len(p) <= Len(p \o q)
<1>1. Len(p) \in Nat /\ Len(q) \in Nat /\ Len(p \o q) = Len(p) + Len(q)
  BY LenProperties, ConcatProperties
<1>2. CASE Len(p) = 0
  BY <1>1, <1>2, SubSeqEmpty
<1>3. CASE Len(p) # 0
  <2>1. 1 \in 1 .. Len(p) /\ Len(p) \in 1 .. Len(p)
    BY <1>1, <1>3
  <2> QED
    BY <1>1, <2>1, SubSeqOfConcat1
<1> QED
  BY <1>2, <1>3

\* A list with one more element behind it.
LEMMA AppendedFacts ==
  ASSUME NEW S, NEW q \in Seq(S), NEW e \in S
  PROVE  /\ Len(Append(q, e)) = Len(q) + 1
         /\ IsPrefix(q, Append(q, e))
         /\ Last(Append(q, e)) = e
<1>1. Append(q, e) = q \o <<e>> /\ <<e>> \in Seq(S)
  BY AppendIsConcat
<1>2. SubSeq(q, 1, Len(q)) = SubSeq(Append(q, e), 1, Len(q)) /\ Len(q) <= Len(Append(q, e))
  BY <1>1, PrefixFacts
<1>3. Len(Append(q, e)) = Len(q) + 1 /\ Append(q, e)[Len(q) + 1] = e
  BY AppendProperties
<1> QED
  BY <1>2, <1>3 DEF IsPrefix, Last

\* What it is to be the start of a list, element by element.
LEMMA StartFacts ==
  ASSUME NEW S, NEW p \in Seq(S), NEW q \in Seq(S)
  PROVE  IsPrefix(p, q) <=> Len(p) <= Len(q) /\ \A i \in 1 .. Len(p) : p[i] = q[i]
<1>1. Len(p) \in Nat /\ Len(q) \in Nat
  BY LenProperties
<1> DEFINE n == Len(p)
           a == SubSeq(p, 1, n)
           b == SubSeq(q, 1, n)
<1>2. CASE n = 0
  <2>1. a = <<>> /\ b = <<>>
    BY <1>2, SubSeqEmpty
  <2> QED
    BY <1>1, <1>2, <2>1 DEF IsPrefix
<1>3. CASE n # 0
  <2>0. SUFFICES ASSUME n <= Len(q) PROVE a = b <=> \A i \in 1 .. n : p[i] = q[i]
    BY DEF IsPrefix
  <2>1. /\ a \in Seq(S) /\ Len(a) = n /\ \A i \in 1 .. n : a[i] = p[i]
        /\ b \in Seq(S) /\ Len(b) = n /\ \A i \in 1 .. n : b[i] = q[i]
    BY <1>1, <1>3, <2>0, SubSeqProperties
  <2> HIDE DEF a, b, n
  <2>2. ASSUME \A i \in 1 .. n : p[i] = q[i] PROVE a = b
    BY <2>1, <2>2, SeqEqual
  <2> QED
    BY <2>1, <2>2
<1> QED
  BY <1>2, <1>3

\* The start of a list, behind another one; and one list behind a longer start.
LEMMA JoinedFacts ==
  ASSUME NEW S, NEW p \in Seq(S), NEW q \in Seq(S), NEW r \in Seq(S)
  PROVE  /\ IsPrefix(p, p)
         /\ IsPrefix(q, r) => IsPrefix(p \o q, p \o r)
         /\ q # <<>> => Append(p, Head(q)) \o Tail(q) = p \o q
<1>1. Len(p) \in Nat /\ Len(q) \in Nat /\ Len(r) \in Nat
  BY LenProperties
<1>2. IsPrefix(p, p)
  BY <1>1, StartFacts
<1>3. ASSUME IsPrefix(q, r) PROVE IsPrefix(p \o q, p \o r)
  <2>1. Len(q) <= Len(r) /\ \A i \in 1 .. Len(q) : q[i] = r[i]
    BY <1>3, StartFacts
  <2>2. /\ p \o q \in Seq(S) /\ Len(p \o q) = Len(p) + Len(q)
        /\ \A i \in 1 .. Len(p) + Len(q) :
             (p \o q)[i] = IF i <= Len(p) THEN p[i] ELSE q[i - Len(p)]
    BY ConcatProperties
  <2>3. /\ p \o r \in Seq(S) /\ Len(p \o r) = Len(p) + Len(r)
        /\ \A i \in 1 .. Len(p) + Len(r) :
             (p \o r)[i] = IF i <= Len(p) THEN p[i] ELSE r[i - Len(p)]
    BY ConcatProperties
  <2>4. ASSUME NEW i \in 1 .. Len(p) + Len(q) PROVE (p \o q)[i] = (p \o r)[i]
    <3>1. i \in 1 .. Len(p) + Len(r)
      BY <1>1, <2>1
    <3>2. i <= Len(p) \/ i - Len(p) \in 1 .. Len(q)
      BY <1>1
    <3> QED
      BY <2>1, <2>2, <2>3, <3>1, <3>2
  <2> QED
    <3>1. Len(p \o q) <= Len(p \o r)
      BY <1>1, <2>1, <2>2, <2>3
    <3>2. \A i \in 1 .. Len(p \o q) : (p \o q)[i] = (p \o r)[i]
      BY <2>2, <2>4
    <3> DEFINE x == p \o q
               y == p \o r
    <3>3. x \in Seq(S) /\ y \in Seq(S) /\ Len(x) <= Len(y) /\ \A i \in 1 .. Len(x) : x[i] = y[i]
      BY <2>2, <2>3, <3>1, <3>2
    <3> HIDE DEF x, y
    <3>4. IsPrefix(x, y)
      BY <3>3, StartFacts
    <3> QED
      BY <3>4 DEF x, y
<1>4. ASSUME q # <<>> PROVE Append(p, Head(q)) \o Tail(q) = p \o q
  <2>1. Head(q) \in S /\ Tail(q) \in Seq(S) /\ <<Head(q)>> \in Seq(S)
    BY <1>4, QueueFacts
  <2>2. Append(p, Head(q)) = p \o <<Head(q)>>
    BY <2>1, AppendIsConcat
  <2>3. <<Head(q)>> \o Tail(q) = q
    BY <1>4, <2>1, HeadTailProperties, ConcatProperties, SeqEqual
  <2> QED
    BY <2>1, <2>2, <2>3, ConcatAssociative
<1> QED
  BY <1>2, <1>3, <1>4

\* A list that is one element longer than its start.
LEMMA ExtendedFacts ==
  ASSUME NEW S, NEW p \in Seq(S), NEW q \in Seq(S), Len(q) = Len(p) + 1, IsPrefix(p, q)
  PROVE  Last(q) \in S /\ q = Append(p, Last(q))
<1>1. Len(p) \in Nat /\ \A i \in 1 .. Len(p) : p[i] = q[i]
  BY LenProperties, StartFacts
<1>2. Last(q) \in S
  BY <1>1, ElementOfSeq DEF Last
<1>3. /\ Append(p, Last(q)) \in Seq(S) /\ Len(Append(p, Last(q))) = Len(p) + 1
      /\ \A i \in 1 .. Len(p) : Append(p, Last(q))[i] = p[i]
      /\ Append(p, Last(q))[Len(p) + 1] = Last(q)
  BY <1>2, AppendProperties
<1>4. \A i \in 1 .. Len(q) : q[i] = Append(p, Last(q))[i]
  <2> SUFFICES ASSUME NEW i \in 1 .. Len(q) PROVE q[i] = Append(p, Last(q))[i]
    OBVIOUS
  <2>1. i \in 1 .. Len(p) \/ i = Len(p) + 1
    BY <1>1
  <2> QED
    BY <1>1, <1>3, <2>1 DEF Last
<1> QED
  BY <1>2, <1>3, <1>4, SeqEqual
=============================================================================
