-------------------------- MODULE VirtioNetProofs ---------------------------
(***************************************************************************)
(* Virtqueue and VirtioNet proved for every size of the queue, of the pool *)
(* and of the memory, and for ring indexes that wrap any number of times.  *)
(***************************************************************************)
EXTENDS VirtioNet, FiniteSetTheorems, SequenceTheorems, WellFoundedInduction, TLAPS

USE VirtqueueAssumption, VirtioNetAssumption

-----------------------------------------------------------------------------
(* Arithmetic of the rings.                                                *)

\* Division with remainder.
LEMMA DivMod ==
  ASSUME NEW a \in Int, NEW n \in Nat \ {0}
  PROVE  /\ a \div n \in Int /\ a % n \in 0 .. n - 1
         /\ a = n * (a \div n) + (a % n)
  BY Z3T(30)

\* Quotient and remainder are the only ones.
LEMMA DivModUnique ==
  ASSUME NEW a \in Int, NEW n \in Nat \ {0}, NEW q \in Int, NEW r \in 0 .. n - 1,
         a = n * q + r
  PROVE  a \div n = q /\ a % n = r
<1> DEFINE p == a \div n
           s == a % n
<1>1. p \in Int /\ s \in 0 .. n - 1 /\ a = n * p + s
  BY DivMod
<1> HIDE DEF p, s
<1>2. n * p \in Int /\ n * q \in Int
  BY <1>1
<1>3. ~(p < q)
  <2> SUFFICES ASSUME p < q PROVE FALSE
    OBVIOUS
  <2>1. n * (p + 1) <= n * q
    BY <1>1, Z3T(30)
  <2>2. n * (p + 1) = n * p + n
    BY <1>1, Z3T(30)
  <2> QED BY <1>1, <1>2, <2>1, <2>2
<1>4. ~(q < p)
  <2> SUFFICES ASSUME q < p PROVE FALSE
    OBVIOUS
  <2>1. n * (q + 1) <= n * p
    BY <1>1, Z3T(30)
  <2>2. n * (q + 1) = n * q + n
    BY <1>1, Z3T(30)
  <2> QED BY <1>1, <1>2, <2>1, <2>2
<1>5. p = q
  BY <1>1, <1>3, <1>4
<1>6. s = r
  <2>1. n * p = n * q
    BY <1>5
  <2> QED BY <1>1, <1>2, <2>1
<1> QED BY <1>5, <1>6 DEF p, s

\* How far one index is ahead of another.
LEMMA AheadIs ==
  ASSUME NEW i \in Idx, NEW j \in Idx
  PROVE  Ahead(i, j) = IF i <= j THEN j - i ELSE j - i + IdxSpace
<1>1. CASE i <= j
  <2>1. j - i \in Int /\ j - i \in 0 .. IdxSpace - 1 /\ j - i = IdxSpace * 0 + (j - i)
    BY <1>1 DEF Idx
  <2> QED BY <1>1, <2>1, DivModUnique DEF Ahead
<1>2. CASE ~(i <= j)
  <2> DEFINE r == j - i + IdxSpace
  <2>1. j - i \in Int /\ r \in 0 .. IdxSpace - 1 /\ j - i = IdxSpace * (-1) + r /\ -1 \in Int
    BY <1>2 DEF Idx
  <2> HIDE DEF r
  <2>2. (j - i) % IdxSpace = r
    BY <2>1, DivModUnique
  <2> QED BY <1>2, <2>2 DEF Ahead, r
<1> QED BY <1>1, <1>2

LEMMA NextIdxIs ==
  ASSUME NEW i \in Idx
  PROVE  NextIdx(i) \in Idx /\ NextIdx(i) = IF i + 1 = IdxSpace THEN 0 ELSE i + 1
<1>1. CASE i + 1 = IdxSpace
  <2>1. i + 1 \in Int /\ i + 1 = IdxSpace * 1 + 0 /\ 0 \in 0 .. IdxSpace - 1
    BY <1>1 DEF Idx
  <2>2. (i + 1) % IdxSpace = 0
    BY <2>1, DivModUnique
  <2> QED BY <1>1, <2>2 DEF NextIdx, Idx
<1>2. CASE i + 1 # IdxSpace
  <2>1. i + 1 \in Int /\ i + 1 = IdxSpace * 0 + (i + 1) /\ i + 1 \in 0 .. IdxSpace - 1
    BY <1>2 DEF Idx
  <2>2. (i + 1) % IdxSpace = i + 1
    BY <2>1, DivModUnique
  <2> QED BY <1>2, <2>1, <2>2 DEF NextIdx, Idx
<1> QED BY <1>1, <1>2

\* Each index that moves changes the distance by one.
LEMMA AheadFacts ==
  ASSUME NEW i \in Idx, NEW j \in Idx
  PROVE  /\ Ahead(i, j) \in Nat /\ Ahead(i, i) = 0
         /\ (i # j) <=> (Ahead(i, j) > 0)
         /\ NextIdx(i) \in Idx /\ NextIdx(j) \in Idx
         /\ Ahead(i, j) < Size => Ahead(i, NextIdx(j)) = Ahead(i, j) + 1
         /\ i # j => Ahead(NextIdx(i), j) = Ahead(i, j) - 1
<1>1. NextIdx(i) \in Idx /\ NextIdx(j) \in Idx
  BY NextIdxIs
<1>2. /\ i \in Int /\ j \in Int /\ 0 <= i /\ i < IdxSpace /\ 0 <= j /\ j < IdxSpace
      /\ IdxSpace \in Int /\ Size \in Int /\ Size < IdxSpace
  BY DEF Idx
<1>3. Ahead(i, j) = (IF i <= j THEN j - i ELSE j - i + IdxSpace) /\ Ahead(i, i) = i - i
  BY AheadIs, <1>2
<1>4. Ahead(i, NextIdx(j)) = IF i <= NextIdx(j) THEN NextIdx(j) - i ELSE NextIdx(j) - i + IdxSpace
  BY <1>1, AheadIs
<1>5. Ahead(NextIdx(i), j) = IF NextIdx(i) <= j THEN j - NextIdx(i) ELSE j - NextIdx(i) + IdxSpace
  BY <1>1, AheadIs
<1>6. /\ NextIdx(i) = IF i + 1 = IdxSpace THEN 0 ELSE i + 1
      /\ NextIdx(j) = IF j + 1 = IdxSpace THEN 0 ELSE j + 1
  BY NextIdxIs
<1> QED BY <1>1, <1>2, <1>3, <1>4, <1>5, <1>6

\* A full turn of the indexes leads to the same place.
LEMMA FullTurn ==
  ASSUME NEW k \in Nat
  PROVE  (IdxSpace + k) % Size = k % Size
<1> DEFINE q == k \div Size
           r == k % Size
           m == IdxSpace \div Size
<1>1. q \in Int /\ r \in 0 .. Size - 1 /\ k = Size * q + r
  BY DivMod
<1>2. m \in Int /\ IdxSpace = Size * m
  BY DivMod
<1> HIDE DEF q, r, m
<1>3. Size * (m + q) = Size * m + Size * q /\ Size * m \in Int /\ Size * q \in Int
  BY <1>1, <1>2, Z3T(30)
<1>4. IdxSpace + k \in Int /\ m + q \in Int /\ IdxSpace + k = Size * (m + q) + r
  BY <1>1, <1>2, <1>3
<1>5. (IdxSpace + k) % Size = r
  BY <1>1, <1>4, DivModUnique
<1> QED BY <1>5 DEF r

\* Places of a ring counted from an index, and from the next one.
LEMMA PlaceFacts ==
  ASSUME NEW i \in Idx, NEW j \in Idx, NEW k \in Nat
  PROVE  /\ (i + k) % Size \in Desc
         /\ (NextIdx(i) + k) % Size = (i + (k + 1)) % Size
         /\ j % Size = (i + Ahead(i, j)) % Size
<1>0. i \in Nat /\ j \in Nat /\ i < IdxSpace /\ j < IdxSpace
  BY DEF Idx
<1>1. (i + k) % Size \in Desc
  <2>1. i + k \in Int
    BY <1>0
  <2> QED BY <2>1, DivMod DEF Desc
<1>2. (NextIdx(i) + k) % Size = (i + (k + 1)) % Size
  <2>1. CASE i + 1 = IdxSpace
    <3>1. NextIdx(i) + k = k /\ i + (k + 1) = IdxSpace + k
      BY <1>0, <2>1, NextIdxIs
    <3> QED BY <3>1, FullTurn
  <2>2. CASE i + 1 # IdxSpace
    <3>1. NextIdx(i) + k = i + (k + 1)
      BY <1>0, <2>2, NextIdxIs
    <3> QED BY <3>1
  <2> QED BY <2>1, <2>2
<1>3. j % Size = (i + Ahead(i, j)) % Size
  <2>1. CASE i <= j
    <3>1. i + Ahead(i, j) = j
      BY <1>0, <2>1, AheadIs
    <3> QED BY <3>1
  <2>2. CASE ~(i <= j)
    <3>1. i + Ahead(i, j) = IdxSpace + j
      BY <1>0, <2>2, AheadIs
    <3> QED BY <1>0, <3>1, FullTurn
  <2> QED BY <2>1, <2>2
<1> QED BY <1>1, <1>2, <1>3

\* Fewer than Size steps apart, the places differ.
LEMMA PlacesApart ==
  ASSUME NEW i \in Idx, NEW j \in 0 .. Size - 1, NEW k \in 0 .. Size - 1,
         (i + j) % Size = (i + k) % Size
  PROVE  j = k
<1> DEFINE p == (i + j) \div Size
           q == (i + k) \div Size
           r == (i + j) % Size
<1>0. i + j \in Int /\ i + k \in Int /\ i \in Int /\ j \in Int /\ k \in Int
  BY DEF Idx
<1>1. /\ p \in Int /\ q \in Int /\ r \in 0 .. Size - 1
      /\ i + j = Size * p + r /\ i + k = Size * q + r
  BY <1>0, DivMod
<1> HIDE DEF p, q, r
<1>2. Size * p \in Int /\ Size * q \in Int
  BY <1>1
<1>3. j - k = Size * p - Size * q /\ j - k < Size /\ k - j < Size
  BY <1>0, <1>1, <1>2
<1>4. CASE p < q
  <2>1. Size * (p + 1) <= Size * q /\ Size * (p + 1) = Size * p + Size
    BY <1>1, <1>4, Z3T(30)
  <2> QED BY <1>0, <1>2, <1>3, <2>1
<1>5. CASE q < p
  <2>1. Size * (q + 1) <= Size * p /\ Size * (q + 1) = Size * q + Size
    BY <1>1, <1>5, Z3T(30)
  <2> QED BY <1>0, <1>2, <1>3, <2>1
<1>6. CASE p = q
  BY <1>0, <1>2, <1>3, <1>6
<1> QED BY <1>1, <1>4, <1>5, <1>6

-----------------------------------------------------------------------------
(* The queue.                                                              *)

\* A set of naturals that is not empty has a least element.
LEMMA LeastOf ==
  ASSUME NEW T \in SUBSET Nat, T # {}
  PROVE  \E m \in T : \A k \in T : m <= k
<1> DEFINE R == OpToRel(<, Nat)
<1>1. IsWellFoundedOn(R, Nat)
  BY NatLessThanWellFounded
<1>2. PICK m \in T : \A y \in T : ~(<<y, m>> \in R)
  BY <1>1, WFMin, Zenon
<1>3. ASSUME NEW k \in T PROVE m <= k
  <2>1. <<k, m>> \in Nat \X Nat /\ ~(<<k, m>> \in R)
    BY <1>2
  <2>2. ~(k < m)
    BY <2>1 DEF OpToRel
  <2> QED BY <2>2
<1> QED BY <1>2, <1>3

\* There is only one way to follow the links, as a formula to be primed.
OneChain ==
  num_free \in Nat =>
    \A c \in [0 .. num_free - 1 -> Desc] : IsChain(c) => FreeChain = c

\* Following the links step by step, no step has a choice.
LEMMA ChainIs == OneChain
<1> SUFFICES ASSUME num_free \in Nat,
                    NEW c \in [0 .. num_free - 1 -> Desc], IsChain(c)
             PROVE  FreeChain = c
  BY DEF OneChain
<1> DEFINE n == num_free
<1>1. FreeChain \in [0 .. n - 1 -> Desc] /\ IsChain(FreeChain)
  BY Zenon DEF FreeChain
<1>2. PICK d : d = FreeChain
  OBVIOUS
<1>3. d \in [0 .. n - 1 -> Desc] /\ IsChain(d)
  BY <1>1, <1>2
<1> DEFINE T == {k \in 0 .. n - 1 : c[k] # d[k]}
<1>4. T = {}
  <2> SUFFICES ASSUME T # {} PROVE FALSE
    OBVIOUS
  <2>1. T \in SUBSET Nat
    OBVIOUS
  <2>2. PICK m \in T : \A k \in T : m <= k
    BY <2>1, LeastOf
  <2>3. m \in 0 .. n - 1 /\ c[m] # d[m]
    OBVIOUS
  <2>4. CASE m = 0
    BY <1>3, <2>3, <2>4 DEF IsChain
  <2>5. CASE m # 0
    <3>1. m - 1 \in 0 .. n - 1 /\ m - 1 \notin T /\ m \in 1 .. n - 1
      BY <2>2, <2>3, <2>5
    <3>2. c[m - 1] = d[m - 1]
      BY <3>1
    <3>3. c[m] = next[c[m - 1]] /\ d[m] = next[d[m - 1]]
      BY <1>3, <3>1 DEF IsChain
    <3> QED BY <2>3, <3>2, <3>3
  <2> QED BY <2>4, <2>5
<1>5. \A k \in 0 .. n - 1 : c[k] = d[k]
  BY <1>4
<1>6. c = d
  BY <1>3, <1>5
<1> QED BY <1>2, <1>6

\* The numbers below n, mapped one to one.
LEMMA CountImage ==
  ASSUME NEW n \in Nat, NEW T, NEW f \in [0 .. n - 1 -> T],
         \A j, k \in 0 .. n - 1 : f[j] = f[k] => j = k,
         \A t \in T : \E k \in 0 .. n - 1 : t = f[k]
  PROVE  IsFiniteSet(T) /\ Cardinality(T) = n
<1> DEFINE S == 0 .. n - 1
<1>1. IsFiniteSet(S) /\ Cardinality(S) = n
  <2>1. 0 \in Int /\ n - 1 \in Int /\ ((0 > n - 1) <=> (n = 0)) /\ (n - 1) - 0 + 1 = n
    OBVIOUS
  <2>2. Cardinality(S) = IF 0 > n - 1 THEN 0 ELSE (n - 1) - 0 + 1
    BY <2>1, FS_Interval
  <2> QED BY <2>1, <2>2, FS_Interval
<1>2. f \in Bijection(S, T)
  BY DEF Bijection, Injection, Surjection, IsInjective
<1>3. ExistsBijection(S, T)
  BY <1>2 DEF ExistsBijection
<1> QED BY <1>1, <1>3, FS_Bijection

\* What the places of the queue are, element by element.
LEMMA ZoneElements ==
  /\ \A d : d \in FreeList <=> \E k \in 0 .. num_free - 1 : d = FreeChain[k]
  /\ \A d : d \in Offered <=> \E k \in 0 .. nOff - 1 : d = OffAt(k)
  /\ \A d : d \in Returned <=> \E k \in 0 .. nRet - 1 : d = RetAt(k).id
  BY DEF FreeList, Offered, Returned, nOff, nRet, OffAt, RetAt

\* The numbers that the proofs below compute with.
LEMMA QueueNumbers ==
  ASSUME QueueInv
  PROVE  /\ avail_idx \in Idx /\ dev_idx \in Idx /\ used_idx \in Idx /\ last_used_idx \in Idx
         /\ nOff \in Nat /\ nRet \in Nat /\ num_free \in Nat
         /\ IsFiniteSet(taken) /\ Cardinality(taken) \in Nat
         /\ num_free + nOff + Cardinality(taken) + nRet = Size
         /\ num_free <= Size /\ nOff <= Size /\ nRet <= Size
         /\ \A k \in Nat : OffAt(k) \in Desc /\ RetAt(k) \in [id : Desc, frame : BOOLEAN]
         /\ free_head \in Desc /\ taken \subseteq Desc
         /\ Offered \subseteq Desc /\ Returned \subseteq Desc /\ Busy \subseteq Desc
<1>1. avail_idx \in Idx /\ dev_idx \in Idx /\ used_idx \in Idx /\ last_used_idx \in Idx
  BY DEF QueueInv, QueueTypeOK
<1>2. nOff \in Nat /\ nRet \in Nat
  BY <1>1, AheadFacts DEF nOff, nRet
<1>3. num_free \in Nat /\ free_head \in Desc /\ taken \subseteq Desc
  BY DEF QueueInv, QueueTypeOK
<1>4. IsFiniteSet(taken) /\ Cardinality(taken) \in Nat
  <2>1. IsFiniteSet(Desc)
    BY FS_Interval DEF Desc
  <2> QED BY <1>3, <2>1, FS_Subset, FS_CardinalityType
<1>5. num_free + nOff + Cardinality(taken) + nRet = Size
  BY DEF QueueInv, ZonesInv
<1>6. ASSUME NEW k \in Nat
      PROVE  OffAt(k) \in Desc /\ RetAt(k) \in [id : Desc, frame : BOOLEAN]
  <2>1. (dev_idx + k) % Size \in Desc /\ (last_used_idx + k) % Size \in Desc
    BY <1>1, PlaceFacts
  <2> QED BY <2>1 DEF OffAt, RetAt, QueueInv, QueueTypeOK
<1>7. Offered \subseteq Desc /\ Returned \subseteq Desc
  <2>1. \A k \in Nat : RetAt(k).id \in Desc
    BY <1>6
  <2> QED BY <1>2, <1>6, <2>1, ZoneElements
<1> QED BY <1>1, <1>2, <1>3, <1>4, <1>5, <1>6, <1>7 DEF Busy

\* The free list after its first descriptor was taken.
LEMMA ChainAfterAdd ==
  ASSUME QueueInv, num_free > 0, free_head' = next[free_head],
         next' = [next EXCEPT ![free_head] = 0], num_free' = num_free - 1
  PROVE  /\ FreeChain' = [k \in 0 .. num_free - 2 |-> FreeChain[k + 1]]
         /\ ListInv' /\ FreeChain[0] = free_head
         /\ FreeList' = FreeList \ {free_head} /\ free_head \in FreeList
<1>0. /\ num_free \in Nat /\ num_free' \in Nat /\ num_free' - 1 = num_free - 2
      /\ num_free - 1 \in Nat /\ Size \in Nat
  BY QueueNumbers
<1>1. PICK c : c = FreeChain
  OBVIOUS
<1>2. /\ c \in [0 .. num_free - 1 -> Desc] /\ c[0] = free_head
      /\ \A k \in 1 .. num_free - 1 : c[k] = next[c[k - 1]]
      /\ \A j, k \in 0 .. num_free - 1 : c[j] = c[k] => j = k
  BY <1>1 DEF QueueInv, ListInv, IsChain
<1>3. PICK e : e = [k \in 0 .. num_free - 2 |-> c[k + 1]]
  OBVIOUS
<1>4. /\ e \in [0 .. num_free' - 1 -> Desc]
      /\ \A k \in 0 .. num_free' - 1 : e[k] = c[k + 1] /\ k + 1 \in 1 .. num_free - 1
  BY <1>0, <1>2, <1>3
<1>5. next \in [Desc -> Desc] /\ free_head \in Desc
  BY DEF QueueInv, QueueTypeOK
<1>6. IsChain(e)'
  <2>1. num_free' > 0 => e[0] = free_head'
    <3> SUFFICES ASSUME num_free' > 0 PROVE e[0] = free_head'
      OBVIOUS
    <3>1. 0 \in 0 .. num_free' - 1 /\ 1 \in 1 .. num_free - 1
      BY <1>0
    <3>2. e[0] = c[1] /\ c[1] = next[c[0]]
      BY <1>2, <1>4, <3>1
    <3> QED BY <1>2, <3>2
  <2>2. ASSUME NEW k \in 1 .. num_free' - 1 PROVE e[k] = next'[e[k - 1]]
    <3>1. k \in 0 .. num_free' - 1 /\ k - 1 \in 0 .. num_free' - 1 /\ k + 1 \in 1 .. num_free - 1
          /\ k \in 0 .. num_free - 1 /\ 0 \in 0 .. num_free - 1 /\ k # 0 /\ (k + 1) - 1 = k
          /\ (k - 1) + 1 = k
      BY <1>0
    <3>2. e[k] = c[k + 1] /\ e[k - 1] = c[k] /\ c[k + 1] = next[c[k]]
      BY <1>2, <1>4, <3>1
    <3>3. c[k] # free_head /\ c[k] \in Desc
      BY <1>2, <3>1
    <3> QED BY <1>5, <3>2, <3>3
  <2> QED BY <2>1, <2>2 DEF IsChain
<1>7. FreeChain' = e
  <2>1. OneChain'
    BY ChainIs, PTL
  <2> QED BY <1>0, <1>4, <1>6, <2>1 DEF OneChain
<1>8. \A j, k \in 0 .. num_free' - 1 : e[j] = e[k] => j = k
  <2> SUFFICES ASSUME NEW j \in 0 .. num_free' - 1, NEW k \in 0 .. num_free' - 1, e[j] = e[k]
               PROVE  j = k
    OBVIOUS
  <2>1. j + 1 \in 0 .. num_free - 1 /\ k + 1 \in 0 .. num_free - 1 /\ c[j + 1] = c[k + 1]
    BY <1>0, <1>4
  <2>2. j + 1 = k + 1
    BY <1>2, <2>1
  <2> QED BY <2>2
<1>9. ListInv'
  BY <1>4, <1>6, <1>7, <1>8 DEF ListInv
<1>10. free_head \in FreeList
  BY <1>0, <1>1, <1>2, ZoneElements
<1>11. ASSUME NEW d PROVE d \in FreeList' <=> (d \in FreeList /\ d # free_head)
  <2>1. d \in FreeList' <=> \E k \in 0 .. num_free' - 1 : d = e[k]
    BY <1>7 DEF FreeList
  <2>2. d \in FreeList <=> \E k \in 0 .. num_free - 1 : d = c[k]
    BY <1>1, ZoneElements
  <2>3. ASSUME NEW k \in 0 .. num_free' - 1, d = e[k] PROVE d \in FreeList /\ d # free_head
    <3>1. k + 1 \in 0 .. num_free - 1 /\ d = c[k + 1] /\ k + 1 # 0 /\ 0 \in 0 .. num_free - 1
      BY <1>0, <1>4, <2>3
    <3> QED BY <1>2, <2>2, <3>1
  <2>4. ASSUME NEW k \in 0 .. num_free - 1, d = c[k], d # free_head PROVE d \in FreeList'
    <3>1. k # 0
      BY <1>2, <2>4
    <3>2. k - 1 \in 0 .. num_free' - 1 /\ (k - 1) + 1 = k
      BY <1>0, <3>1
    <3>3. e[k - 1] = d
      BY <1>4, <2>4, <3>2
    <3> QED BY <2>1, <3>2, <3>3
  <2> QED BY <2>1, <2>2, <2>3, <2>4
<1>12. FreeList' = FreeList \ {free_head}
  BY <1>11
<1> QED BY <1>1, <1>2, <1>3, <1>7, <1>9, <1>10, <1>12

\* The free list after descriptor h was put back.
LEMMA ChainAfterPoll ==
  ASSUME QueueInv, NEW h \in Desc \ FreeList, free_head' = h,
         next' = [next EXCEPT ![h] = free_head], num_free' = num_free + 1
  PROVE  ListInv' /\ FreeList' = FreeList \cup {h}
<1>0. num_free \in Nat /\ num_free' \in Nat /\ num_free' - 1 = num_free
  BY QueueNumbers
<1>1. PICK c : c = FreeChain
  OBVIOUS
<1>2. /\ c \in [0 .. num_free - 1 -> Desc] /\ (num_free > 0 => c[0] = free_head)
      /\ \A k \in 1 .. num_free - 1 : c[k] = next[c[k - 1]]
      /\ \A j, k \in 0 .. num_free - 1 : c[j] = c[k] => j = k
      /\ \A k \in 0 .. num_free - 1 : c[k] \in FreeList /\ c[k] # h
  BY <1>1, ZoneElements DEF QueueInv, ListInv, IsChain
<1>3. PICK e : e = [k \in 0 .. num_free |-> IF k = 0 THEN h ELSE c[k - 1]]
  OBVIOUS
<1>4. /\ e \in [0 .. num_free' - 1 -> Desc] /\ e[0] = h
      /\ \A k \in 1 .. num_free : e[k] = c[k - 1] /\ k - 1 \in 0 .. num_free - 1
  BY <1>0, <1>2, <1>3
<1>5. next \in [Desc -> Desc] /\ free_head \in Desc
  BY DEF QueueInv, QueueTypeOK
<1>6. IsChain(e)'
  <2>2. ASSUME NEW k \in 1 .. num_free' - 1 PROVE e[k] = next'[e[k - 1]]
    <3>1. CASE k = 1
      <4>1. e[k] = c[0] /\ num_free > 0 /\ e[k - 1] = h
        BY <1>0, <1>4, <3>1
      <4> QED BY <1>2, <1>5, <4>1
    <3>2. CASE k # 1
      <4>1. k \in 1 .. num_free /\ k - 1 \in 1 .. num_free - 1 /\ k - 2 \in 0 .. num_free - 1
            /\ k - 1 \in 1 .. num_free /\ (k - 1) - 1 = k - 2
        BY <1>0, <3>2
      <4>2. e[k] = c[k - 1] /\ e[k - 1] = c[k - 2] /\ c[k - 1] = next[c[k - 2]]
        BY <1>2, <1>4, <4>1
      <4>3. c[k - 2] # h /\ c[k - 2] \in Desc
        BY <1>2, <4>1
      <4> QED BY <1>5, <4>2, <4>3
    <3> QED BY <3>1, <3>2
  <2> QED BY <1>4, <2>2 DEF IsChain
<1>7. FreeChain' = e
  <2>1. OneChain'
    BY ChainIs, PTL
  <2> QED BY <1>0, <1>4, <1>6, <2>1 DEF OneChain
<1>8. \A j, k \in 0 .. num_free' - 1 : e[j] = e[k] => j = k
  <2> SUFFICES ASSUME NEW j \in 0 .. num_free, NEW k \in 0 .. num_free, e[j] = e[k]
               PROVE  j = k
    BY <1>0
  <2>1. CASE j # 0 /\ k # 0
    <3>1. j - 1 \in 0 .. num_free - 1 /\ k - 1 \in 0 .. num_free - 1 /\ c[j - 1] = c[k - 1]
      BY <1>0, <1>4, <2>1
    <3>2. j - 1 = k - 1
      BY <1>2, <3>1
    <3> QED BY <3>2
  <2>2. CASE j = 0 /\ k # 0
    <3>1. k - 1 \in 0 .. num_free - 1 /\ h = c[k - 1]
      BY <1>0, <1>4, <2>2
    <3> QED BY <1>2, <3>1
  <2>3. CASE j # 0 /\ k = 0
    <3>1. j - 1 \in 0 .. num_free - 1 /\ h = c[j - 1]
      BY <1>0, <1>4, <2>3
    <3> QED BY <1>2, <3>1
  <2> QED BY <2>1, <2>2, <2>3
<1>9. ListInv'
  BY <1>4, <1>6, <1>7, <1>8 DEF ListInv
<1>11. ASSUME NEW d PROVE d \in FreeList' <=> (d \in FreeList \/ d = h)
  <2>1. d \in FreeList' <=> \E k \in 0 .. num_free' - 1 : d = e[k]
    BY <1>7 DEF FreeList
  <2>2. d \in FreeList <=> \E k \in 0 .. num_free - 1 : d = c[k]
    BY <1>1, ZoneElements
  <2>3. ASSUME NEW k \in 0 .. num_free' - 1, d = e[k] PROVE d \in FreeList \/ d = h
    <3>1. CASE k = 0
      BY <1>4, <2>3, <3>1
    <3>2. CASE k # 0
      <4>1. k \in 1 .. num_free
        BY <1>0, <3>2
      <4>2. k - 1 \in 0 .. num_free - 1 /\ d = c[k - 1]
        BY <1>4, <2>3, <4>1
      <4> QED BY <2>2, <4>2
    <3> QED BY <3>1, <3>2
  <2>4. ASSUME NEW k \in 0 .. num_free - 1, d = c[k] PROVE d \in FreeList'
    <3>1. k + 1 \in 1 .. num_free /\ k + 1 \in 0 .. num_free' - 1 /\ (k + 1) - 1 = k
      BY <1>0
    <3>2. e[k + 1] = d
      BY <1>4, <2>4, <3>1
    <3> QED BY <2>1, <3>1, <3>2
  <2>5. 0 \in 0 .. num_free' - 1
    BY <1>0
  <2> QED BY <1>4, <2>1, <2>2, <2>3, <2>4, <2>5
<1>12. FreeList' = FreeList \cup {h}
  BY <1>11
<1> QED BY <1>9, <1>12

\* add_buf(): a free descriptor is offered.
LEMMA AddBufQueue ==
  ASSUME QueueInv, NEW b \in Buffer, AddBuf(b)
  PROVE  /\ QueueInv'
         /\ free_head \in Desc \ Busy /\ Busy' = Busy \cup {free_head}
         /\ nRet' = nRet /\ \A k \in Nat : RetAt(k)' = RetAt(k)
         /\ FreeChain' = [k \in 0 .. num_free - 2 |-> FreeChain[k + 1]]
<1>0. /\ num_free \in Nat /\ num_free > 0 /\ num_free' = num_free - 1
      /\ nOff \in Nat /\ nRet \in Nat /\ Size \in Nat /\ nOff < Size
      /\ avail_idx \in Idx /\ dev_idx \in Idx /\ free_head \in Desc
      /\ Cardinality(taken) \in Nat /\ num_free + nOff + Cardinality(taken) + nRet = Size
  BY QueueNumbers DEF AddBuf
<1>1. /\ FreeChain' = [k \in 0 .. num_free - 2 |-> FreeChain[k + 1]]
      /\ ListInv' /\ FreeList' = FreeList \ {free_head} /\ free_head \in FreeList
      /\ FreeChain[0] = free_head
  BY <1>0, ChainAfterAdd DEF AddBuf, HeadAfterAdd
<1>2. nOff' = nOff + 1 /\ avail_idx' \in Idx /\ nRet' = nRet /\ dev_idx' = dev_idx
  BY <1>0, AheadFacts DEF nOff, nRet, AddBuf
<1>3. avail' = [avail EXCEPT ![(dev_idx + nOff) % Size] = free_head]
  BY <1>0, PlaceFacts DEF AddBuf, RingSlot, nOff
<1>4. avail \in [Desc -> Desc] /\ (dev_idx + nOff) % Size \in Desc
  BY <1>0, PlaceFacts DEF QueueInv, QueueTypeOK
<1>len. PICK m : m = nOff
  OBVIOUS
<1>5. OffAt(m)' = free_head
  BY <1>len, <1>2, <1>3, <1>4 DEF OffAt
<1>6. ASSUME NEW k \in 0 .. nOff - 1 PROVE OffAt(k)' = OffAt(k)
  <2>1. k \in 0 .. Size - 1 /\ nOff \in 0 .. Size - 1 /\ k # nOff /\ k \in Nat
    BY <1>0
  <2>2. (dev_idx + k) % Size # (dev_idx + nOff) % Size /\ (dev_idx + k) % Size \in Desc
    BY <1>0, <2>1, PlacesApart, PlaceFacts
  <2> QED BY <1>2, <1>3, <1>4, <2>2 DEF OffAt
<1>7. \A k \in Nat : RetAt(k)' = RetAt(k)
  BY DEF RetAt, AddBuf
<1>8. Returned' = Returned /\ taken' = taken
  BY DEF Returned, AddBuf
<1>9. ASSUME NEW d PROVE d \in Offered' <=> (d \in Offered \/ d = free_head)
  <2>1. d \in Offered' <=> \E k \in 0 .. nOff' - 1 : d = OffAt(k)'
    BY DEF Offered, OffAt, nOff
  <2>2. d \in Offered <=> \E k \in 0 .. nOff - 1 : d = OffAt(k)
    BY ZoneElements
  <2>3. \A k : k \in 0 .. nOff' - 1 <=> (k \in 0 .. nOff - 1 \/ k = m)
    BY <1>len, <1>0, <1>2
  <2> QED BY <1>len, <1>5, <1>6, <2>1, <2>2, <2>3
<1>10. /\ FreeList = Desc \ Busy /\ Offered \cap taken = {} /\ Offered \cap Returned = {}
       /\ taken \cap Returned = {}
  BY DEF QueueInv, ZonesInv
<1>11. free_head \in Desc \ Busy /\ Busy' = Busy \cup {free_head}
  BY <1>1, <1>8, <1>9, <1>10 DEF Busy
<1>12. ZonesInv'
  <2>1. num_free' + nOff' + Cardinality(taken') + nRet' = Size
    BY <1>0, <1>2, <1>8
  <2>2. FreeList' = Desc \ Busy'
    BY <1>1, <1>10, <1>11
  <2>3. (Offered' \cap taken' = {}) /\ (Offered' \cap Returned' = {}) /\ (taken' \cap Returned' = {})
    BY <1>8, <1>9, <1>10, <1>11 DEF Busy
  <2> QED BY <2>1, <2>2, <2>3 DEF ZonesInv
<1>13. RingsInv'
  <2>1. ASSUME NEW j \in 0 .. nOff' - 1, NEW k \in 0 .. nOff' - 1, OffAt(j)' = OffAt(k)'
        PROVE  j = k
    <3>1. \A i \in 0 .. nOff - 1 : OffAt(i) \in Offered
      BY ZoneElements
    <3>2. free_head \notin Offered
      BY <1>11 DEF Busy
    <3>3. (j \in 0 .. nOff - 1 \/ j = m) /\ (k \in 0 .. nOff - 1 \/ k = m)
      BY <1>len, <1>0, <1>2
    <3>4. \A i, l \in 0 .. nOff - 1 : OffAt(i) = OffAt(l) => i = l
      BY DEF QueueInv, RingsInv
    <3> QED BY <1>len, <1>5, <1>6, <2>1, <3>1, <3>2, <3>3, <3>4
  <2>2. \A j, k \in 0 .. nRet' - 1 : RetAt(j)'.id = RetAt(k)'.id => j = k
    <3>1. \A i \in 0 .. nRet - 1 : RetAt(i)' = RetAt(i)
      BY <1>0, <1>7
    <3> QED BY <1>2, <3>1 DEF QueueInv, RingsInv
  <2> QED BY <2>1, <2>2 DEF RingsInv
<1>14. QueueTypeOK'
  <2>1. next' \in [Desc -> Desc] /\ free_head' \in Desc
    <3>1. next \in [Desc -> Desc]
      BY DEF QueueInv, QueueTypeOK
    <3>2. 0 \in Desc
      BY DEF Desc
    <3> QED BY <1>0, <3>1, <3>2 DEF AddBuf, HeadAfterAdd
  <2>2. addr' \in [Desc -> Buffer \cup {NoBuffer}]
    BY <1>0 DEF QueueInv, QueueTypeOK, AddBuf
  <2>3. avail' \in [Desc -> Desc]
    BY <1>0, <1>3, <1>4
  <2>4. num_free' \in 0 .. Size
    BY <1>0
  <2> QED BY <1>0, <1>2, <2>1, <2>2, <2>3, <2>4 DEF QueueInv, QueueTypeOK, AddBuf
<1> QED BY <1>1, <1>2, <1>7, <1>9, <1>11, <1>12, <1>13, <1>14 DEF QueueInv

\* poll_used(): the oldest returned descriptor goes to the free list.
LEMMA PollUsedQueue ==
  ASSUME QueueInv, PollUsed
  PROVE  /\ QueueInv' /\ nRet > 0 /\ nRet' = nRet - 1
         /\ UsedEntry = RetAt(0) /\ UsedEntry.id \in Busy /\ Busy' = Busy \ {UsedEntry.id}
         /\ \A k \in Nat : RetAt(k)' = RetAt(k + 1)
<1>0. /\ num_free \in Nat /\ num_free' = num_free + 1
      /\ nOff \in Nat /\ nRet \in Nat /\ Size \in Nat
      /\ last_used_idx \in Idx /\ used_idx \in Idx /\ free_head \in Desc
      /\ Cardinality(taken) \in Nat /\ num_free + nOff + Cardinality(taken) + nRet = Size
  BY QueueNumbers DEF PollUsed
<1>1. /\ nRet > 0 /\ nRet' = nRet - 1 /\ last_used_idx' \in Idx /\ nOff' = nOff
      /\ last_used_idx' = NextIdx(last_used_idx) /\ used_idx' = used_idx /\ used' = used
  BY <1>0, AheadFacts DEF nOff, nRet, PollUsed, UsedPending
<1>2. UsedEntry = RetAt(0)
  BY <1>0 DEF UsedEntry, RetAt, RingSlot, Idx
<1>3. ASSUME NEW k \in Nat PROVE RetAt(k)' = RetAt(k + 1)
  <2>1. (NextIdx(last_used_idx) + k) % Size = (last_used_idx + (k + 1)) % Size
    BY <1>0, PlaceFacts
  <2> QED BY <1>1, <2>1 DEF RetAt
<1>4. PICK h : h = UsedEntry.id
  OBVIOUS
<1>5. h \in Returned /\ h = RetAt(0).id
  BY <1>0, <1>1, <1>2, <1>4, ZoneElements
<1>6. /\ FreeList = Desc \ Busy /\ Offered \cap taken = {} /\ Offered \cap Returned = {}
      /\ taken \cap Returned = {} /\ Returned \subseteq Desc
  BY QueueNumbers DEF QueueInv, ZonesInv
<1>7. h \in Desc \ FreeList
  BY <1>5, <1>6 DEF Busy
<1>8. ListInv' /\ FreeList' = FreeList \cup {h}
  <2>1. free_head' = h /\ next' = [next EXCEPT ![h] = free_head]
    BY <1>4 DEF PollUsed, HeadAfterPoll
  <2> QED BY <1>0, <1>7, <2>1, ChainAfterPoll
<1>9. Offered' = Offered /\ taken' = taken
  BY DEF Offered, PollUsed
<1>10. \A j, k \in 0 .. nRet - 1 : RetAt(j).id = RetAt(k).id => j = k
  BY DEF QueueInv, RingsInv
<1>11. ASSUME NEW d PROVE d \in Returned' <=> (d \in Returned /\ d # h)
  <2>1. d \in Returned' <=> \E k \in 0 .. nRet' - 1 : d = RetAt(k)'.id
    BY DEF Returned, RetAt, nRet
  <2>2. d \in Returned <=> \E k \in 0 .. nRet - 1 : d = RetAt(k).id
    BY ZoneElements
  <2>3. ASSUME NEW k \in 0 .. nRet' - 1, d = RetAt(k)'.id PROVE d \in Returned /\ d # h
    <3>1. k \in Nat /\ k + 1 \in 0 .. nRet - 1 /\ 0 \in 0 .. nRet - 1 /\ k + 1 # 0
      BY <1>0, <1>1
    <3>2. d = RetAt(k + 1).id
      BY <1>3, <2>3, <3>1
    <3> QED BY <1>5, <1>10, <2>2, <3>1, <3>2
  <2>4. ASSUME NEW k \in 0 .. nRet - 1, d = RetAt(k).id, d # h PROVE d \in Returned'
    <3>1. k # 0
      BY <1>5, <2>4
    <3>2. k - 1 \in Nat /\ k - 1 \in 0 .. nRet' - 1 /\ (k - 1) + 1 = k
      BY <1>0, <1>1, <3>1
    <3>3. RetAt(k - 1)' = RetAt(k)
      BY <1>3, <3>2
    <3> QED BY <2>1, <2>4, <3>2, <3>3
  <2> QED BY <2>1, <2>2, <2>3, <2>4
<1>12. h \in Busy /\ Busy' = Busy \ {h}
  BY <1>5, <1>6, <1>9, <1>11 DEF Busy
<1>13. ZonesInv'
  <2>1. num_free' + nOff' + Cardinality(taken') + nRet' = Size
    BY <1>0, <1>1, <1>9
  <2>2. FreeList' = Desc \ Busy'
    BY <1>6, <1>7, <1>8, <1>12
  <2>3. (Offered' \cap taken' = {}) /\ (Offered' \cap Returned' = {}) /\ (taken' \cap Returned' = {})
    BY <1>6, <1>9, <1>11
  <2> QED BY <2>1, <2>2, <2>3 DEF ZonesInv
<1>14. RingsInv'
  <2>1. ASSUME NEW j \in 0 .. nRet' - 1, NEW k \in 0 .. nRet' - 1, RetAt(j)'.id = RetAt(k)'.id
        PROVE  j = k
    <3>1. j \in Nat /\ k \in Nat /\ j + 1 \in 0 .. nRet - 1 /\ k + 1 \in 0 .. nRet - 1
      BY <1>0, <1>1
    <3>2. RetAt(j + 1).id = RetAt(k + 1).id
      BY <1>3, <2>1, <3>1
    <3>3. j + 1 = k + 1
      BY <1>10, <3>1, <3>2
    <3> QED BY <3>1, <3>3
  <2>2. \A k \in Nat : OffAt(k)' = OffAt(k)
    BY DEF OffAt, PollUsed
  <2>3. \A j, k \in 0 .. nOff' - 1 : OffAt(j)' = OffAt(k)' => j = k
    <3>1. \A i \in 0 .. nOff - 1 : OffAt(i)' = OffAt(i)
      BY <1>0, <2>2
    <3> QED BY <1>1, <3>1 DEF QueueInv, RingsInv
  <2> QED BY <2>1, <2>3 DEF RingsInv
<1>15. QueueTypeOK'
  <2>1. next' \in [Desc -> Desc] /\ free_head' \in Desc
    BY <1>0, <1>4, <1>7 DEF QueueInv, QueueTypeOK, PollUsed, HeadAfterPoll
  <2>2. num_free' \in 0 .. Size
    BY <1>0, <1>1
  <2> QED BY <1>0, <1>1, <2>1, <2>2 DEF QueueInv, QueueTypeOK, PollUsed
<1> QED BY <1>1, <1>2, <1>3, <1>4, <1>8, <1>12, <1>13, <1>14, <1>15 DEF QueueInv

\* The device takes the oldest descriptor offered.
LEMMA TakeQueue ==
  ASSUME QueueInv, Take
  PROVE  QueueInv' /\ Busy' = Busy /\ nRet' = nRet /\ \A k \in Nat : RetAt(k)' = RetAt(k)
<1>0. /\ num_free \in Nat /\ nOff \in Nat /\ nRet \in Nat /\ Size \in Nat
      /\ avail_idx \in Idx /\ dev_idx \in Idx /\ IsFiniteSet(taken) /\ taken \subseteq Desc
      /\ Cardinality(taken) \in Nat /\ num_free + nOff + Cardinality(taken) + nRet = Size
      /\ Offered \subseteq Desc
  BY QueueNumbers
<1>1. /\ nOff > 0 /\ nOff' = nOff - 1 /\ dev_idx' \in Idx /\ nRet' = nRet
      /\ dev_idx' = NextIdx(dev_idx) /\ avail' = avail
  BY <1>0, AheadFacts DEF nOff, nRet, Take
<1>2. PICK h : h = avail[dev_idx % Size]
  OBVIOUS
<1>3. h = OffAt(0) /\ h \in Offered
  <2>1. dev_idx + 0 = dev_idx /\ 0 \in 0 .. nOff - 1
    BY <1>0, <1>1 DEF Idx
  <2> QED BY <1>2, <2>1, ZoneElements DEF OffAt
<1>4. ASSUME NEW k \in Nat PROVE OffAt(k)' = OffAt(k + 1)
  <2>1. (NextIdx(dev_idx) + k) % Size = (dev_idx + (k + 1)) % Size
    BY <1>0, PlaceFacts
  <2> QED BY <1>1, <2>1 DEF OffAt
<1>5. /\ FreeList = Desc \ Busy /\ Offered \cap taken = {} /\ Offered \cap Returned = {}
      /\ taken \cap Returned = {}
  BY DEF QueueInv, ZonesInv
<1>6. taken' = taken \cup {h} /\ h \notin taken
  BY <1>2, <1>3, <1>5 DEF Take
<1>7. Cardinality(taken') = Cardinality(taken) + 1
  BY <1>0, <1>6, FS_AddElement
<1>8. Returned' = Returned /\ \A k \in Nat : RetAt(k)' = RetAt(k)
  BY DEF Returned, RetAt, Take
<1>9. FreeList' = FreeList /\ (ListInv <=> ListInv')
  BY DEF FreeList, FreeChain, IsChain, ListInv, Take, free_list
<1>10. \A j, k \in 0 .. nOff - 1 : OffAt(j) = OffAt(k) => j = k
  BY DEF QueueInv, RingsInv
<1>11. ASSUME NEW d PROVE d \in Offered' <=> (d \in Offered /\ d # h)
  <2>1. d \in Offered' <=> \E k \in 0 .. nOff' - 1 : d = OffAt(k)'
    BY DEF Offered, OffAt, nOff
  <2>2. d \in Offered <=> \E k \in 0 .. nOff - 1 : d = OffAt(k)
    BY ZoneElements
  <2>3. ASSUME NEW k \in 0 .. nOff' - 1, d = OffAt(k)' PROVE d \in Offered /\ d # h
    <3>1. k \in Nat /\ k + 1 \in 0 .. nOff - 1 /\ 0 \in 0 .. nOff - 1 /\ k + 1 # 0
      BY <1>0, <1>1
    <3>2. d = OffAt(k + 1)
      BY <1>4, <2>3, <3>1
    <3> QED BY <1>3, <1>10, <2>2, <3>1, <3>2
  <2>4. ASSUME NEW k \in 0 .. nOff - 1, d = OffAt(k), d # h PROVE d \in Offered'
    <3>1. k # 0
      BY <1>3, <2>4
    <3>2. k - 1 \in Nat /\ k - 1 \in 0 .. nOff' - 1 /\ (k - 1) + 1 = k
      BY <1>0, <1>1, <3>1
    <3>3. OffAt(k - 1)' = OffAt(k)
      BY <1>4, <3>2
    <3> QED BY <2>1, <2>4, <3>2, <3>3
  <2> QED BY <2>1, <2>2, <2>3, <2>4
<1>12. Busy' = Busy
  BY <1>3, <1>6, <1>8, <1>11 DEF Busy
<1>13. ZonesInv'
  <2>1. num_free' + nOff' + Cardinality(taken') + nRet' = Size
    <3>1. num_free' = num_free
      BY DEF Take, free_list
    <3> QED BY <1>0, <1>1, <1>7, <3>1
  <2>2. FreeList' = Desc \ Busy'
    BY <1>5, <1>9, <1>12
  <2>3. (Offered' \cap taken' = {}) /\ (Offered' \cap Returned' = {}) /\ (taken' \cap Returned' = {})
    BY <1>3, <1>5, <1>6, <1>8, <1>11
  <2> QED BY <2>1, <2>2, <2>3 DEF ZonesInv
<1>14. RingsInv'
  <2>1. ASSUME NEW j \in 0 .. nOff' - 1, NEW k \in 0 .. nOff' - 1, OffAt(j)' = OffAt(k)'
        PROVE  j = k
    <3>1. j \in Nat /\ k \in Nat /\ j + 1 \in 0 .. nOff - 1 /\ k + 1 \in 0 .. nOff - 1
      BY <1>0, <1>1
    <3>2. OffAt(j + 1) = OffAt(k + 1)
      BY <1>4, <2>1, <3>1
    <3>3. j + 1 = k + 1
      BY <1>10, <3>1, <3>2
    <3> QED BY <3>1, <3>3
  <2>2. \A j, k \in 0 .. nRet' - 1 : RetAt(j)'.id = RetAt(k)'.id => j = k
    <3>1. \A i \in 0 .. nRet - 1 : RetAt(i)' = RetAt(i)
      BY <1>0, <1>8
    <3> QED BY <1>1, <3>1 DEF QueueInv, RingsInv
  <2> QED BY <2>1, <2>2 DEF RingsInv
<1>15. QueueTypeOK'
  <2>1. taken' \subseteq Desc
    BY <1>0, <1>3, <1>6
  <2> QED BY <1>0, <1>1, <2>1 DEF QueueInv, QueueTypeOK, Take, free_list
<1> QED BY <1>1, <1>8, <1>9, <1>12, <1>13, <1>14, <1>15 DEF QueueInv

\* The device returns a descriptor that it had taken.
LEMMA ReturnQueue ==
  ASSUME QueueInv, NEW d \in taken, NEW f \in BOOLEAN, Return(d, f)
  PROVE  /\ QueueInv' /\ Busy' = Busy /\ d \in Busy /\ d \notin Returned
         /\ nRet' = nRet + 1 /\ \A k \in 0 .. nRet - 1 : RetAt(k)' = RetAt(k)
         /\ \A k : k = nRet => RetAt(k)' = [id |-> d, frame |-> f]
<1>0. /\ num_free \in Nat /\ nOff \in Nat /\ nRet \in Nat /\ Size \in Nat
      /\ used_idx \in Idx /\ last_used_idx \in Idx /\ IsFiniteSet(taken) /\ taken \subseteq Desc
      /\ Cardinality(taken) \in Nat /\ num_free + nOff + Cardinality(taken) + nRet = Size
      /\ d \in Desc
  BY QueueNumbers
<1>1. /\ FreeList = Desc \ Busy /\ Offered \cap taken = {} /\ Offered \cap Returned = {}
      /\ taken \cap Returned = {}
  BY DEF QueueInv, ZonesInv
<1>2. taken' = taken \ {d} /\ Cardinality(taken') = Cardinality(taken) - 1
  BY <1>0, FS_RemoveElement DEF Return
<1>3. Cardinality(taken') \in Nat
  BY <1>0, <1>2, FS_RemoveElement, FS_CardinalityType
<1>4. nRet < Size
  BY <1>0, <1>2, <1>3
<1>5. nRet' = nRet + 1 /\ used_idx' \in Idx /\ nOff' = nOff /\ last_used_idx' = last_used_idx
  BY <1>0, <1>4, AheadFacts DEF nOff, nRet, Return
<1>6. PICK m : m = nRet
  OBVIOUS
<1>7. /\ used' = [used EXCEPT ![(last_used_idx + m) % Size] = [id |-> d, frame |-> f]]
      /\ (last_used_idx + m) % Size \in Desc /\ used \in [Desc -> [id : Desc, frame : BOOLEAN]]
  BY <1>0, <1>6, PlaceFacts, ZenonT(40) DEF Return, nRet, QueueInv, QueueTypeOK
<1>8. RetAt(m)' = [id |-> d, frame |-> f]
  BY <1>5, <1>7 DEF RetAt
<1>9. ASSUME NEW k \in 0 .. nRet - 1 PROVE RetAt(k)' = RetAt(k)
  <2>1. k \in 0 .. Size - 1 /\ m \in 0 .. Size - 1 /\ k # m /\ k \in Nat
    BY <1>0, <1>4, <1>6
  <2>2. (last_used_idx + k) % Size # (last_used_idx + m) % Size /\ (last_used_idx + k) % Size \in Desc
    BY <1>0, <2>1, PlacesApart, PlaceFacts
  <2> QED BY <1>5, <1>7, <2>2 DEF RetAt
<1>10. Offered' = Offered /\ \A k \in Nat : OffAt(k)' = OffAt(k)
  BY DEF Offered, OffAt, Return
<1>11. FreeList' = FreeList /\ (ListInv <=> ListInv') /\ num_free' = num_free
  BY DEF FreeList, FreeChain, IsChain, ListInv, Return, free_list
<1>12. ASSUME NEW e PROVE e \in Returned' <=> (e \in Returned \/ e = d)
  <2>1. e \in Returned' <=> \E k \in 0 .. nRet' - 1 : e = RetAt(k)'.id
    BY DEF Returned, RetAt, nRet
  <2>2. e \in Returned <=> \E k \in 0 .. nRet - 1 : e = RetAt(k).id
    BY ZoneElements
  <2>3. \A k : k \in 0 .. nRet' - 1 <=> (k \in 0 .. nRet - 1 \/ k = m)
    BY <1>0, <1>5, <1>6
  <2>4. RetAt(m)'.id = d
    BY <1>8
  <2> QED BY <1>9, <2>1, <2>2, <2>3, <2>4
<1>13. Busy' = Busy /\ d \in Busy /\ d \notin Returned
  BY <1>1, <1>2, <1>10, <1>12 DEF Busy
<1>14. ZonesInv'
  <2>1. num_free' + nOff' + Cardinality(taken') + nRet' = Size
    BY <1>0, <1>2, <1>5, <1>11
  <2>2. FreeList' = Desc \ Busy'
    BY <1>1, <1>11, <1>13
  <2>3. (Offered' \cap taken' = {}) /\ (Offered' \cap Returned' = {}) /\ (taken' \cap Returned' = {})
    BY <1>1, <1>2, <1>10, <1>12
  <2> QED BY <2>1, <2>2, <2>3 DEF ZonesInv
<1>15. RingsInv'
  <2>1. ASSUME NEW j \in 0 .. nRet' - 1, NEW k \in 0 .. nRet' - 1, RetAt(j)'.id = RetAt(k)'.id
        PROVE  j = k
    <3>1. \A i \in 0 .. nRet - 1 : RetAt(i).id \in Returned
      BY ZoneElements
    <3>2. (j \in 0 .. nRet - 1 \/ j = m) /\ (k \in 0 .. nRet - 1 \/ k = m)
      BY <1>0, <1>5, <1>6
    <3>3. \A i, l \in 0 .. nRet - 1 : RetAt(i).id = RetAt(l).id => i = l
      BY DEF QueueInv, RingsInv
    <3>4. RetAt(m)'.id = d
      BY <1>8
    <3> QED BY <1>9, <1>13, <2>1, <3>1, <3>2, <3>3, <3>4
  <2>2. \A j, k \in 0 .. nOff' - 1 : OffAt(j)' = OffAt(k)' => j = k
    <3>1. \A i \in 0 .. nOff - 1 : OffAt(i)' = OffAt(i)
      BY <1>0, <1>10
    <3> QED BY <1>5, <3>1 DEF QueueInv, RingsInv
  <2> QED BY <2>1, <2>2 DEF RingsInv
<1>16. QueueTypeOK'
  <2>1. taken' \subseteq Desc
    BY <1>0, <1>2
  <2>2. used' \in [Desc -> [id : Desc, frame : BOOLEAN]]
    BY <1>0, <1>7
  <2> QED BY <1>0, <1>5, <2>1, <2>2 DEF QueueInv, QueueTypeOK, Return, free_list
<1> QED BY <1>5, <1>6, <1>8, <1>9, <1>11, <1>13, <1>14, <1>15, <1>16 DEF QueueInv

\* A step that does not touch the queue.
LEMMA SameQueue ==
  ASSUME QueueInv, UNCHANGED queue
  PROVE  QueueInv' /\ Busy' = Busy /\ nRet' = nRet /\ FreeChain' = FreeChain
         /\ \A k \in Nat : RetAt(k)' = RetAt(k)
<1>1. /\ next' = next /\ addr' = addr /\ free_head' = free_head /\ num_free' = num_free
      /\ avail' = avail /\ avail_idx' = avail_idx /\ used' = used /\ used_idx' = used_idx
      /\ last_used_idx' = last_used_idx /\ dev_idx' = dev_idx /\ taken' = taken
  BY DEF queue, free_list
<1>2. nOff' = nOff /\ nRet' = nRet /\ Offered' = Offered /\ Returned' = Returned
  BY <1>1 DEF nOff, nRet, Offered, Returned
<1>3. FreeChain' = FreeChain /\ FreeList' = FreeList
  BY <1>1 DEF FreeList, FreeChain, IsChain
<1>4. \A k \in Nat : RetAt(k)' = RetAt(k) /\ OffAt(k)' = OffAt(k)
  BY <1>1 DEF RetAt, OffAt
<1>5. Busy' = Busy
  BY <1>1, <1>2 DEF Busy
<1>6. QueueTypeOK'
  BY <1>1 DEF QueueInv, QueueTypeOK
<1>7. ListInv'
  BY <1>1, <1>3 DEF QueueInv, ListInv, IsChain
<1>8. RingsInv'
  <2>1. nOff \in Nat /\ nRet \in Nat
    BY QueueNumbers
  <2>2. /\ \A k \in 0 .. nOff - 1 : OffAt(k)' = OffAt(k)
        /\ \A k \in 0 .. nRet - 1 : RetAt(k)' = RetAt(k)
    BY <1>4, <2>1
  <2> QED BY <1>2, <2>2 DEF QueueInv, RingsInv
<1>9. ZonesInv'
  BY <1>1, <1>2, <1>3, <1>5 DEF QueueInv, ZonesInv
<1> QED BY <1>2, <1>3, <1>4, <1>5, <1>6, <1>7, <1>8, <1>9 DEF QueueInv

\* The invariant says that every descriptor is accounted for.
LEMMA QueueInvAccounts == QueueInv => DescriptorsAccounted
<1> SUFFICES ASSUME QueueInv PROVE DescriptorsAccounted
  OBVIOUS
<1>0. num_free \in Nat /\ nOff \in Nat /\ nRet \in Nat
  BY QueueNumbers
<1>1. Cardinality(FreeList) = num_free
  <2>1. /\ FreeChain \in [0 .. num_free - 1 -> FreeList]
        /\ \A d \in FreeList : \E k \in 0 .. num_free - 1 : d = FreeChain[k]
        /\ \A j, k \in 0 .. num_free - 1 : FreeChain[j] = FreeChain[k] => j = k
    BY ZoneElements DEF QueueInv, ListInv
  <2> QED BY <1>0, <2>1, CountImage
<1>2. Cardinality(Offered) = nOff
  <2> DEFINE c == [k \in 0 .. nOff - 1 |-> OffAt(k)]
  <2>1. /\ c \in [0 .. nOff - 1 -> Offered]
        /\ \A d \in Offered : \E k \in 0 .. nOff - 1 : d = c[k]
        /\ \A j, k \in 0 .. nOff - 1 : c[j] = c[k] => j = k
    BY ZoneElements DEF QueueInv, RingsInv
  <2> HIDE DEF c
  <2> QED BY <1>0, <2>1, CountImage
<1>3. Cardinality(Returned) = nRet
  <2> DEFINE c == [k \in 0 .. nRet - 1 |-> RetAt(k).id]
  <2>1. /\ c \in [0 .. nRet - 1 -> Returned]
        /\ \A d \in Returned : \E k \in 0 .. nRet - 1 : d = c[k]
        /\ \A j, k \in 0 .. nRet - 1 : c[j] = c[k] => j = k
    BY ZoneElements DEF QueueInv, RingsInv
  <2> HIDE DEF c
  <2> QED BY <1>0, <2>1, CountImage
<1>4. FreeList \cup Offered \cup taken \cup Returned = Desc
  BY QueueNumbers DEF QueueInv, ZonesInv, Busy
<1>5. num_free + Cardinality(Offered) + Cardinality(taken) + Cardinality(Returned) = Size
  BY <1>2, <1>3 DEF QueueInv, ZonesInv
<1> QED BY <1>1, <1>2, <1>3, <1>4, <1>5 DEF DescriptorsAccounted, nOff, nRet

-----------------------------------------------------------------------------
(* The driver.                                                             *)

\* The positions on the wire are bounded by its length, as a formula to be
\* primed.
Bounded ==
  nRet \in Nat => \A p \in [0 .. nRet -> Nat] :
                   WirePos(p) => p \in [0 .. nRet -> 0 .. Len(wire)]

\* The positions do not decrease, and the last one is the length.
LEMMA PositionsBounded == Bounded
<1> SUFFICES ASSUME nRet \in Nat, NEW p \in [0 .. nRet -> Nat], WirePos(p)
             PROVE  p \in [0 .. nRet -> 0 .. Len(wire)]
  BY DEF Bounded
<1>1. ASSUME NEW k \in 0 .. nRet PROVE p[k] \in 0 .. Len(wire)
  <2>1. nRet \in 0 .. nRet /\ k <= nRet /\ p[k] \in Nat /\ p[nRet] \in Nat
    OBVIOUS
  <2>2. p[k] <= p[nRet] /\ p[nRet] = Len(wire)
    BY <2>1 DEF WirePos
  <2> QED BY <2>1, <2>2
<1> QED BY <1>1

\* Nothing of reception matters to a transmit queue, and the reverse.
LEMMA OtherSide ==
  /\ (side' = "tx") => (PoolInv' /\ PostedInv' /\ WireInv')
  /\ (side' = "rx") => TxInv'
  BY DEF PoolInv, PostedInv, WireInv, TxInv

\* transmit() starts, or gives up.
LEMMA TransmitPcIInv ==
  ASSUME IInv, TransmitCall \/ TransmitError
  PROVE  IInv'
<1>1. /\ side = "tx" /\ side' = "tx" /\ pc # "track" /\ pc' \in {"idle", "reclaim"}
      /\ UNCHANGED queue /\ UNCHANGED <<pages, idx, buf, tx_inflight>>
      /\ UNCHANGED <<rx_buffers, long, memory, got, wire, empty>> /\ addr' = addr
  BY DEF IInv, TypeOK, PcInv, TransmitCall, TransmitError, txvars, rxvars, queue, free_list
<1>2. QueueInv' /\ Busy' = Busy
  BY <1>1, SameQueue DEF IInv
<1>3. TypeOK'
  BY <1>1, <1>2 DEF IInv, TypeOK, QueueInv
<1>4. PcInv'
  BY <1>1, <1>2 DEF IInv, PcInv
<1>5. TxInv'
  BY <1>1, <1>2 DEF IInv, TxInv, Kept
<1> QED BY <1>1, <1>2, <1>3, <1>4, <1>5, OtherSide DEF IInv

\* reclaim_tx_buffers() drops the buffer of a descriptor that came back.
LEMMA ReclaimOneIInv ==
  ASSUME IInv, ReclaimOne
  PROVE  IInv'
<1>1. /\ side = "tx" /\ side' = "tx" /\ pc = "reclaim" /\ pc' = pc /\ idx' = idx /\ buf' = buf
      /\ UNCHANGED <<rx_buffers, long, memory, got, wire, empty>> /\ addr' = addr /\ PollUsed
  BY DEF IInv, TypeOK, PcInv, ReclaimOne, rxvars, PollUsed
<1>2. PICK h : h = UsedEntry.id
  OBVIOUS
<1>3. QueueInv' /\ h \in Busy /\ Busy' = Busy \ {h} /\ Busy \subseteq Desc /\ h \in Desc
  BY <1>1, <1>2, PollUsedQueue, QueueNumbers DEF IInv
<1>4. /\ tx_inflight' = [tx_inflight EXCEPT ![h] = NoBuffer]
      /\ pages' = (pages \cup {tx_inflight[h]}) \ {NoBuffer}
      /\ tx_inflight \in [Desc -> Buffer \cup {NoBuffer}] /\ pages \subseteq Buffer
  BY <1>2 DEF ReclaimOne, Reclaimed, IInv, TypeOK
<1>5. /\ \A d \in Busy : addr[d] = tx_inflight[d] /\ addr[d] \in Buffer /\ addr[d] \notin pages
      /\ \A d, e \in Busy : addr[d] = addr[e] => d = e
      /\ \A d \in Desc \ Busy : tx_inflight[d] = NoBuffer
      /\ \A b \in Buffer \ pages : \E d \in Busy : addr[d] = b
  BY <1>1 DEF IInv, TxInv, Kept
<1>6. pages' = pages \cup {addr[h]} /\ addr[h] \in Buffer
  BY <1>3, <1>4, <1>5
<1>7. TypeOK'
  <2>1. tx_inflight' \in [Desc -> Buffer \cup {NoBuffer}] /\ pages' \subseteq Buffer
    BY <1>3, <1>4, <1>6
  <2> QED BY <1>1, <1>3, <2>1 DEF IInv, TypeOK, QueueInv
<1>8. PcInv'
  BY <1>1 DEF IInv, PcInv
<1>9. TxInv'
  <2>1. \A d \in Busy' : d \in Busy /\ d # h /\ tx_inflight'[d] = tx_inflight[d] /\ addr[d] # addr[h]
    BY <1>3, <1>4, <1>5
  <2>2. \A d \in Busy' : addr'[d] = Kept(d)' /\ addr'[d] \in Buffer /\ addr'[d] \notin pages'
    BY <1>1, <1>5, <1>6, <2>1 DEF Kept
  <2>3. \A d, e \in Busy' : addr'[d] = addr'[e] => d = e
    BY <1>1, <1>5, <2>1
  <2>4. \A d \in Desc \ Busy' : tx_inflight'[d] = NoBuffer
    BY <1>3, <1>4, <1>5
  <2>5. \A b \in Buffer \ pages' : \E d \in Busy' : addr'[d] = b
    BY <1>1, <1>3, <1>5, <1>6
  <2> QED BY <2>2, <2>3, <2>4, <2>5 DEF TxInv
<1> QED BY <1>1, <1>3, <1>7, <1>8, <1>9, OtherSide DEF IInv

\* transmit() offers a buffer.
LEMMA TransmitOfferIInv ==
  ASSUME IInv, TransmitOffer
  PROVE  IInv'
<1>1. PICK b \in pages : AddBuf(b) /\ pages' = pages \ {b} /\ buf' = b
  BY DEF TransmitOffer
<1>2. /\ side = "tx" /\ side' = "tx" /\ pc = "reclaim" /\ pc' = "track"
      /\ tx_inflight' = tx_inflight
      /\ UNCHANGED <<rx_buffers, long, memory, got, wire, empty>>
      /\ tx_inflight \in [Desc -> Buffer \cup {NoBuffer}] /\ pages \subseteq Buffer /\ b \in Buffer
  BY <1>1 DEF IInv, TypeOK, PcInv, TransmitOffer, rxvars
<1>3. PICK h : h = free_head
  OBVIOUS
<1>4. QueueInv' /\ h \in Desc \ Busy /\ Busy' = Busy \cup {h} /\ Busy \subseteq Desc
  BY <1>1, <1>2, <1>3, AddBufQueue, QueueNumbers DEF IInv
<1>5. idx' = h /\ addr' = [addr EXCEPT ![h] = b] /\ addr \in [Desc -> Buffer \cup {NoBuffer}]
  BY <1>1, <1>3 DEF TransmitOffer, AddBuf, IInv, QueueInv, QueueTypeOK
<1>6. /\ \A d \in Busy : addr[d] = tx_inflight[d] /\ addr[d] \in Buffer /\ addr[d] \notin pages
      /\ \A d, e \in Busy : addr[d] = addr[e] => d = e
      /\ \A d \in Desc \ Busy : tx_inflight[d] = NoBuffer
      /\ \A x \in Buffer \ pages : \E d \in Busy : addr[d] = x
  BY <1>2 DEF IInv, TxInv, Kept
<1>7. TypeOK'
  BY <1>1, <1>2, <1>4, <1>5 DEF IInv, TypeOK, QueueInv
<1>8. PcInv'
  BY <1>2, <1>4, <1>5, <1>6 DEF PcInv
<1>9. TxInv'
  <2>1. \A d \in Busy : d # h /\ d \in Desc /\ addr'[d] = addr[d] /\ addr[d] # b
    BY <1>1, <1>4, <1>5, <1>6
  <2>2. addr'[h] = b
    BY <1>4, <1>5
  <2>3. \A d \in Busy' : addr'[d] = Kept(d)' /\ addr'[d] \in Buffer /\ addr'[d] \notin pages'
    BY <1>1, <1>2, <1>4, <1>5, <1>6, <2>1, <2>2 DEF Kept
  <2>4. \A d, e \in Busy' : addr'[d] = addr'[e] => d = e
    BY <1>4, <1>6, <2>1, <2>2
  <2>5. \A d \in Desc \ Busy' : tx_inflight'[d] = NoBuffer
    BY <1>2, <1>4, <1>6
  <2>6. \A x \in Buffer \ pages' : \E d \in Busy' : addr'[d] = x
    BY <1>1, <1>4, <1>6, <2>1, <2>2
  <2> QED BY <2>3, <2>4, <2>5, <2>6 DEF TxInv
<1> QED BY <1>2, <1>4, <1>7, <1>8, <1>9, OtherSide DEF IInv

\* transmit() puts the buffer into tx_inflight.
LEMMA TransmitTrackIInv ==
  ASSUME IInv, TransmitTrack
  PROVE  IInv'
<1>1. /\ side = "tx" /\ side' = "tx" /\ pc = "track" /\ pc' = "idle" /\ buf' = NoBuffer /\ idx' = 0
      /\ UNCHANGED queue /\ addr' = addr /\ UNCHANGED <<rx_buffers, long, memory, got, wire, empty>>
      /\ tx_inflight' = [tx_inflight EXCEPT ![idx] = buf]
      /\ pages' = (pages \cup {tx_inflight[idx]}) \ {NoBuffer}
      /\ tx_inflight \in [Desc -> Buffer \cup {NoBuffer}] /\ pages \subseteq Buffer
      /\ buf \in Buffer \cup {NoBuffer} /\ idx \in Desc
  BY DEF IInv, TypeOK, PcInv, TransmitTrack, rxvars, queue, free_list
<1>2. QueueInv' /\ Busy' = Busy /\ Busy \subseteq Desc
  BY <1>1, SameQueue, QueueNumbers DEF IInv
<1>3. idx \in Busy /\ tx_inflight[idx] = NoBuffer
  BY <1>1 DEF IInv, PcInv
<1>4. pages' = pages
  BY <1>1, <1>3
<1>5. TypeOK'
  <2>1. 0 \in Desc
    BY DEF Desc
  <2> QED BY <1>1, <1>2, <1>4, <2>1 DEF IInv, TypeOK, QueueInv
<1>6. PcInv'
  BY <1>1 DEF PcInv
<1>7. TxInv'
  <2>1. \A d \in Busy : tx_inflight'[d] = Kept(d)
    BY <1>1, <1>2 DEF Kept
  <2>2. \A d \in Busy : Kept(d)' = tx_inflight'[d]
    BY <1>1 DEF Kept
  <2>3. \A d \in Desc \ Busy : tx_inflight'[d] = tx_inflight[d]
    BY <1>1, <1>3
  <2> QED BY <1>1, <1>2, <1>4, <2>1, <2>2, <2>3 DEF IInv, TxInv
<1> QED BY <1>1, <1>2, <1>5, <1>6, <1>7, OtherSide DEF IInv

\* The device has sent a frame.
LEMMA DeviceSentIInv ==
  ASSUME IInv, NEW d \in taken, DeviceSent(d)
  PROVE  IInv'
<1>1. /\ side = "tx" /\ side' = "tx" /\ Return(d, FALSE) /\ addr' = addr
      /\ UNCHANGED <<pc, pages, idx, buf, tx_inflight>>
      /\ UNCHANGED <<rx_buffers, long, memory, got, wire, empty>>
  BY DEF DeviceSent, Return, txvars, rxvars, free_list
<1>2. QueueInv' /\ Busy' = Busy
  BY <1>1, ReturnQueue DEF IInv
<1>3. TypeOK'
  BY <1>1, <1>2 DEF IInv, TypeOK, QueueInv
<1>4. PcInv'
  BY <1>1, <1>2 DEF IInv, PcInv
<1>5. TxInv'
  BY <1>1, <1>2 DEF IInv, TxInv, Kept
<1> QED BY <1>1, <1>2, <1>3, <1>4, <1>5, OtherSide DEF IInv

-----------------------------------------------------------------------------
(* Reception.                                                              *)

\* The types of what the proofs below use.
LEMMA RxFacts ==
  ASSUME IInv, side = "rx"
  PROVE  /\ num_free \in Nat /\ nRet \in Nat /\ empty \in Nat /\ Size \in Nat /\ PoolSize \in Nat
         /\ Len(rx_buffers) \in Nat /\ Len(wire) \in Nat
         /\ rx_buffers \in Seq(Buffer) /\ wire \in Seq(Frame) /\ memory \in [Buffer -> Frame]
         /\ \A i \in 1 .. Len(rx_buffers) : rx_buffers[i] \in Buffer
         /\ IsFiniteSet(EmptyRet) /\ Cardinality(EmptyRet) \in Nat
         /\ Busy \subseteq Desc /\ \A d \in Desc : d \in Nat
         /\ addr \in [Desc -> Buffer \cup {NoBuffer}] /\ buf = NoBuffer /\ pc \in {"fill", "idle", "copy"}
         /\ \A k \in 0 .. nRet - 1 : RetAt(k).id \in Returned /\ RetAt(k).id \in Busy
<1>1. num_free \in Nat /\ nRet \in Nat /\ Busy \subseteq Desc
  BY QueueNumbers DEF IInv
<1>2. rx_buffers \in Seq(Buffer) /\ wire \in Seq(Frame) /\ memory \in [Buffer -> Frame] /\ empty \in Nat
  BY DEF IInv, TypeOK
<1>3. \A i \in 1 .. Len(rx_buffers) : rx_buffers[i] \in Buffer
  BY <1>2
<1>4. IsFiniteSet(EmptyRet) /\ Cardinality(EmptyRet) \in Nat
  <2>1. IsFiniteSet(0 .. nRet - 1)
    BY <1>1, FS_Interval
  <2>2. EmptyRet \in SUBSET (0 .. nRet - 1)
    BY DEF EmptyRet
  <2> QED BY <2>1, <2>2, FS_Subset, FS_CardinalityType
<1>5. addr \in [Desc -> Buffer \cup {NoBuffer}]
  BY DEF IInv, QueueInv, QueueTypeOK
<1>6. \A k \in 0 .. nRet - 1 : RetAt(k).id \in Returned /\ RetAt(k).id \in Busy
  BY ZoneElements DEF Busy
<1>7. pc \in {"fill", "idle", "copy"} /\ buf = NoBuffer
  BY DEF IInv, PcInv
<1>8. Len(rx_buffers) \in Nat /\ Len(wire) \in Nat
  BY <1>2
<1>9. \A d \in Desc : d \in Nat
  BY DEF Desc
<1> QED BY <1>1, <1>2, <1>3, <1>4, <1>5, <1>6, <1>7, <1>8, <1>9

\* Entries of the used ring that stay: their count stays.
LEMMA SameEmptyRet ==
  ASSUME nRet \in Nat, nRet' = nRet, \A k \in 0 .. nRet - 1 : RetAt(k)' = RetAt(k)
  PROVE  EmptyRet' = EmptyRet
  BY DEF EmptyRet

\* Taking the first of the numbers away and counting from there.
LEMMA ShiftCount ==
  ASSUME NEW n \in Nat \ {0}, NEW S \in SUBSET (0 .. n - 1),
         NEW T, T = {k \in 0 .. n - 2 : k + 1 \in S}
  PROVE  Cardinality(T) = Cardinality(S) - IF 0 \in S THEN 1 ELSE 0
<1> DEFINE R == S \ {0}
           g == [k \in R |-> k - 1]
<1>1. IsFiniteSet(S) /\ Cardinality(S) \in Nat
  <2>1. IsFiniteSet(0 .. n - 1)
    BY FS_Interval
  <2> QED BY <2>1, FS_Subset, FS_CardinalityType
<1>2. IsFiniteSet(R) /\ Cardinality(R) = Cardinality(S) - IF 0 \in S THEN 1 ELSE 0
  BY <1>1, FS_RemoveElement
<1>3. g \in [R -> T]
  OBVIOUS
<1>4. \A j, k \in R : g[j] = g[k] => j = k
  OBVIOUS
<1>5. \A t \in T : \E k \in R : g[k] = t
  <2> SUFFICES ASSUME NEW t \in T PROVE t + 1 \in R /\ g[t + 1] = t
    OBVIOUS
  <2> QED OBVIOUS
<1> HIDE DEF R, g
<1>6. g \in Bijection(R, T)
  BY <1>3, <1>4, <1>5 DEF Bijection, Injection, Surjection, IsInjective
<1>7. ExistsBijection(R, T)
  BY <1>6 DEF ExistsBijection
<1> QED BY <1>2, <1>7, FS_Bijection

\* fill_rx_pool() allocates a buffer and posts it when there is room.
LEMMA FillRxPoolIInv ==
  ASSUME IInv, FillRxPool
  PROVE  IInv'
<1>0. side = "rx" /\ pc = "fill"
  BY DEF IInv, PcInv, TypeOK, FillRxPool
<1>1. PICK b \in pages : /\ pages' = pages \ {b} /\ rx_buffers' = Append(rx_buffers, b)
                         /\ IF num_free > 0 THEN AddBuf(b) ELSE UNCHANGED queue
  BY DEF FillRxPool
<1>2. /\ side' = "rx" /\ pc' = IF Len(rx_buffers') = PoolSize THEN "idle" ELSE "fill"
      /\ UNCHANGED <<idx, buf, tx_inflight, long, memory, got, wire, empty>>
      /\ pages \subseteq Buffer /\ b \in Buffer /\ b \in pages
  BY <1>0, <1>1 DEF IInv, TypeOK, FillRxPool, txvars
<1>3. PICK n : n = Len(rx_buffers)
  OBVIOUS
<1>4. /\ n \in Nat /\ Len(rx_buffers') = n + 1 /\ rx_buffers' \in Seq(Buffer)
      /\ rx_buffers'[n + 1] = b /\ \A i \in 1 .. n : rx_buffers'[i] = rx_buffers[i]
  BY <1>0, <1>1, <1>2, <1>3, RxFacts
<1>5. /\ \A i, j \in 1 .. n : rx_buffers[i] = rx_buffers[j] => i = j
      /\ \A i \in 1 .. n : rx_buffers[i] \notin pages
      /\ \A d \in Busy : d + 1 <= n /\ addr[d] = rx_buffers[d + 1]
      /\ n < PoolSize /\ taken = {} /\ nRet = 0
      /\ num_free = IF n < Size THEN Size - n ELSE 0
      /\ \A k \in 0 .. num_free - 1 : FreeChain[k] = n + k
  BY <1>0, <1>3 DEF IInv, PoolInv
<1>6. /\ num_free \in Nat /\ Size \in Nat /\ PoolSize \in Nat /\ empty \in Nat
      /\ Busy \subseteq Desc /\ \A d \in Desc : d \in Nat
      /\ Cardinality(EmptyRet) \in Nat
  BY <1>0, RxFacts
<1>7. /\ QueueInv' /\ nRet' = 0 /\ taken' = {} /\ EmptyRet' = EmptyRet
      /\ num_free' = IF n + 1 < Size THEN Size - (n + 1) ELSE 0
      /\ \A k \in 0 .. num_free' - 1 : FreeChain'[k] = (n + 1) + k
      /\ \A d \in Busy' : d + 1 <= n + 1 /\ addr'[d] = rx_buffers'[d + 1]
  <2>1. CASE num_free > 0
    <3>1. AddBuf(b)
      BY <1>1, <2>1
    <3>2. /\ QueueInv' /\ nRet' = nRet /\ \A k \in Nat : RetAt(k)' = RetAt(k)
          /\ Busy' = Busy \cup {free_head} /\ free_head \in Desc \ Busy
          /\ FreeChain' = [k \in 0 .. num_free - 2 |-> FreeChain[k + 1]]
      BY <1>2, <3>1, AddBufQueue DEF IInv
    <3>3. free_head = n
      <4>1. 0 \in 0 .. num_free - 1 /\ FreeChain[0] = free_head
        BY <1>6, <2>1 DEF IInv, QueueInv, ListInv, IsChain
      <4> QED BY <1>4, <1>5, <4>1
    <3>4. /\ num_free' = num_free - 1 /\ taken' = taken
          /\ addr' = [addr EXCEPT ![free_head] = b] /\ addr \in [Desc -> Buffer \cup {NoBuffer}]
      BY <1>0, <3>1, RxFacts DEF AddBuf
    <3>5. num_free' = IF n + 1 < Size THEN Size - (n + 1) ELSE 0
      BY <1>4, <1>5, <1>6, <2>1, <3>4
    <3>6. ASSUME NEW k \in 0 .. num_free' - 1 PROVE FreeChain'[k] = (n + 1) + k
      <4>1. k \in 0 .. num_free - 2 /\ k + 1 \in 0 .. num_free - 1
        BY <1>6, <3>4
      <4>2. FreeChain'[k] = FreeChain[k + 1] /\ FreeChain[k + 1] = n + (k + 1)
        BY <1>5, <3>2, <4>1
      <4> QED BY <1>4, <4>2
    <3>7. ASSUME NEW d \in Busy' PROVE d + 1 <= n + 1 /\ addr'[d] = rx_buffers'[d + 1]
      <4>1. CASE d = n
        BY <1>4, <3>2, <3>3, <3>4, <4>1
      <4>2. CASE d # n
        <5>1. d \in Busy /\ d \in Nat /\ d \in Desc /\ d + 1 <= n /\ d + 1 \in 1 .. n
          BY <1>4, <1>5, <1>6, <3>2, <3>3, <4>2
        <5> QED BY <1>4, <1>5, <3>2, <3>3, <3>4, <4>2, <5>1
      <4> QED BY <4>1, <4>2
    <3>8. EmptyRet' = EmptyRet
      BY <1>5, <3>2, SameEmptyRet
    <3> QED BY <1>5, <3>2, <3>4, <3>5, <3>6, <3>7, <3>8
  <2>2. CASE ~(num_free > 0)
    <3>1. UNCHANGED queue
      BY <1>1, <2>2
    <3>2. /\ QueueInv' /\ Busy' = Busy /\ nRet' = nRet /\ FreeChain' = FreeChain
          /\ \A k \in Nat : RetAt(k)' = RetAt(k)
      BY <3>1, SameQueue DEF IInv
    <3>3. num_free' = num_free /\ taken' = taken /\ addr' = addr
      BY <3>1 DEF queue, free_list
    <3>4. num_free = 0 /\ ~(n < Size)
      BY <1>4, <1>5, <1>6, <2>2
    <3>5. num_free' = IF n + 1 < Size THEN Size - (n + 1) ELSE 0
      BY <1>4, <1>6, <3>3, <3>4
    <3>6. ASSUME NEW d \in Busy' PROVE d + 1 <= n + 1 /\ addr'[d] = rx_buffers'[d + 1]
      <4>1. d \in Nat /\ d + 1 <= n /\ d + 1 <= n + 1 /\ d + 1 \in 1 .. n
        BY <1>4, <1>5, <1>6, <3>2
      <4> QED BY <1>4, <1>5, <3>2, <3>3, <4>1
    <3>7. EmptyRet' = EmptyRet
      BY <1>5, <3>2, SameEmptyRet
    <3>8. \A k \in 0 .. num_free' - 1 : FreeChain'[k] = (n + 1) + k
      BY <3>3, <3>4
    <3> QED BY <1>5, <3>2, <3>3, <3>5, <3>6, <3>7, <3>8
  <2> QED BY <2>1, <2>2
<1>8. pc' \in {"idle", "fill"} /\ (pc' = "fill" <=> Len(rx_buffers') < PoolSize)
      /\ Len(rx_buffers') <= PoolSize
  BY <1>2, <1>4, <1>5, <1>6
<1>9. TypeOK'
  <2>1. pages' \subseteq Buffer
    BY <1>1, <1>2
  <2> QED BY <1>2, <1>4, <1>7, <1>8, <2>1 DEF IInv, TypeOK, QueueInv
<1>10. PcInv'
  BY <1>0, <1>2, <1>8 DEF IInv, PcInv
<1>11. PoolInv'
  <2>1. \A i \in 1 .. n + 1 : i \in 1 .. n \/ i = n + 1
    BY <1>4
  <2>2. ASSUME NEW i \in 1 .. n + 1, NEW j \in 1 .. n + 1, rx_buffers'[i] = rx_buffers'[j]
        PROVE  i = j
    <3>1. (i \in 1 .. n \/ i = n + 1) /\ (j \in 1 .. n \/ j = n + 1)
      BY <2>1
    <3>2. \A l \in 1 .. n : rx_buffers'[l] \in Buffer \ pages
      BY <1>0, <1>3, <1>4, <1>5, RxFacts
    <3> QED BY <1>2, <1>4, <1>5, <2>2, <3>1, <3>2
  <2>3. \A i \in 1 .. n + 1 : rx_buffers'[i] \notin pages'
    BY <1>1, <1>4, <1>5, <2>1
  <2> QED BY <1>4, <1>7, <1>8, <2>2, <2>3 DEF PoolInv
<1>12. PostedInv'
  <2>1. Front = 0 /\ Front' = 0
    BY <1>0, <1>8 DEF Front
  <2>2. Size - num_free + empty - Cardinality(EmptyRet) = (IF n < Size THEN n ELSE Size) - 0
    BY <1>0, <1>3, <2>1 DEF IInv, PostedInv
  <2>3. Size - num_free' + empty - Cardinality(EmptyRet) = (IF n + 1 < Size THEN n + 1 ELSE Size) - 0
    BY <1>4, <1>5, <1>6, <1>7, <2>2
  <2> QED BY <1>2, <1>4, <1>7, <2>1, <2>3 DEF PostedInv
<1>13. WireInv'
  <2>1. PICK p \in [0 .. nRet -> Nat] : WirePos(p)
    BY <1>0 DEF IInv, WireInv
  <2>2. Front = 0 /\ Front' = 0
    BY <1>0, <1>8 DEF Front
  <2>3. p \in [0 .. nRet' -> Nat] /\ WirePos(p)'
    BY <1>2, <1>5, <1>7, <2>1, <2>2 DEF WirePos
  <2>4. Bounded'
    BY PositionsBounded, PTL
  <2> QED BY <1>7, <1>8, <2>3, <2>4 DEF WireInv, Bounded
<1> QED BY <1>2, <1>7, <1>9, <1>10, <1>11, <1>12, <1>13, OtherSide DEF IInv

\* receive() polls.
LEMMA ReceivePollIInv ==
  ASSUME IInv, ReceivePoll
  PROVE  IInv'
<1>0. side = "rx" /\ side' = "rx" /\ pc = "idle" /\ pc' = "copy" /\ PollUsed
      /\ UNCHANGED <<pages, buf, tx_inflight, rx_buffers, memory, got, wire, empty>> /\ addr' = addr
  BY DEF ReceivePoll, txvars, PollUsed
<1>1. PICK h : h = UsedEntry.id
  OBVIOUS
<1>2. /\ QueueInv' /\ nRet > 0 /\ nRet' = nRet - 1 /\ UsedEntry = RetAt(0)
      /\ h \in Busy /\ Busy' = Busy \ {h} /\ \A k \in Nat : RetAt(k)' = RetAt(k + 1)
  BY <1>0, <1>1, PollUsedQueue DEF IInv
<1>3. /\ num_free \in Nat /\ nRet \in Nat /\ empty \in Nat /\ Size \in Nat
      /\ Len(rx_buffers) \in Nat /\ Len(wire) \in Nat /\ Cardinality(EmptyRet) \in Nat
      /\ Busy \subseteq Desc /\ \A d \in Desc : d \in Nat
  BY <1>0, RxFacts
<1>4. /\ num_free' = num_free + 1 /\ free_head' = h /\ idx' = h
      /\ (long' <=> RetAt(0).frame) /\ long' \in BOOLEAN
  <2>1. RetAt(0) \in [id : Desc, frame : BOOLEAN]
    BY QueueNumbers DEF IInv
  <2>2. long' = RetAt(0).frame
    BY <1>2 DEF ReceivePoll
  <2> QED BY <1>1, <2>1, <2>2 DEF ReceivePoll, PollUsed, HeadAfterPoll
<1>5. /\ \A i, j \in 1 .. Len(rx_buffers) : rx_buffers[i] = rx_buffers[j] => i = j
      /\ \A i \in 1 .. Len(rx_buffers) : rx_buffers[i] \notin pages
      /\ \A d \in Busy : d + 1 <= Len(rx_buffers) /\ addr[d] = rx_buffers[d + 1]
      /\ ~(Len(rx_buffers) < PoolSize)
  BY <1>0 DEF IInv, PoolInv
<1>6. TypeOK'
  <2>1. idx' \in Desc
    BY <1>2, <1>3, <1>4
  <2> QED BY <1>0, <1>2, <1>4, <2>1 DEF IInv, TypeOK, QueueInv
<1>7. PcInv'
  BY <1>0 DEF IInv, PcInv
<1>8. PoolInv'
  BY <1>0, <1>2, <1>3, <1>4, <1>5, SMTT(30) DEF PoolInv
<1>9. PostedInv'
  <2>1. Front = 0 /\ Front' = IF RetAt(0).frame THEN 1 ELSE 0
    BY <1>0, <1>4 DEF Front
  <2>2. EmptyRet' = {k \in 0 .. nRet - 2 : k + 1 \in EmptyRet}
    <3>1. \A k \in 0 .. nRet - 2 : k \in Nat /\ k + 1 \in 0 .. nRet - 1 /\ RetAt(k)' = RetAt(k + 1)
      BY <1>2, <1>3
    <3>2. nRet' - 1 = nRet - 2
      BY <1>2, <1>3
    <3>3. ASSUME NEW k PROVE k \in EmptyRet' <=> (k \in 0 .. nRet - 2 /\ k + 1 \in EmptyRet)
      <4>1. k \in EmptyRet' <=> (k \in 0 .. nRet - 2 /\ ~RetAt(k)'.frame)
        BY <3>2 DEF EmptyRet
      <4>2. k \in 0 .. nRet - 2 => ((k + 1 \in EmptyRet) <=> ~RetAt(k + 1).frame)
        BY <3>1 DEF EmptyRet
      <4> QED BY <3>1, <4>1, <4>2
    <3> QED BY <3>3
  <2>3. EmptyRet \in SUBSET (0 .. nRet - 1) /\ nRet \in Nat \ {0}
    <3>1. nRet \in Nat \ {0}
      BY <1>2, <1>3
    <3> QED BY <3>1 DEF EmptyRet
  <2>4. Cardinality(EmptyRet') = Cardinality(EmptyRet) - IF 0 \in EmptyRet THEN 1 ELSE 0
    BY <2>2, <2>3, ShiftCount
  <2>5. 0 \in EmptyRet <=> ~RetAt(0).frame
    <3>1. 0 \in 0 .. nRet - 1
      BY <1>2, <1>3
    <3> QED BY <3>1 DEF EmptyRet
  <2>6. Size - num_free + empty - Cardinality(EmptyRet)
          = (IF Len(rx_buffers) < Size THEN Len(rx_buffers) ELSE Size) - 0
    BY <1>0, <2>1 DEF IInv, PostedInv
  <2>7. Size - num_free' + empty - Cardinality(EmptyRet')
          = (IF Len(rx_buffers) < Size THEN Len(rx_buffers) ELSE Size) - Front'
    <3>1. PICK m : m = IF Len(rx_buffers) < Size THEN Len(rx_buffers) ELSE Size
      OBVIOUS
    <3>2. m \in Nat
      BY <1>3, <3>1
    <3>3. CASE RetAt(0).frame
      <4>1. Cardinality(EmptyRet') = Cardinality(EmptyRet) /\ Front' = 1
        BY <1>3, <2>1, <2>4, <2>5, <3>3
      <4> QED BY <1>3, <1>4, <2>6, <3>1, <3>2, <4>1
    <3>4. CASE ~RetAt(0).frame
      <4>1. Cardinality(EmptyRet') = Cardinality(EmptyRet) - 1 /\ Front' = 0
        BY <1>3, <2>1, <2>4, <2>5, <3>4
      <4> QED BY <1>3, <1>4, <2>6, <3>1, <3>2, <4>1
    <3> QED BY <3>3, <3>4
  <2> QED BY <1>0, <2>7 DEF PostedInv
<1>10. WireInv'
  <2>1. PICK p \in [0 .. nRet -> Nat] : WirePos(p)
    BY <1>0 DEF IInv, WireInv
  <2>2. Front = 0 /\ Front' = IF RetAt(0).frame THEN 1 ELSE 0
    BY <1>0, <1>4 DEF Front
  <2>3. /\ p[0] = 0 /\ p[nRet] = Len(wire)
        /\ \A j, k \in 0 .. nRet : j <= k => p[j] <= p[k]
        /\ \A k \in 0 .. nRet - 1 : p[k + 1] = p[k] + IF RetAt(k).frame THEN 1 ELSE 0
        /\ \A k \in 0 .. nRet - 1 :
             RetAt(k).frame => wire[p[k] + 1] = memory[rx_buffers[RetAt(k).id + 1]]
    BY <2>1, <2>2 DEF WirePos
  <2>4. PICK q : q = [k \in 0 .. nRet - 1 |-> p[k + 1]]
    OBVIOUS
  <2>5. /\ q \in [0 .. nRet' -> Nat] /\ q[0] = Front' /\ q[nRet'] = Len(wire)
        /\ \A k \in 0 .. nRet' : q[k] = p[k + 1]
    <3>1. 0 \in 0 .. nRet - 1 /\ 0 + 1 = 1 /\ (nRet - 1) + 1 = nRet /\ nRet - 1 \in 0 .. nRet - 1
      BY <1>2, <1>3
    <3>2. \A k \in 0 .. nRet - 1 : k + 1 \in 0 .. nRet /\ q[k] = p[k + 1] /\ p[k + 1] \in Nat
      BY <1>3, <2>1, <2>4
    <3>3. q[0] = p[1] /\ p[1] = p[0] + IF RetAt(0).frame THEN 1 ELSE 0
      BY <2>3, <3>1, <3>2
    <3>4. q \in [0 .. nRet' -> Nat]
      BY <1>2, <2>4, <3>2
    <3>5. q[nRet - 1] = p[nRet]
      BY <3>1, <3>2
    <3>6. q[0] = Front'
      BY <2>2, <2>3, <3>3
    <3> QED BY <1>2, <2>3, <3>2, <3>4, <3>5, <3>6
  <2>6. ASSUME NEW k \in 0 .. nRet' - 1
        PROVE  /\ q[k + 1] = q[k] + IF RetAt(k)'.frame THEN 1 ELSE 0
               /\ RetAt(k)'.frame => wire[q[k] + 1] = memory[rx_buffers[RetAt(k)'.id + 1]]
    <3>1. k \in Nat /\ k + 1 \in 0 .. nRet - 1 /\ k + 1 \in 0 .. nRet' /\ k \in 0 .. nRet'
      BY <1>2, <1>3
    <3>2. RetAt(k)' = RetAt(k + 1) /\ q[k] = p[k + 1] /\ q[k + 1] = p[(k + 1) + 1]
      BY <1>2, <2>5, <3>1
    <3> QED BY <2>3, <3>1, <3>2
  <2>7. ASSUME NEW j \in 0 .. nRet', NEW k \in 0 .. nRet', j <= k PROVE q[j] <= q[k]
    <3>1. j + 1 \in 0 .. nRet /\ k + 1 \in 0 .. nRet /\ j + 1 <= k + 1
      BY <1>2, <1>3, <2>7
    <3> QED BY <2>3, <2>5, <3>1
  <2>8. WirePos(q)'
    BY <1>0, <2>5, <2>6, <2>7 DEF WirePos
  <2>9. long' => wire[1] = memory[rx_buffers[h + 1]]
    <3>1. RetAt(0).id = h /\ 0 \in 0 .. nRet - 1
      BY <1>1, <1>2, <1>3
    <3> QED BY <1>4, <2>3, <3>1
  <2>10. Bounded'
    BY PositionsBounded, PTL
  <2>11. nRet' \in Nat
    BY <1>2, <1>3
  <2> QED BY <1>0, <1>4, <2>5, <2>8, <2>9, <2>10, <2>11 DEF WireInv, Bounded
<1> QED BY <1>0, <1>2, <1>6, <1>7, <1>8, <1>9, <1>10, OtherSide DEF IInv

\* receive() copies the frame and posts the buffer again.
LEMMA ReceiveCopyIInv ==
  ASSUME IInv, ReceiveCopy
  PROVE  /\ IInv' /\ side = "rx" /\ got' = Head(wire) /\ wire' = Tail(wire)
<1>0. /\ side = "rx" /\ side' = "rx" /\ pc = "copy" /\ pc' = "idle" /\ long
      /\ UNCHANGED <<pages, idx, buf, tx_inflight, rx_buffers, long, memory, empty>>
      /\ wire' = Tail(wire) /\ got' = memory[rx_buffers[idx + 1]] /\ AddBuf(rx_buffers[idx + 1])
  BY DEF IInv, TypeOK, PcInv, ReceiveCopy, Wanted, Posted, txvars
<1>1. /\ num_free \in Nat /\ nRet \in Nat /\ empty \in Nat /\ Size \in Nat
      /\ Len(rx_buffers) \in Nat /\ Len(wire) \in Nat /\ Cardinality(EmptyRet) \in Nat
      /\ rx_buffers \in Seq(Buffer) /\ wire \in Seq(Frame) /\ memory \in [Buffer -> Frame]
      /\ \A i \in 1 .. Len(rx_buffers) : rx_buffers[i] \in Buffer
      /\ addr \in [Desc -> Buffer \cup {NoBuffer}] /\ Busy \subseteq Desc /\ \A d \in Desc : d \in Nat
      /\ idx \in Desc
  BY <1>0, RxFacts DEF IInv, TypeOK
<1>2. /\ \A i, j \in 1 .. Len(rx_buffers) : rx_buffers[i] = rx_buffers[j] => i = j
      /\ \A i \in 1 .. Len(rx_buffers) : rx_buffers[i] \notin pages
      /\ \A d \in Busy : d + 1 <= Len(rx_buffers) /\ addr[d] = rx_buffers[d + 1]
      /\ ~(Len(rx_buffers) < PoolSize)
      /\ num_free > 0 /\ idx = free_head /\ idx + 1 <= Len(rx_buffers)
  BY <1>0 DEF IInv, PoolInv
<1>3. PICK b : b = rx_buffers[idx + 1]
  OBVIOUS
<1>4. b \in Buffer
  BY <1>1, <1>2, <1>3
<1>5. /\ QueueInv' /\ Busy' = Busy \cup {idx} /\ idx \in Desc \ Busy
      /\ nRet' = nRet /\ \A k \in Nat : RetAt(k)' = RetAt(k)
  BY <1>0, <1>2, <1>3, <1>4, AddBufQueue DEF IInv
<1>6. num_free' = num_free - 1 /\ addr' = [addr EXCEPT ![idx] = b]
  BY <1>0, <1>2, <1>3 DEF AddBuf
<1>7. PICK p \in [0 .. nRet -> Nat] : WirePos(p)
  BY <1>0 DEF IInv, WireInv
<1>8. /\ p[0] = 1 /\ p[nRet] = Len(wire)
      /\ \A j, k \in 0 .. nRet : j <= k => p[j] <= p[k]
      /\ \A k \in 0 .. nRet - 1 : p[k + 1] = p[k] + IF RetAt(k).frame THEN 1 ELSE 0
      /\ \A k \in 0 .. nRet - 1 :
           RetAt(k).frame => wire[p[k] + 1] = memory[rx_buffers[RetAt(k).id + 1]]
      /\ wire[1] = memory[rx_buffers[idx + 1]]
  BY <1>0, <1>7 DEF WirePos, Front, IInv, WireInv
<1>9. ASSUME NEW k \in 0 .. nRet PROVE 1 <= p[k] /\ p[k] <= Len(wire) /\ p[k] \in Nat
  <2>1. 0 \in 0 .. nRet /\ nRet \in 0 .. nRet /\ 0 <= k /\ k <= nRet
    BY <1>1
  <2>2. p[0] <= p[k] /\ p[k] <= p[nRet] /\ p[k] \in Nat
    BY <1>7, <1>8, <2>1
  <2> QED BY <1>8, <2>2
<1>10. Len(wire) >= 1 /\ wire # <<>>
  <2>1. 0 \in 0 .. nRet
    BY <1>1
  <2> QED BY <1>1, <1>9, <2>1
<1>11. /\ got' = Head(wire) /\ wire' \in Seq(Frame) /\ Len(wire') = Len(wire) - 1
       /\ \A i \in 1 .. Len(wire) - 1 : wire'[i] = wire[i + 1]
  BY <1>0, <1>1, <1>8, <1>10
<1>12. TypeOK'
  <2>1. got' \in Frame
    BY <1>0, <1>1, <1>3, <1>4
  <2> QED BY <1>0, <1>5, <1>11, <2>1 DEF IInv, TypeOK, QueueInv
<1>13. PcInv'
  BY <1>0 DEF IInv, PcInv
<1>14. PoolInv'
  <2>1. ASSUME NEW d \in Busy' PROVE d + 1 <= Len(rx_buffers) /\ addr'[d] = rx_buffers[d + 1]
    BY <1>1, <1>2, <1>3, <1>5, <1>6
  <2> QED BY <1>0, <1>2, <2>1 DEF PoolInv
<1>15. PostedInv'
  <2>1. Front = 1 /\ Front' = 0
    BY <1>0 DEF Front
  <2>2. EmptyRet' = EmptyRet
    BY <1>1, <1>5, SameEmptyRet
  <2>3. PICK m : m = IF Len(rx_buffers) < Size THEN Len(rx_buffers) ELSE Size
    OBVIOUS
  <2>4. m \in Nat /\ Size - num_free + empty - Cardinality(EmptyRet) = m - 1
    BY <1>0, <1>1, <2>1, <2>3 DEF IInv, PostedInv
  <2>5. Size - num_free' + empty - Cardinality(EmptyRet) = m - 0
    <3>1. PICK c : c = Cardinality(EmptyRet)
      OBVIOUS
    <3>2. c \in Nat /\ num_free \in Nat /\ empty \in Nat /\ Size \in Nat
      BY <1>1, <3>1
    <3>3. Size - num_free + empty - c = m - 1
      BY <2>4, <3>1
    <3>4. Size - (num_free - 1) + empty - c = m - 0
      BY <2>4, <3>2, <3>3
    <3> QED BY <1>6, <3>1, <3>4
  <2> QED BY <1>0, <2>1, <2>2, <2>3, <2>5 DEF PostedInv
<1>16. WireInv'
  <2>1. PICK q : q = [k \in 0 .. nRet |-> p[k] - 1]
    OBVIOUS
  <2>2. q \in [0 .. nRet -> Nat] /\ \A k \in 0 .. nRet : q[k] = p[k] - 1
    BY <1>9, <2>1
  <2>3. 0 \in 0 .. nRet /\ nRet \in 0 .. nRet
    BY <1>1
  <2>4. q[0] = 0 /\ q[nRet] = Len(wire')
    BY <1>8, <1>11, <2>2, <2>3
  <2>5. ASSUME NEW j \in 0 .. nRet, NEW k \in 0 .. nRet, j <= k PROVE q[j] <= q[k]
    <3>1. p[j] <= p[k] /\ p[j] \in Nat /\ p[k] \in Nat
      BY <1>8, <1>9, <2>5
    <3> QED BY <2>2, <3>1
  <2>6. ASSUME NEW k \in 0 .. nRet - 1
        PROVE  /\ q[k + 1] = q[k] + IF RetAt(k)'.frame THEN 1 ELSE 0
               /\ RetAt(k)'.frame => wire'[q[k] + 1] = memory[rx_buffers[RetAt(k)'.id + 1]]
    <3>1. k \in Nat /\ k \in 0 .. nRet /\ k + 1 \in 0 .. nRet
      BY <1>1
    <3>2. RetAt(k)' = RetAt(k) /\ q[k] = p[k] - 1 /\ q[k + 1] = p[k + 1] - 1
      BY <1>5, <2>2, <3>1
    <3>3. 1 <= p[k] /\ p[k] \in Nat /\ p[k + 1] <= Len(wire)
      BY <1>9, <3>1
    <3>4. p[k + 1] = p[k] + IF RetAt(k).frame THEN 1 ELSE 0
      BY <1>8
    <3>5. q[k + 1] = q[k] + IF RetAt(k).frame THEN 1 ELSE 0
      BY <3>2, <3>3, <3>4
    <3>6. RetAt(k).frame => q[k] + 1 = p[k] /\ p[k] \in 1 .. Len(wire) - 1
      BY <1>1, <3>2, <3>3, <3>4
    <3>7. ASSUME RetAt(k).frame
          PROVE  wire'[q[k] + 1] = memory[rx_buffers[RetAt(k).id + 1]]
      <4>1. q[k] + 1 = p[k] /\ p[k] \in 1 .. Len(wire) - 1
        BY <3>6, <3>7
      <4>2. wire'[p[k]] = wire[p[k] + 1]
        BY <1>11, <4>1
      <4>3. wire[p[k] + 1] = memory[rx_buffers[RetAt(k).id + 1]]
        BY <1>8, <3>7
      <4> QED BY <4>1, <4>2, <4>3
    <3> QED BY <3>2, <3>5, <3>7
  <2>7. Front' = 0
    BY <1>0 DEF Front
  <2>8. WirePos(q)'
    BY <1>0, <1>5, <2>4, <2>5, <2>6, <2>7 DEF WirePos
  <2>9. Bounded'
    BY PositionsBounded, PTL
  <2> QED BY <1>0, <1>1, <1>5, <2>2, <2>8, <2>9 DEF WireInv, Bounded
<1> QED BY <1>0, <1>5, <1>11, <1>12, <1>13, <1>14, <1>15, <1>16, OtherSide DEF IInv

\* A step that leaves reception as it is.
LEMMA RxUntouched ==
  ASSUME IInv, QueueInv', Busy' = Busy, nRet' = nRet, \A k \in Nat : RetAt(k)' = RetAt(k),
         UNCHANGED <<side, pages, idx, buf, tx_inflight, rx_buffers, long, memory, got, wire, empty>>,
         addr' = addr, num_free' = num_free, free_head' = free_head,
         pc' = pc \/ (pc = "copy" /\ pc' = "idle" /\ ~long), side = "rx", pc # "fill"
  PROVE  IInv'
<1>0. nRet \in Nat /\ pc \in {"idle", "copy"} /\ pc' \in {"idle", "copy"}
  BY RxFacts
<1>1. TypeOK'
  BY <1>0 DEF IInv, TypeOK, QueueInv
<1>2. PcInv'
  BY <1>0 DEF IInv, PcInv
<1>3. PoolInv'
  BY <1>0 DEF IInv, PoolInv
<1>4. Front' = Front
  BY <1>0 DEF Front
<1>5. EmptyRet' = EmptyRet
  BY <1>0, SameEmptyRet
<1>6. PostedInv'
  BY <1>4, <1>5 DEF IInv, PostedInv
<1>7. WireInv'
  <2>1. PICK p \in [0 .. nRet -> Nat] : WirePos(p)
    BY DEF IInv, WireInv
  <2>2. \A k \in 0 .. nRet - 1 : RetAt(k)' = RetAt(k)
    BY <1>0
  <2>3. WirePos(p)'
    BY <1>4, <2>1, <2>2 DEF WirePos
  <2>4. Bounded'
    BY PositionsBounded, PTL
  <2> QED BY <1>0, <2>1, <2>3, <2>4 DEF IInv, WireInv, Bounded
<1> QED BY <1>1, <1>2, <1>3, <1>6, <1>7, OtherSide DEF IInv

\* receive() returns without a frame.
LEMMA ReceiveNothingIInv ==
  ASSUME IInv, ReceiveNothing
  PROVE  IInv' /\ ~long
<1>0. side = "rx" /\ pc = "copy" /\ pc' = "idle" /\ UNCHANGED queue
      /\ UNCHANGED <<side, pages, idx, buf, tx_inflight, rx_buffers, long, memory, got, wire, empty>>
  BY DEF IInv, TypeOK, PcInv, ReceiveNothing, txvars, rxvars
<1>1. ~long
  <2>1. idx + 1 <= Len(rx_buffers) /\ idx \in Nat /\ Len(rx_buffers) \in Nat
    BY <1>0, RxFacts DEF IInv, PoolInv, TypeOK
  <2>2. idx < Len(rx_buffers)
    BY <2>1
  <2> QED BY <2>2 DEF ReceiveNothing, Wanted
<1>2. /\ QueueInv' /\ Busy' = Busy /\ nRet' = nRet /\ \A k \in Nat : RetAt(k)' = RetAt(k)
      /\ addr' = addr /\ num_free' = num_free /\ free_head' = free_head
  BY <1>0, SameQueue DEF IInv, queue, free_list
<1> QED BY <1>0, <1>1, <1>2, RxUntouched

\* The device takes a descriptor.
LEMMA DeviceTakeIInv ==
  ASSUME IInv, DeviceTake
  PROVE  IInv'
<1>0. pc # "fill" /\ Take /\ pc' = pc /\ addr' = addr /\ num_free' = num_free /\ free_head' = free_head
      /\ UNCHANGED <<side, pages, idx, buf, tx_inflight, rx_buffers, long, memory, got, wire, empty>>
  BY DEF DeviceTake, Take, free_list, txvars, rxvars
<1>1. QueueInv' /\ Busy' = Busy /\ nRet' = nRet /\ \A k \in Nat : RetAt(k)' = RetAt(k)
  BY <1>0, TakeQueue DEF IInv
<1>2. CASE side = "rx"
  BY <1>0, <1>1, <1>2, RxUntouched
<1>3. CASE side = "tx"
  <2>1. TypeOK'
    BY <1>0, <1>1 DEF IInv, TypeOK, QueueInv
  <2>2. PcInv'
    BY <1>0, <1>1 DEF IInv, PcInv
  <2>3. TxInv'
    BY <1>0, <1>1 DEF IInv, TxInv, Kept
  <2> QED BY <1>0, <1>1, <1>3, <2>1, <2>2, <2>3, OtherSide DEF IInv
<1> QED BY <1>2, <1>3 DEF IInv, TypeOK

\* What the device does to the pool by returning descriptor d.
LEMMA ReturnPool ==
  ASSUME IInv, side = "rx", NEW d \in taken, NEW f \in BOOLEAN, Return(d, f),
         UNCHANGED <<side, pc, pages, idx, buf, tx_inflight, rx_buffers, long>>
  PROVE  /\ QueueInv' /\ PcInv' /\ PoolInv' /\ TxInv' /\ pc # "fill" /\ Front' = Front
         /\ d \in Busy /\ d \notin Returned /\ nRet' = nRet + 1 /\ num_free' = num_free
         /\ \A k \in 0 .. nRet - 1 : RetAt(k)' = RetAt(k)
         /\ \A k : k = nRet => RetAt(k)' = [id |-> d, frame |-> f]
         /\ d + 1 \in 1 .. Len(rx_buffers) /\ addr[d] = rx_buffers[d + 1]
         /\ pc = "copy" => idx \notin Busy /\ idx + 1 \in 1 .. Len(rx_buffers)
<1>1. /\ QueueInv' /\ Busy' = Busy /\ d \in Busy /\ d \notin Returned
      /\ nRet' = nRet + 1 /\ \A k \in 0 .. nRet - 1 : RetAt(k)' = RetAt(k)
      /\ \A k : k = nRet => RetAt(k)' = [id |-> d, frame |-> f]
  BY ReturnQueue DEF IInv
<1>2. addr' = addr /\ num_free' = num_free /\ free_head' = free_head
  BY DEF Return, free_list
<1>3. pc # "fill" /\ pc \in {"idle", "copy"}
  BY RxFacts DEF IInv, PoolInv
<1>4. PcInv' /\ TxInv'
  BY <1>1, <1>3, OtherSide DEF IInv, PcInv
<1>5. PoolInv'
  BY <1>1, <1>2, <1>3 DEF IInv, PoolInv
<1>6. Front' = Front
  BY DEF Front
<1>7. d + 1 \in 1 .. Len(rx_buffers) /\ addr[d] = rx_buffers[d + 1]
  <2>1. d \in Nat /\ d + 1 <= Len(rx_buffers) /\ addr[d] = rx_buffers[d + 1] /\ Len(rx_buffers) \in Nat
    BY <1>1, RxFacts DEF IInv, PoolInv
  <2> QED BY <2>1
<1>8. pc = "copy" => idx \notin Busy /\ idx + 1 \in 1 .. Len(rx_buffers)
  <2> SUFFICES ASSUME pc = "copy" PROVE idx \notin Busy /\ idx + 1 \in 1 .. Len(rx_buffers)
    OBVIOUS
  <2>1. /\ num_free > 0 /\ idx = free_head /\ idx + 1 <= Len(rx_buffers)
        /\ idx \in Nat /\ Len(rx_buffers) \in Nat /\ num_free \in Nat
    BY RxFacts DEF IInv, PoolInv, TypeOK
  <2>2. 0 \in 0 .. num_free - 1 /\ FreeChain[0] = free_head
    BY <2>1 DEF IInv, QueueInv, ListInv, IsChain
  <2>3. free_head \in FreeList
    BY <2>2, ZoneElements
  <2>4. free_head \notin Busy
    BY <2>3 DEF IInv, QueueInv, ZonesInv
  <2> QED BY <2>1, <2>4
<1> QED BY <1>1, <1>2, <1>3, <1>4, <1>5, <1>6, <1>7, <1>8

\* A buffer comes back without a frame.
LEMMA DeviceEmptyIInv ==
  ASSUME IInv, NEW d \in taken, DeviceEmpty(d)
  PROVE  IInv'
<1>0. /\ side = "rx" /\ side' = "rx" /\ Return(d, FALSE) /\ empty' = empty + 1
      /\ UNCHANGED <<side, pc, pages, idx, buf, tx_inflight, rx_buffers, long>>
      /\ UNCHANGED <<memory, got, wire>>
  BY DEF DeviceEmpty, txvars
<1>1. /\ QueueInv' /\ PcInv' /\ PoolInv' /\ TxInv' /\ Front' = Front
      /\ nRet' = nRet + 1 /\ num_free' = num_free
      /\ \A k \in 0 .. nRet - 1 : RetAt(k)' = RetAt(k)
      /\ \A k : k = nRet => RetAt(k)' = [id |-> d, frame |-> FALSE]
  BY <1>0, ReturnPool
<1>2. /\ num_free \in Nat /\ nRet \in Nat /\ empty \in Nat /\ Size \in Nat
      /\ Len(rx_buffers) \in Nat /\ Len(wire) \in Nat
      /\ IsFiniteSet(EmptyRet) /\ Cardinality(EmptyRet) \in Nat
  BY <1>0, RxFacts
<1>3. PICK n : n = nRet
  OBVIOUS
<1>4. n \in Nat /\ nRet' = n + 1 /\ ~RetAt(n)'.frame /\ \A k \in 0 .. n - 1 : RetAt(k)' = RetAt(k)
  <2>1. RetAt(n)' = [id |-> d, frame |-> FALSE]
    BY <1>1, <1>3
  <2>2. ~RetAt(n)'.frame
    BY <2>1
  <2> QED BY <1>1, <1>2, <1>3, <2>2
<1>5. TypeOK'
  BY <1>0, <1>1, <1>2 DEF IInv, TypeOK, QueueInv
<1>6. PostedInv'
  <2>1. EmptyRet' = EmptyRet \cup {n} /\ n \notin EmptyRet
    <3>1. \A k : k \in 0 .. nRet' - 1 <=> (k \in 0 .. n - 1 \/ k = n)
      BY <1>4
    <3>2. n \notin 0 .. n - 1
      BY <1>4
    <3> QED BY <1>3, <1>4, <3>1, <3>2 DEF EmptyRet
  <2>2. Cardinality(EmptyRet') = Cardinality(EmptyRet) + 1
    BY <1>2, <2>1, FS_AddElement
  <2>3. PICK m : m = (IF Len(rx_buffers) < Size THEN Len(rx_buffers) ELSE Size) - Front
    OBVIOUS
  <2>4. Size - num_free + empty - Cardinality(EmptyRet) = m
    BY <1>0, <2>3 DEF IInv, PostedInv
  <2>5. Size - num_free + (empty + 1) - (Cardinality(EmptyRet) + 1) = m
    BY <1>2, <2>4
  <2> QED BY <1>0, <1>1, <2>2, <2>3, <2>5 DEF PostedInv
<1>7. WireInv'
  <2>1. PICK p \in [0 .. n -> Nat] : WirePos(p)
    BY <1>0, <1>3 DEF IInv, WireInv
  <2>2. /\ p[0] = Front /\ p[n] = Len(wire)
        /\ \A j, k \in 0 .. n : j <= k => p[j] <= p[k]
        /\ \A k \in 0 .. n - 1 : p[k + 1] = p[k] + IF RetAt(k).frame THEN 1 ELSE 0
        /\ \A k \in 0 .. n - 1 :
             RetAt(k).frame => wire[p[k] + 1] = memory[rx_buffers[RetAt(k).id + 1]]
    BY <1>3, <2>1 DEF WirePos
  <2>3. PICK q : q = [k \in 0 .. n + 1 |-> IF k = n + 1 THEN Len(wire) ELSE p[k]]
    OBVIOUS
  <2>4. /\ q \in [0 .. n + 1 -> Nat] /\ q[n + 1] = Len(wire) /\ \A k \in 0 .. n : q[k] = p[k]
    BY <1>2, <1>4, <2>1, <2>3
  <2>5. q[0] = Front
    BY <1>4, <2>2, <2>4
  <2>6. ASSUME NEW j \in 0 .. n + 1, NEW k \in 0 .. n + 1, j <= k PROVE q[j] <= q[k]
    <3>1. n \in 0 .. n /\ (j \in 0 .. n \/ j = n + 1) /\ (k \in 0 .. n \/ k = n + 1)
      BY <1>4
    <3>2. CASE k \in 0 .. n
      <4>1. j \in 0 .. n
        BY <1>4, <2>6, <3>1, <3>2
      <4> QED BY <2>2, <2>4, <2>6, <3>2, <4>1
    <3>3. CASE k = n + 1 /\ j \in 0 .. n
      <4>1. j <= n /\ p[j] <= p[n]
        BY <1>4, <2>2, <3>1, <3>3
      <4> QED BY <2>2, <2>4, <3>3, <4>1
    <3>4. CASE k = n + 1 /\ j = n + 1
      BY <1>2, <2>4, <3>4
    <3> QED BY <3>1, <3>2, <3>3, <3>4
  <2>7. ASSUME NEW k \in 0 .. nRet' - 1
        PROVE  /\ q[k + 1] = q[k] + IF RetAt(k)'.frame THEN 1 ELSE 0
               /\ RetAt(k)'.frame => wire[q[k] + 1] = memory[rx_buffers[RetAt(k)'.id + 1]]
    <3>1. k \in 0 .. n - 1 \/ k = n
      BY <1>4
    <3>2. CASE k \in 0 .. n - 1
      <4>1. k \in 0 .. n /\ k + 1 \in 0 .. n
        BY <1>4, <3>2
      <4> QED BY <1>4, <2>2, <2>4, <3>2, <4>1
    <3>3. CASE k = n
      <4>1. n \in 0 .. n /\ n + 0 = n
        BY <1>4
      <4> QED BY <1>2, <1>4, <2>2, <2>4, <3>3, <4>1
    <3> QED BY <3>1, <3>2, <3>3
  <2>8. WirePos(q)'
    BY <1>0, <1>1, <1>4, <2>4, <2>5, <2>6, <2>7 DEF WirePos
  <2>9. Bounded'
    BY PositionsBounded, PTL
  <2>10. nRet' \in Nat
    BY <1>4
  <2> QED BY <1>0, <1>4, <2>4, <2>8, <2>9, <2>10 DEF IInv, WireInv, Bounded
<1> QED BY <1>1, <1>5, <1>6, <1>7 DEF IInv

\* A frame comes and is written to the buffer of descriptor d.
LEMMA DeviceFrameIInv ==
  ASSUME IInv, NEW d \in taken, NEW f \in Frame, DeviceFrame(d, f)
  PROVE  IInv'
<1>0. /\ side = "rx" /\ side' = "rx" /\ Return(d, TRUE) /\ empty' = empty
      /\ UNCHANGED <<side, pc, pages, idx, buf, tx_inflight, rx_buffers, long>>
      /\ got' = got /\ memory' = [memory EXCEPT ![addr[d]] = f] /\ wire' = Append(wire, f)
  BY DEF DeviceFrame, txvars
<1>1. /\ QueueInv' /\ PcInv' /\ PoolInv' /\ TxInv' /\ Front' = Front
      /\ d \in Busy /\ d \notin Returned /\ nRet' = nRet + 1 /\ num_free' = num_free
      /\ \A k \in 0 .. nRet - 1 : RetAt(k)' = RetAt(k)
      /\ \A k : k = nRet => RetAt(k)' = [id |-> d, frame |-> TRUE]
      /\ d + 1 \in 1 .. Len(rx_buffers) /\ addr[d] = rx_buffers[d + 1]
      /\ pc = "copy" => idx \notin Busy /\ idx + 1 \in 1 .. Len(rx_buffers)
  BY <1>0, ReturnPool
<1>2. /\ num_free \in Nat /\ nRet \in Nat /\ empty \in Nat /\ Size \in Nat
      /\ Len(rx_buffers) \in Nat /\ Len(wire) \in Nat
      /\ wire \in Seq(Frame) /\ memory \in [Buffer -> Frame]
      /\ \A i \in 1 .. Len(rx_buffers) : rx_buffers[i] \in Buffer
      /\ \A k \in 0 .. nRet - 1 : RetAt(k).id \in Returned /\ RetAt(k).id \in Busy
      /\ Busy \subseteq Desc /\ \A e \in Desc : e \in Nat
  BY <1>0, RxFacts
<1>3. PICK n : n = nRet
  OBVIOUS
<1>4. /\ n \in Nat /\ nRet' = n + 1 /\ RetAt(n)'.frame /\ RetAt(n)'.id = d
      /\ \A k \in 0 .. n - 1 : RetAt(k)' = RetAt(k)
  <2>1. RetAt(n)' = [id |-> d, frame |-> TRUE]
    BY <1>1, <1>3
  <2>2. RetAt(n)'.frame /\ RetAt(n)'.id = d
    BY <2>1
  <2> QED BY <1>1, <1>2, <1>3, <2>2
<1>5. PICK w : w = Len(wire)
  OBVIOUS
<1>6. /\ w \in Nat /\ wire' \in Seq(Frame) /\ Len(wire') = w + 1 /\ wire'[w + 1] = f
      /\ \A i \in 1 .. w : wire'[i] = wire[i]
  BY <1>0, <1>2, <1>5
<1>7. memory' \in [Buffer -> Frame] /\ memory'[rx_buffers[d + 1]] = f
  BY <1>0, <1>1, <1>2
<1>8. ASSUME NEW i \in 1 .. Len(rx_buffers), i # d + 1
      PROVE  memory'[rx_buffers[i]] = memory[rx_buffers[i]]
  <2>1. rx_buffers[i] # rx_buffers[d + 1]
    BY <1>0, <1>1, <1>8 DEF IInv, PoolInv
  <2> QED BY <1>0, <1>1, <1>2, <2>1
<1>9. TypeOK'
  BY <1>0, <1>1, <1>6, <1>7 DEF IInv, TypeOK, QueueInv
<1>10. PostedInv'
  <2>1. EmptyRet' = EmptyRet
    <3>1. \A k : k \in 0 .. nRet' - 1 <=> (k \in 0 .. n - 1 \/ k = n)
      BY <1>4
    <3> QED BY <1>3, <1>4, <3>1 DEF EmptyRet
  <2> QED BY <1>0, <1>1, <2>1 DEF IInv, PostedInv
<1>11. WireInv'
  <2>1. PICK p \in [0 .. n -> Nat] : WirePos(p)
    BY <1>0, <1>3 DEF IInv, WireInv
  <2>2. /\ p[0] = Front /\ p[n] = w
        /\ \A j, k \in 0 .. n : j <= k => p[j] <= p[k]
        /\ \A k \in 0 .. n - 1 : p[k + 1] = p[k] + IF RetAt(k).frame THEN 1 ELSE 0
        /\ \A k \in 0 .. n - 1 :
             RetAt(k).frame => wire[p[k] + 1] = memory[rx_buffers[RetAt(k).id + 1]]
    BY <1>3, <1>5, <2>1 DEF WirePos
  <2>3. PICK q : q = [k \in 0 .. n + 1 |-> IF k = n + 1 THEN w + 1 ELSE p[k]]
    OBVIOUS
  <2>4. /\ q \in [0 .. n + 1 -> Nat] /\ q[n + 1] = w + 1 /\ \A k \in 0 .. n : q[k] = p[k]
    BY <1>4, <1>6, <2>1, <2>3
  <2>5. q[0] = Front
    BY <1>4, <2>2, <2>4
  <2>6. ASSUME NEW j \in 0 .. n + 1, NEW k \in 0 .. n + 1, j <= k PROVE q[j] <= q[k]
    <3>1. n \in 0 .. n /\ (j \in 0 .. n \/ j = n + 1) /\ (k \in 0 .. n \/ k = n + 1)
      BY <1>4
    <3>2. CASE k \in 0 .. n
      <4>1. j \in 0 .. n
        BY <1>4, <2>6, <3>1, <3>2
      <4> QED BY <2>2, <2>4, <2>6, <3>2, <4>1
    <3>3. CASE k = n + 1 /\ j \in 0 .. n
      <4>1. j <= n /\ p[j] <= p[n] /\ p[j] \in Nat
        BY <1>4, <2>1, <2>2, <3>1, <3>3
      <4> QED BY <1>6, <2>2, <2>4, <3>3, <4>1
    <3>4. CASE k = n + 1 /\ j = n + 1
      BY <1>6, <2>4, <3>4
    <3> QED BY <3>1, <3>2, <3>3, <3>4
  <2>7. ASSUME NEW k \in 0 .. nRet' - 1
        PROVE  /\ q[k + 1] = q[k] + IF RetAt(k)'.frame THEN 1 ELSE 0
               /\ RetAt(k)'.frame => wire'[q[k] + 1] = memory'[rx_buffers[RetAt(k)'.id + 1]]
    <3>1. k \in 0 .. n - 1 \/ k = n
      BY <1>4
    <3>2. CASE k \in 0 .. n - 1
      <4>1. k \in 0 .. n /\ k + 1 \in 0 .. n /\ n \in 0 .. n /\ k + 1 <= n
        BY <1>4, <3>2
      <4>2. p[k + 1] <= w /\ p[k] \in Nat /\ p[k + 1] = p[k] + IF RetAt(k).frame THEN 1 ELSE 0
        BY <2>1, <2>2, <3>2, <4>1
      <4>3. RetAt(k).frame => p[k] + 1 \in 1 .. w
        BY <1>6, <4>2
      <4>4. PICK e : e = RetAt(k).id
        OBVIOUS
      <4>5. e \in Returned /\ e \in Busy /\ e # d /\ e \in Nat /\ d \in Nat
        BY <1>1, <1>2, <1>3, <3>2, <4>4
      <4>6. e + 1 \in 1 .. Len(rx_buffers) /\ e + 1 # d + 1
        <5>1. e + 1 <= Len(rx_buffers)
          BY <1>0, <4>5 DEF IInv, PoolInv
        <5> QED BY <1>2, <4>5, <5>1
      <4>7. memory'[rx_buffers[e + 1]] = memory[rx_buffers[e + 1]]
        BY <1>8, <4>6
      <4>8. RetAt(k)' = RetAt(k) /\ q[k] = p[k] /\ q[k + 1] = p[k + 1]
        BY <1>4, <2>4, <3>2, <4>1
      <4>9. RetAt(k).frame => wire'[p[k] + 1] = memory'[rx_buffers[e + 1]]
        BY <1>6, <2>2, <3>2, <4>3, <4>4, <4>7
      <4> QED BY <4>2, <4>4, <4>8, <4>9
    <3>3. CASE k = n
      <4>1. n \in 0 .. n
        BY <1>4
      <4> QED BY <1>4, <1>6, <1>7, <2>2, <2>4, <3>3, <4>1
    <3> QED BY <3>1, <3>2, <3>3
  <2>8. WirePos(q)'
    <3>1. q[0] = Front' /\ q[nRet'] = Len(wire')
      BY <1>1, <1>4, <1>6, <2>4, <2>5
    <3>2. \A j, k \in 0 .. nRet' : j <= k => q[j] <= q[k]
      BY <1>4, <2>6
    <3> QED BY <1>0, <2>7, <3>1, <3>2 DEF WirePos
  <2>9. pc = "copy" /\ long => wire'[1] = memory'[rx_buffers[idx + 1]]
    <3> SUFFICES ASSUME pc = "copy", long PROVE wire'[1] = memory'[rx_buffers[idx + 1]]
      OBVIOUS
    <3>1. wire[1] = memory[rx_buffers[idx + 1]]
      BY <1>0 DEF IInv, WireInv
    <3>2. idx + 1 \in 1 .. Len(rx_buffers) /\ idx # d /\ idx \in Nat /\ d \in Nat
      BY <1>1, <1>2 DEF IInv, TypeOK
    <3>3. memory'[rx_buffers[idx + 1]] = memory[rx_buffers[idx + 1]]
      <4>1. idx + 1 # d + 1
        BY <3>2
      <4> QED BY <1>8, <3>2, <4>1
    <3>4. 1 \in 1 .. w
      <4>1. 0 \in 0 .. n /\ n \in 0 .. n /\ 0 <= n
        BY <1>4
      <4>2. p[0] = 1 /\ p[0] <= p[n]
        BY <2>2, <4>1 DEF Front
      <4> QED BY <1>6, <2>2, <4>2
    <3> QED BY <1>6, <3>1, <3>3, <3>4
  <2>10. Bounded'
    BY PositionsBounded, PTL
  <2>11. nRet' \in Nat
    BY <1>4
  <2> QED BY <1>0, <1>4, <2>4, <2>8, <2>9, <2>10, <2>11 DEF WireInv, Bounded
<1> QED BY <1>1, <1>9, <1>10, <1>11 DEF IInv

-----------------------------------------------------------------------------
(* The invariant and what it implies.                                      *)

\* Virtqueue::new() and the start of the driver.
LEMMA InitIInv == Init => IInv
<1> SUFFICES ASSUME Init PROVE IInv
  OBVIOUS
<1>0. Size \in Nat \ {0} /\ 0 \in Desc /\ 0 \in Idx
  BY DEF Desc, Idx
<1>1. /\ next = [d \in Desc |-> IF d + 1 < Size THEN d + 1 ELSE 0]
      /\ addr = [d \in Desc |-> NoBuffer] /\ free_head = 0 /\ num_free = Size
      /\ avail = [p \in Desc |-> 0] /\ avail_idx = 0 /\ used_idx = 0
      /\ used = [p \in Desc |-> [id |-> 0, frame |-> FALSE]]
      /\ last_used_idx = 0 /\ dev_idx = 0 /\ taken = {}
  BY DEF Init, QueueInit
<1>2. nOff = 0 /\ nRet = 0
  BY <1>0, <1>1, AheadFacts DEF nOff, nRet
<1>3. Busy = {} /\ Offered = {} /\ Returned = {}
  BY <1>1, <1>2, ZoneElements DEF Busy
<1>4. FreeChain = [k \in 0 .. num_free - 1 |-> k]
  <2> DEFINE c == [k \in 0 .. num_free - 1 |-> k]
  <2>1. c \in [0 .. num_free - 1 -> Desc] /\ num_free \in Nat
    BY <1>0, <1>1 DEF Desc
  <2>2. IsChain(c)
    <3>1. c[0] = free_head
      BY <1>0, <1>1
    <3>2. ASSUME NEW k \in 1 .. num_free - 1 PROVE c[k] = next[c[k - 1]]
      <4>1. /\ k - 1 \in 0 .. num_free - 1 /\ k \in 0 .. num_free - 1
            /\ k - 1 \in Desc /\ (k - 1) + 1 = k /\ k < Size
        BY <1>0, <1>1 DEF Desc
      <4> QED BY <1>1, <4>1
    <3> HIDE DEF c
    <3> QED BY <3>1, <3>2 DEF IsChain
  <2> HIDE DEF c
  <2>3. FreeChain = c
    BY <2>1, <2>2, ChainIs DEF OneChain
  <2> QED BY <2>3 DEF c
<1>5. FreeList = Desc
  BY <1>0, <1>1, <1>4 DEF FreeList, Desc
<1>6. QueueTypeOK
  BY <1>0, <1>1 DEF QueueTypeOK, Desc
<1>7. ListInv
  <2>1. FreeChain \in [0 .. num_free - 1 -> Desc]
    BY <1>0, <1>1, <1>4 DEF Desc
  <2>2. IsChain(FreeChain)
    BY <1>0, <1>1, <1>4 DEF IsChain, Desc
  <2>3. \A j, k \in 0 .. num_free - 1 : FreeChain[j] = FreeChain[k] => j = k
    BY <1>4
  <2> QED BY <2>1, <2>2, <2>3 DEF ListInv
<1>8. RingsInv
  BY <1>2 DEF RingsInv
<1>9. ZonesInv
  <2>1. Cardinality(taken) = 0
    BY <1>1, FS_EmptySet
  <2> QED BY <1>0, <1>1, <1>2, <1>3, <1>5, <2>1 DEF ZonesInv
<1>10. QueueInv
  BY <1>6, <1>7, <1>8, <1>9 DEF QueueInv
<1>11. /\ side \in {"tx", "rx"} /\ pc = (IF side = "tx" THEN "idle" ELSE "fill") /\ pages = Buffer
       /\ idx = 0 /\ buf = NoBuffer /\ tx_inflight = [d \in Desc |-> NoBuffer]
       /\ rx_buffers = <<>> /\ long = FALSE /\ wire = <<>> /\ empty = 0
       /\ memory \in [Buffer -> Frame] /\ got \in Frame
  BY DEF Init
<1>12. Len(rx_buffers) = 0 /\ Len(wire) = 0 /\ rx_buffers \in Seq(Buffer) /\ wire \in Seq(Frame)
  BY <1>11
<1>13. TypeOK
  <2>1. long \in BOOLEAN
    BY <1>11, Zenon
  <2>2. pc \in {"idle", "reclaim", "track", "fill", "copy"} /\ Len(rx_buffers) <= PoolSize
    BY <1>11, <1>12
  <2>3. pages \subseteq Buffer /\ idx \in Desc /\ buf \in Buffer \cup {NoBuffer}
        /\ tx_inflight \in [Desc -> Buffer \cup {NoBuffer}] /\ empty \in Nat
    BY <1>0, <1>11
  <2> QED BY <1>6, <1>11, <1>12, <2>1, <2>2, <2>3 DEF TypeOK
<1>14. PcInv
  BY <1>11 DEF PcInv
<1>15. TxInv
  BY <1>3, <1>11 DEF TxInv
<1>16. PoolInv
  BY <1>0, <1>1, <1>2, <1>3, <1>4, <1>11, <1>12 DEF PoolInv
<1>17. Front = 0
  BY <1>11 DEF Front
<1>18. PostedInv
  <2>1. EmptyRet = {}
    BY <1>2 DEF EmptyRet
  <2>2. Cardinality(EmptyRet) = 0
    BY <2>1, FS_EmptySet
  <2> QED BY <1>0, <1>1, <1>11, <1>12, <1>17, <2>2 DEF PostedInv
<1>19. WireInv
  <2> DEFINE p == [k \in 0 .. 0 |-> 0]
  <2>1. p \in [0 .. nRet -> Nat] /\ p[0] = 0 /\ \A j, k \in 0 .. 0 : p[j] <= p[k]
    BY <1>2
  <2> HIDE DEF p
  <2>2. WirePos(p)
    BY <1>2, <1>12, <1>17, <2>1 DEF WirePos
  <2> QED BY <1>2, <1>11, <2>1, <2>2, PositionsBounded DEF WireInv, Bounded
<1> QED BY <1>10, <1>13, <1>14, <1>15, <1>16, <1>18, <1>19 DEF IInv

\* A step that changes nothing.
LEMMA StutterIInv ==
  ASSUME IInv, UNCHANGED vars
  PROVE  IInv'
<1>0. /\ UNCHANGED queue /\ addr' = addr /\ num_free' = num_free /\ free_head' = free_head
      /\ taken' = taken
      /\ UNCHANGED <<side, pc, pages, idx, buf, tx_inflight, rx_buffers, long, memory, got, wire, empty>>
  BY DEF vars, queue, free_list, txvars, rxvars
<1>1. /\ QueueInv' /\ Busy' = Busy /\ nRet' = nRet /\ FreeChain' = FreeChain
      /\ \A k \in Nat : RetAt(k)' = RetAt(k)
  BY <1>0, SameQueue DEF IInv
<1>2. nRet \in Nat
  BY QueueNumbers DEF IInv
<1>3. TypeOK'
  BY <1>0, <1>1 DEF IInv, TypeOK, QueueInv
<1>4. PcInv'
  BY <1>0, <1>1 DEF IInv, PcInv
<1>5. TxInv'
  BY <1>0, <1>1 DEF IInv, TxInv, Kept
<1>6. PoolInv'
  BY <1>0, <1>1 DEF IInv, PoolInv
<1>7. Front' = Front
  BY <1>0 DEF Front
<1>8. EmptyRet' = EmptyRet
  BY <1>1, <1>2, SameEmptyRet
<1>9. PostedInv'
  BY <1>0, <1>7, <1>8 DEF IInv, PostedInv
<1>10. WireInv'
  <2>1. \A k \in 0 .. nRet - 1 : RetAt(k)' = RetAt(k)
    BY <1>1, <1>2
  <2>2. \A p : WirePos(p) => WirePos(p)'
    BY <1>0, <1>1, <1>7, <2>1 DEF WirePos
  <2> QED BY <1>0, <1>1, <2>2 DEF IInv, WireInv
<1> QED BY <1>1, <1>3, <1>4, <1>5, <1>6, <1>9, <1>10 DEF IInv

\* Every step of the driver and of the device keeps the invariant.
LEMMA NextIInv == IInv /\ [Next]_vars => IInv'
<1> SUFFICES ASSUME IInv, [Next]_vars PROVE IInv'
  OBVIOUS
<1>1. CASE TransmitCall \/ TransmitError
  BY <1>1, TransmitPcIInv
<1>2. CASE ReclaimOne
  BY <1>2, ReclaimOneIInv
<1>3. CASE TransmitOffer
  BY <1>3, TransmitOfferIInv
<1>4. CASE TransmitTrack
  BY <1>4, TransmitTrackIInv
<1>5. CASE FillRxPool
  BY <1>5, FillRxPoolIInv
<1>6. CASE ReceivePoll
  BY <1>6, ReceivePollIInv
<1>7. CASE ReceiveCopy
  BY <1>7, ReceiveCopyIInv
<1>8. CASE ReceiveNothing
  BY <1>8, ReceiveNothingIInv
<1>9. CASE DeviceTake
  BY <1>9, DeviceTakeIInv
<1>10. CASE \E d \in taken : DeviceSent(d)
  BY <1>10, DeviceSentIInv
<1>11. CASE \E d \in taken : DeviceEmpty(d)
  BY <1>11, DeviceEmptyIInv
<1>12. CASE \E d \in taken, f \in Frame : DeviceFrame(d, f)
  BY <1>12, DeviceFrameIInv
<1>13. CASE UNCHANGED vars
  BY <1>13, StutterIInv
<1> QED BY <1>1, <1>2, <1>3, <1>4, <1>5, <1>6, <1>7, <1>8, <1>9, <1>10, <1>11, <1>12, <1>13 DEF Next

\* The invariant of the two queues and of the driver's records of them holds
\* after every step of transmit(), receive() and the device.
THEOREM Invariance == Spec => []IInv
  BY InitIInv, NextIInv, PTL DEF Spec

\* add_buf() and poll_used() lose no descriptor and offer none twice: each is
\* on the free list, in the available ring, with the device or in the used
\* ring, for every size of the queue, also when the ring indexes wrap.
THEOREM DescriptorsNeverLost == Spec => []DescriptorsAccounted
<1>1. IInv => DescriptorsAccounted
  BY QueueInvAccounts DEF IInv
<1> QED BY <1>1, Invariance, PTL

\* What FrameOwned, BuffersAccounted and BufferMatchesDescriptor say follows.
LEMMA IInvBuffers == IInv => BuffersConsistent
<1> SUFFICES ASSUME IInv PROVE BuffersConsistent
  OBVIOUS
<1>1. TypeOK
  BY DEF IInv
<1>2. FreeList = Desc \ Busy /\ Busy \subseteq Desc
  BY QueueNumbers DEF IInv, QueueInv, ZonesInv
<1>3. FrameOwned
  BY DEF FrameOwned, IInv, TxInv, Kept, Busy
<1>4. BuffersAccounted
  <2> SUFFICES ASSUME side = "tx", NEW b \in Buffer
               PROVE  Cardinality({d \in Desc \ FreeList : tx_inflight[d] = b})
                        + (IF b \in pages THEN 1 ELSE 0) + (IF b = buf THEN 1 ELSE 0) = 1
    BY DEF BuffersAccounted
  <2>1. PICK H : H = {d \in Desc \ FreeList : tx_inflight[d] = b}
    OBVIOUS
  <2>2. \A d : d \in H <=> d \in Busy /\ tx_inflight[d] = b
    BY <1>2, <2>1
  <2>3. /\ \A d \in Busy : addr[d] = Kept(d) /\ addr[d] \in Buffer /\ addr[d] \notin pages
        /\ \A d, e \in Busy : addr[d] = addr[e] => d = e
        /\ \A x \in Buffer \ pages : \E d \in Busy : addr[d] = x
        /\ pc # "track" => buf = NoBuffer
        /\ pc = "track" => idx \in Busy /\ tx_inflight[idx] = NoBuffer
    BY DEF IInv, TxInv, PcInv
  <2>4. NoBuffer \notin Buffer
    OBVIOUS
  <2>5. CASE b \in pages
    <3>1. H = {}
      BY <2>2, <2>3, <2>4, <2>5 DEF Kept
    <3>2. b # buf
      BY <2>3, <2>4, <2>5 DEF Kept
    <3>3. Cardinality(H) = 0
      BY <3>1, FS_EmptySet
    <3> QED BY <2>1, <2>5, <3>2, <3>3
  <2>6. CASE b \notin pages
    <3>1. PICK d \in Busy : addr[d] = b
      BY <2>3, <2>6
    <3>2. CASE b = buf
      <4>1. pc = "track" /\ addr[idx] = b /\ d = idx
        BY <2>3, <2>4, <3>1, <3>2 DEF Kept
      <4>2. H = {}
        BY <2>2, <2>3, <2>4, <4>1 DEF Kept
      <4>3. Cardinality(H) = 0
        BY <4>2, FS_EmptySet
      <4> QED BY <2>1, <2>6, <3>2, <4>3
    <3>3. CASE b # buf
      <4>1. tx_inflight[d] = b
        BY <2>3, <3>1, <3>3 DEF Kept
      <4>2. \A e \in H : e = d
        BY <2>2, <2>3, <2>4, <3>1, <3>3 DEF Kept
      <4>3. H = {d}
        BY <2>2, <3>1, <4>1, <4>2
      <4>4. Cardinality(H) = 1
        BY <4>3, FS_Singleton
      <4> QED BY <2>1, <2>6, <3>3, <4>4
    <3> QED BY <3>2, <3>3
  <2> QED BY <2>5, <2>6
<1>5. BufferMatchesDescriptor
  BY DEF BufferMatchesDescriptor, IInv, PoolInv, Busy
<1> QED BY <1>1, <1>3, <1>4, <1>5 DEF BuffersConsistent

\* transmit() keeps the buffer of every frame that the device may read, under
\* the frame's descriptor, and loses none; receive() reads the buffer that
\* the device wrote for the descriptor.
THEOREM BuffersStayConsistent == Spec => []BuffersConsistent
  BY Invariance, IInvBuffers, PTL

\* receive() posts every buffer again from which it took a frame: the number
\* of posted buffers falls only by those that came back without one.
THEOREM PoolNeverShrinks == Spec => []PoolStaysPosted
<1>1. IInv => PoolStaysPosted
  <2> SUFFICES ASSUME IInv, side = "rx", pc = "idle"
               PROVE  Size - num_free + empty - Cardinality(EmptyRet)
                        = IF PoolSize < Size THEN PoolSize ELSE Size
    BY DEF PoolStaysPosted, EmptyRet, nRet, RetAt
  <2>1. Front = 0
    BY DEF Front
  <2>2. Len(rx_buffers) = PoolSize
    <3>1. Len(rx_buffers) \in Nat /\ ~(Len(rx_buffers) < PoolSize) /\ Len(rx_buffers) <= PoolSize
      BY RxFacts DEF IInv, PoolInv, TypeOK
    <3> QED BY <3>1
  <2>3. Size - num_free + empty - Cardinality(EmptyRet)
          = (IF PoolSize < Size THEN PoolSize ELSE Size) - 0
    BY <2>1, <2>2 DEF IInv, PostedInv
  <2> QED BY <2>3
<1> QED BY <1>1, Invariance, PTL

\* receive() returns the oldest frame that it has not returned yet, although
\* the device returns the descriptors in any order and writes on meanwhile.
THEOREM ReceivedInOrder == Spec => FramesInOrder
<1>1. IInv /\ [Next]_vars =>
        [pc = "copy" /\ pc' = "idle" /\ long => got' = Head(wire) /\ wire' = Tail(wire)]_vars
  <2> SUFFICES ASSUME IInv, Next, pc = "copy", pc' = "idle", long
               PROVE  got' = Head(wire) /\ wire' = Tail(wire)
    OBVIOUS
  <2>1. ReceiveCopy \/ ReceiveNothing
    BY DEF Next, TransmitCall, ReclaimOne, TransmitError, TransmitOffer, TransmitTrack,
           FillRxPool, ReceivePoll, DeviceTake, DeviceSent, DeviceEmpty, DeviceFrame
  <2> QED BY <2>1, ReceiveCopyIInv, ReceiveNothingIInv
<1> QED BY <1>1, Invariance, PTL DEF Spec, FramesInOrder
=============================================================================
