---------------------------- MODULE VfsIoProofs -----------------------------
(***************************************************************************)
(* The VFS proved for every size of blocks, files, commands and devices    *)
(* and every number of connections: its reads, writes and truncations are  *)
(* those of a file of bytes (VfsIo implements ByteFile), and its locks are *)
(* readers-writer locks (ShmLocks).                                        *)
(***************************************************************************)
EXTENDS VfsIo, ShmLocks, SequenceTheorems, FiniteSetTheorems, WellFoundedInduction, TLAPS

USE VfsIoAssumption

-----------------------------------------------------------------------------
(* Arithmetic.                                                             *)

LEMMA DivMod ==
  ASSUME NEW a \in Int, NEW n \in Nat \ {0}
  PROVE  /\ a \div n \in Int /\ a % n \in 0 .. n - 1
         /\ a = n * (a \div n) + (a % n)
  BY Z3T(30)

\* Multiplication by a positive number keeps the order.
LEMMA TimesOrder ==
  ASSUME NEW n \in Nat \ {0}, NEW a \in Int, NEW b \in Int, a < b
  PROVE  n * a + n <= n * b /\ n * a \in Int /\ n * b \in Int
<1>1. n * (a + 1) <= n * b
  BY Z3T(30)
<1>2. n * (a + 1) = n * a + n
  BY Z3T(30)
<1> QED BY <1>1, <1>2

\* Quotient and remainder are the only ones.
LEMMA DivModUnique ==
  ASSUME NEW a \in Int, NEW n \in Nat \ {0}, NEW q \in Int, NEW r \in 0 .. n - 1,
         a = n * q + r
  PROVE  a \div n = q /\ a % n = r
<1> DEFINE p == a \div n
           s == a % n
<1>1. p \in Int /\ s \in 0 .. n - 1 /\ a = n * p + s
  BY DivMod
<1> HIDE DEF p, s
<1>2. n * p \in Int /\ n * q \in Int
  BY <1>1
<1>3. ~(p < q)
  BY <1>1, <1>2, TimesOrder
<1>4. ~(q < p)
  BY <1>1, <1>2, TimesOrder
<1>5. p = q
  BY <1>1, <1>3, <1>4
<1>6. s = r
  <2>1. n * p = n * q
    BY <1>5
  <2> QED BY <1>1, <1>2, <2>1
<1> QED BY <1>5, <1>6 DEF p, s

\* Byte p of a file: its block and its place in it.
Q(p) == p \div BlockSize
R(p) == p % BlockSize

LEMMA Split ==
  ASSUME NEW p \in Nat
  PROVE  Q(p) \in Nat /\ R(p) \in 0 .. BlockSize - 1 /\ p = BlockSize * Q(p) + R(p)
<1>1. Q(p) \in Int /\ R(p) \in 0 .. BlockSize - 1 /\ p = BlockSize * Q(p) + R(p)
  BY DivMod DEF Q, R
<1>2. ~(Q(p) < 0)
  <2> SUFFICES ASSUME Q(p) < 0 PROVE FALSE
    OBVIOUS
  <2>1. BlockSize * Q(p) + BlockSize <= BlockSize * 0 /\ BlockSize * Q(p) \in Int
    BY <1>1, TimesOrder
  <2> QED BY <1>1, <2>1
<1> QED BY <1>1, <1>2

\* The other way round.
LEMMA Joined ==
  ASSUME NEW q \in Int, NEW r \in 0 .. BlockSize - 1, NEW p \in Int, p = BlockSize * q + r
  PROVE  Q(p) = q /\ R(p) = r
  BY DivModUnique DEF Q, R

\* Later bytes are in later blocks, and n blocks have the bytes below n times
\* their size.
LEMMA SplitOrder ==
  ASSUME NEW p \in Nat
  PROVE  /\ \A o \in Nat : o <= p => Q(o) <= Q(p)
         /\ \A n \in Nat : p < n * BlockSize <=> Q(p) < n
<1>0. Q(p) \in Nat /\ R(p) \in 0 .. BlockSize - 1 /\ p = BlockSize * Q(p) + R(p)
  BY Split
<1>1. ASSUME NEW o \in Nat, o <= p PROVE Q(o) <= Q(p)
  <2>1. Q(o) \in Nat /\ R(o) \in 0 .. BlockSize - 1 /\ o = BlockSize * Q(o) + R(o)
    BY Split
  <2>2. ASSUME Q(p) < Q(o) PROVE FALSE
    <3>1. BlockSize * Q(p) + BlockSize <= BlockSize * Q(o)
          /\ BlockSize * Q(p) \in Int /\ BlockSize * Q(o) \in Int
      BY <1>0, <2>1, <2>2, TimesOrder
    <3> QED BY <1>0, <1>1, <2>1, <3>1
  <2> QED BY <1>0, <2>1, <2>2
<1>2. ASSUME NEW n \in Nat PROVE p < n * BlockSize <=> Q(p) < n
  <2>0. n * BlockSize = BlockSize * n /\ BlockSize * n \in Int /\ BlockSize * Q(p) \in Int
    BY <1>0
  <2>1. ASSUME Q(p) < n PROVE p < n * BlockSize
    <3>1. BlockSize * Q(p) + BlockSize <= BlockSize * n
      BY <1>0, <2>1, TimesOrder
    <3> QED BY <1>0, <2>0, <3>1
  <2>2. ASSUME p < n * BlockSize, n < Q(p) PROVE FALSE
    <3>1. BlockSize * n + BlockSize <= BlockSize * Q(p)
      BY <1>0, <2>2, TimesOrder
    <3> QED BY <1>0, <2>0, <2>2, <3>1
  <2>3. ASSUME p < n * BlockSize, n = Q(p) PROVE FALSE
    BY <1>0, <2>0, <2>3
  <2> QED BY <1>0, <2>1, <2>2, <2>3
<1> QED BY <1>1, <1>2

\* Byte j of what a transfer from the block of o on moves.
LEMMA SplitFrom ==
  ASSUME NEW o \in Nat, NEW j \in Nat
  PROVE  Q(o) + Q(R(o) + j) = Q(o + j) /\ R(R(o) + j) = R(o + j)
<1>0. Q(o) \in Nat /\ R(o) \in 0 .. BlockSize - 1 /\ o = BlockSize * Q(o) + R(o)
  BY Split
<1>1. R(o) + j \in Nat
  BY <1>0
<1> DEFINE q == Q(R(o) + j)
           r == R(R(o) + j)
<1>2. q \in Nat /\ r \in 0 .. BlockSize - 1 /\ R(o) + j = BlockSize * q + r
  BY <1>1, Split
<1> HIDE DEF q, r
<1>3. BlockSize * (Q(o) + q) = BlockSize * Q(o) + BlockSize * q
  BY <1>0, <1>2
<1>4. BlockSize * Q(o) \in Int /\ BlockSize * q \in Int
  BY <1>0, <1>2
<1>5. o + j = BlockSize * (Q(o) + q) + r
  BY <1>0, <1>2, <1>3, <1>4
<1>6. Q(o) + q \in Int /\ o + j \in Int
  BY <1>0, <1>2
<1> QED BY <1>2, <1>5, <1>6, Joined DEF q, r

\* A transfer in commands moves each block to its own place.
LEMMA PlaceIs ==
  ASSUME NEW k \in Nat
  PROVE  Place(k) = k
<1>1. /\ k \div MaxBlocksPerIo \in Int /\ k % MaxBlocksPerIo \in Int
      /\ k = MaxBlocksPerIo * (k \div MaxBlocksPerIo) + (k % MaxBlocksPerIo)
  BY DivMod
<1>2. (k \div MaxBlocksPerIo) * MaxBlocksPerIo = MaxBlocksPerIo * (k \div MaxBlocksPerIo)
  BY <1>1
<1> QED BY <1>1, <1>2 DEF Place, CommandStart, Command

\* The commands that write n blocks are enough for all of them.
LEMMA CommandsEnough ==
  ASSUME NEW n \in Nat, NEW k \in 0 .. n - 1
  PROVE  Commands(n) \in Int /\ Command(k) < Commands(n)
<1> DEFINE m == MaxBlocksPerIo
           c == Commands(n)
           l == Command(k)
<1>1. /\ c \in Int /\ l \in Int
      /\ n + m - 1 = m * c + ((n + m - 1) % m) /\ (n + m - 1) % m \in 0 .. m - 1
      /\ k = m * l + (k % m) /\ k % m \in 0 .. m - 1
  <2>1. n + m - 1 \in Int /\ k \in Int /\ m \in Nat \ {0}
    OBVIOUS
  <2>2. c = (n + m - 1) \div m /\ l = k \div m
    BY DEF Commands, Command
  <2> HIDE DEF c, l, m
  <2>3. /\ (n + m - 1) \div m \in Int /\ (n + m - 1) % m \in 0 .. m - 1
        /\ n + m - 1 = m * ((n + m - 1) \div m) + ((n + m - 1) % m)
    BY <2>1, DivMod, Zenon
  <2>4. /\ k \div m \in Int /\ k % m \in 0 .. m - 1
        /\ k = m * (k \div m) + (k % m)
    BY <2>1, DivMod, Zenon
  <2> QED BY <2>2, <2>3, <2>4, Zenon
<1> HIDE DEF c, l
<1>2. ASSUME c < l PROVE FALSE
  <2>1. m * c + m <= m * l /\ m * c \in Int /\ m * l \in Int
    BY <1>1, <1>2, TimesOrder
  <2> QED BY <1>1, <2>1
<1>3. ASSUME c = l PROVE FALSE
  <2>1. m * c = m * l /\ m * c \in Int /\ m * l \in Int
    BY <1>1, <1>3
  <2> QED BY <1>1, <2>1
<1> QED BY <1>1, <1>2, <1>3 DEF c, l

-----------------------------------------------------------------------------
(* Transfers.                                                              *)

\* The lesser and the greater of two numbers.
LEMMA MinOfTwo ==
  ASSUME NEW a \in Int, NEW b \in Int
  PROVE  Min({a, b}) = IF a <= b THEN a ELSE b
<1>1. \E x \in {a, b} : \A y \in {a, b} : x <= y
  OBVIOUS
<1>2. Min({a, b}) \in {a, b} /\ Min({a, b}) <= a /\ Min({a, b}) <= b
  BY <1>1 DEF Min
<1> QED BY <1>2

LEMMA MaxOf ==
  ASSUME NEW a \in Int, NEW b \in Int
  PROVE  Max({a, b}) = IF a >= b THEN a ELSE b
<1>1. \E x \in {a, b} : \A y \in {a, b} : x >= y
  OBVIOUS
<1>2. Max({a, b}) \in {a, b} /\ Max({a, b}) >= a /\ Max({a, b}) >= b
  BY <1>1 DEF Max
<1> QED BY <1>2

\* A function on the first n naturals is a sequence.
LEMMA AsSeq ==
  ASSUME NEW S, NEW n \in Nat, NEW f \in [1 .. n -> S]
  PROVE  f \in Seq(S) /\ Len(f) = n /\ DOMAIN f = 1 .. n
  BY IsASeq

\* A piece of a sequence of bytes.
LEMMA PieceOf ==
  ASSUME NEW s, NEW a \in Int, NEW b \in Int, \A i \in a .. b : s[i] \in Byte
  PROVE  /\ SubSeq(s, a, b) \in Seq(Byte)
         /\ Len(SubSeq(s, a, b)) = IF a <= b THEN b - a + 1 ELSE 0
         /\ \A i \in 1 .. b - a + 1 : SubSeq(s, a, b)[i] = s[a + i - 1]
  BY SubSeqProperties

\* What a write is given.
LEMMA DataFacts ==
  ASSUME NEW n \in Amount, NEW data \in Data(n)
  PROVE  /\ data \in Seq(Byte) /\ Len(data) = n /\ DOMAIN data = 1 .. n
         /\ n \in Nat /\ n >= 1 /\ \A j \in 1 .. n : data[j] \in Byte
<1>1. PICK v \in {0, 1} : data = [j \in 1 .. n |-> 1 + ((v + j) % 3)]
  BY DEF Data
<1>2. n \in Nat /\ n >= 1
  BY DEF Amount
<1>3. ASSUME NEW j \in 1 .. n PROVE 1 + ((v + j) % 3) \in Byte
  <2>1. v + j \in Int
    BY <1>2
  <2>2. (v + j) % 3 \in 0 .. 3 - 1
    BY <2>1, DivMod
  <2> QED BY <2>2 DEF Byte
<1>4. data \in [1 .. n -> Byte]
  BY <1>1, <1>3
<1> QED BY <1>2, <1>4, AsSeq

Medium == [Block -> [1 .. BlockSize -> Byte]]
Handle == [start : Block, blocks : 0 .. DataBlocks, length : 0 .. MaxBytes]

\* Byte p of the file with handle h.
ByteAt(d, h, p) == d[h.start + Q(p)][R(p) + 1]

LEMMA ByteType ==
  ASSUME NEW d \in Medium, NEW b \in Block, NEW r \in 0 .. BlockSize - 1
  PROVE  d[b][r + 1] \in Byte
<1>1. d[b] \in [1 .. BlockSize -> Byte]
  BY DEF Medium
<1>2. r + 1 \in 1 .. BlockSize
  OBVIOUS
<1> QED BY <1>1, <1>2

\* The blocks that n bytes from o on reach.
LEMMA SpannedFacts ==
  ASSUME NEW o \in Nat, NEW n \in Nat, n >= 1
  PROVE  /\ FirstBlock(o) = Q(o) /\ Q(o) \in Nat
         /\ Q(o + n - 1) \in Nat /\ Q(o) <= Q(o + n - 1)
         /\ Spanned(o, n) = Q(o + n - 1) - Q(o) + 1
         /\ Spanned(o, n) \in Nat /\ Spanned(o, n) >= 1
<1>1. o + n - 1 \in Nat /\ o <= o + n - 1
  OBVIOUS
<1>2. Q(o) \in Nat /\ Q(o + n - 1) \in Nat /\ Q(o) <= Q(o + n - 1)
  BY <1>1, Split, SplitOrder
<1>3. FirstBlock(o) = Q(o) /\ LastBlock(o, n) = Q(o + n - 1)
  BY DEF FirstBlock, LastBlock, Q
<1> QED BY <1>2, <1>3 DEF Spanned

\* chunked_read() puts the blocks into the buffer one after the other.
LEMMA ReadInFacts ==
  ASSUME NEW d \in Medium, NEW lba \in Nat, NEW n \in Nat, lba + n <= DataBlocks
  PROVE  /\ ReadIn(d, lba, n) \in [1 .. n * BlockSize -> Byte]
         /\ n * BlockSize \in Nat
         /\ \A j \in Nat : j < n * BlockSize =>
              ReadIn(d, lba, n)[j + 1] = d[lba + Q(j)][R(j) + 1]
<1>0. n * BlockSize \in Nat
  OBVIOUS
<1>1. ASSUME NEW j \in Nat, j < n * BlockSize
      PROVE  /\ d[lba + Place(j \div BlockSize)][(j % BlockSize) + 1] = d[lba + Q(j)][R(j) + 1]
             /\ d[lba + Q(j)][R(j) + 1] \in Byte
  <2>1. Q(j) \in Nat /\ R(j) \in 0 .. BlockSize - 1 /\ Q(j) < n
    BY <1>1, Split, SplitOrder
  <2>2. Place(j \div BlockSize) = Q(j) /\ j % BlockSize = R(j)
    BY <2>1, PlaceIs DEF Q, R
  <2>3. lba + Q(j) \in Block
    BY <2>1 DEF Block
  <2> QED BY <2>1, <2>2, <2>3, ByteType
<1>2. ASSUME NEW i \in 1 .. n * BlockSize
      PROVE  d[lba + Place((i - 1) \div BlockSize)][((i - 1) % BlockSize) + 1] \in Byte
  <2>1. i - 1 \in Nat /\ i - 1 < n * BlockSize
    BY <1>0
  <2> QED BY <1>1, <2>1
<1>3. ReadIn(d, lba, n) \in [1 .. n * BlockSize -> Byte]
  BY <1>2 DEF ReadIn
<1>4. ASSUME NEW j \in Nat, j < n * BlockSize
      PROVE  ReadIn(d, lba, n)[j + 1] = d[lba + Q(j)][R(j) + 1]
  <2>1. j + 1 \in 1 .. n * BlockSize /\ (j + 1) - 1 = j
    BY <1>0, <1>4
  <2>2. ReadIn(d, lba, n)[j + 1]
          = d[lba + Place(((j + 1) - 1) \div BlockSize)][(((j + 1) - 1) % BlockSize) + 1]
    BY <2>1 DEF ReadIn
  <2> QED BY <1>1, <1>4, <2>1, <2>2
<1> QED BY <1>0, <1>3, <1>4

\* A write of whole blocks fills the blocks that it reaches.
LEMMA WholeBlocks ==
  ASSUME NEW o \in Nat, NEW n \in Nat, n >= 1, NeedsNoRead(o, n)
  PROVE  R(o) = 0 /\ Spanned(o, n) * BlockSize = n
<1>1. R(o) = 0 /\ o = BlockSize * Q(o) + R(o) /\ Q(o) \in Nat
  BY Split DEF NeedsNoRead, R
<1>2. R(n) = 0 /\ n = BlockSize * Q(n) + R(n) /\ Q(n) \in Nat
  BY Split DEF NeedsNoRead, R
<1>3. BlockSize * (Q(o) + Q(n) - 1) = BlockSize * Q(o) + BlockSize * Q(n) - BlockSize
  BY <1>1, <1>2, Z3T(30)
<1>4. BlockSize * Q(o) \in Int /\ BlockSize * Q(n) \in Int
  BY <1>1, <1>2
<1>5. o + n - 1 = BlockSize * (Q(o) + Q(n) - 1) + (BlockSize - 1)
  <2> DEFINE x == BlockSize * Q(o)
             y == BlockSize * Q(n)
             z == BlockSize * (Q(o) + Q(n) - 1)
  <2>1. x \in Int /\ y \in Int /\ z = x + y - BlockSize /\ o = x /\ n = y
    <3>1. o = x + 0 /\ n = y + 0
      BY <1>1, <1>2
    <3> QED BY <1>3, <1>4, <3>1
  <2> HIDE DEF x, y, z
  <2>2. o + n - 1 = z + (BlockSize - 1)
    BY <2>1
  <2> QED BY <2>2 DEF z
<1>6. Q(o + n - 1) = Q(o) + Q(n) - 1
  <2>1. Q(o) + Q(n) - 1 \in Int /\ BlockSize - 1 \in 0 .. BlockSize - 1 /\ o + n - 1 \in Int
    BY <1>1, <1>2
  <2> QED BY <1>5, <2>1, Joined
<1>7. Spanned(o, n) = Q(n)
  BY <1>1, <1>2, <1>6, SpannedFacts
<1> QED BY <1>1, <1>2, <1>7

\* The buffer that is written holds the data, and around it what the blocks
\* held before.
LEMMA BufferFacts ==
  ASSUME NEW d \in Medium, NEW lba \in Nat, NEW o \in Nat, NEW data \in Seq(Byte),
         Len(data) \in Nat, Len(data) >= 1, lba + Spanned(o, Len(data)) <= DataBlocks
  PROVE  /\ Buffer(d, lba, o, data) \in [1 .. Spanned(o, Len(data)) * BlockSize -> Byte]
         /\ \A j \in Nat : j < Spanned(o, Len(data)) * BlockSize =>
              Buffer(d, lba, o, data)[j + 1]
                = IF j - R(o) \in 0 .. Len(data) - 1 THEN data[j - R(o) + 1]
                  ELSE d[lba + Q(j)][R(j) + 1]
<1> DEFINE n == Spanned(o, Len(data))
           buf == Buffer(d, lba, o, data)
<1>1. n \in Nat /\ R(o) \in Int /\ R(o) = o % BlockSize /\ lba + n <= DataBlocks
  BY SpannedFacts, Split DEF R
<1> HIDE DEF n
<1>2. /\ ReadIn(d, lba, n) \in [1 .. n * BlockSize -> Byte] /\ n * BlockSize \in Nat
      /\ \A j \in Nat : j < n * BlockSize =>
           ReadIn(d, lba, n)[j + 1] = d[lba + Q(j)][R(j) + 1]
  BY <1>1, ReadInFacts
<1>3. DOMAIN data = 1 .. Len(data) /\ \A j \in 1 .. Len(data) : data[j] \in Byte
  BY ElementOfSeq, LenProperties
<1>4. CASE NeedsNoRead(o, Len(data))
  <2>1. R(o) = 0 /\ n * BlockSize = Len(data)
    BY <1>4, WholeBlocks DEF n
  <2>2. buf = [i \in 1 .. Len(data) |-> IF i - 0 \in DOMAIN data THEN data[i - 0] ELSE Zeros(n * BlockSize)[i]]
    BY <1>4, <2>1 DEF n, Buffer, Overlaid, Zeros
  <2>3. \A i \in 1 .. Len(data) : i - 0 = i
    OBVIOUS
  <2>4. buf = [i \in 1 .. Len(data) |-> data[i]]
    BY <1>3, <2>2, <2>3
  <2> HIDE DEF buf
  <2>5. buf \in [1 .. n * BlockSize -> Byte]
    BY <1>3, <2>1, <2>4
  <2>6. ASSUME NEW j \in Nat, j < n * BlockSize
        PROVE  j - R(o) \in 0 .. Len(data) - 1 /\ buf[j + 1] = data[j - R(o) + 1]
    <3>1. j + 1 \in 1 .. Len(data) /\ j - R(o) = j
      BY <2>1, <2>6
    <3> QED BY <2>1, <2>4, <3>1
  <2> QED BY <2>5, <2>6 DEF buf, n
<1>5. CASE ~NeedsNoRead(o, Len(data))
  <2>1. buf = [i \in 1 .. n * BlockSize |->
                 IF i - R(o) \in DOMAIN data THEN data[i - R(o)] ELSE ReadIn(d, lba, n)[i]]
    BY <1>1, <1>2, <1>5 DEF n, Buffer, Overlaid
  <2> HIDE DEF buf
  <2>2. buf \in [1 .. n * BlockSize -> Byte]
    BY <1>2, <1>3, <2>1
  <2>3. ASSUME NEW j \in Nat, j < n * BlockSize
        PROVE  buf[j + 1] = IF j - R(o) \in 0 .. Len(data) - 1 THEN data[j - R(o) + 1]
                            ELSE d[lba + Q(j)][R(j) + 1]
    <3>1. /\ j + 1 \in 1 .. n * BlockSize /\ (j + 1) - R(o) = j - R(o) + 1
          /\ j - R(o) + 1 \in 1 .. Len(data) <=> j - R(o) \in 0 .. Len(data) - 1
      <4> DEFINE m == n * BlockSize
                 r == R(o)
      <4>1. m \in Nat /\ r \in Int /\ j < m
        BY <1>1, <1>2, <2>3
      <4> HIDE DEF m, r
      <4>2. j + 1 \in 1 .. m /\ (j + 1) - r = j - r + 1
        BY <4>1
      <4>3. j - r + 1 \in 1 .. Len(data) <=> j - r \in 0 .. Len(data) - 1
        BY <4>1
      <4> QED BY <4>2, <4>3 DEF m, r
    <3>2. ReadIn(d, lba, n)[j + 1] = d[lba + Q(j)][R(j) + 1]
      BY <1>2, <2>3
    <3>3. buf[j + 1] = IF j - R(o) + 1 \in 1 .. Len(data) THEN data[j - R(o) + 1]
                       ELSE ReadIn(d, lba, n)[j + 1]
      BY <1>3, <2>1, <3>1
    <3> QED BY <3>1, <3>2, <3>3
  <2> QED BY <2>2, <2>3 DEF buf, n
<1> QED BY <1>4, <1>5

\* How the bytes of the file with handle h change when a write of the data at
\* o has got through `done' of its commands: a byte is the old one or the new
\* one, and the new one when all are done.  No other block changes.
Within(p, o, data) == p \in o .. o + Len(data) - 1

LEMMA WrittenFacts ==
  ASSUME NEW d \in Medium, NEW h \in Handle, NEW o \in Nat, NEW data \in Seq(Byte),
         Len(data) \in Nat, Len(data) >= 1, h.start + h.blocks <= DataBlocks,
         FirstBlock(o) + Spanned(o, Len(data)) <= h.blocks,
         NEW lba, lba = h.start + FirstBlock(o),
         NEW done \in Int,
         NEW e, e = WrittenOut(d, lba, Spanned(o, Len(data)), Buffer(d, lba, o, data), done)
  PROVE  /\ e \in Medium
         /\ \A b \in Block : b \notin Extent(h) => e[b] = d[b]
         /\ \A p \in Nat : p < h.blocks * BlockSize =>
              \/ /\ ByteAt(e, h, p) = ByteAt(d, h, p)
                 /\ done = Commands(Spanned(o, Len(data))) => ~Within(p, o, data)
              \/ Within(p, o, data) /\ ByteAt(e, h, p) = data[p - o + 1]
<1> DEFINE n == Spanned(o, Len(data))
           buf == Buffer(d, lba, o, data)
<1>0. h.start \in Block /\ h.blocks \in 0 .. DataBlocks
  BY DEF Handle
<1>a. PICK st \in Nat, bl \in Nat : st = h.start /\ bl = h.blocks /\ st + bl <= DataBlocks
  BY <1>0 DEF Block
<1>1. /\ FirstBlock(o) = Q(o) /\ Q(o) \in Nat /\ Q(o + Len(data) - 1) \in Nat
      /\ n = Q(o + Len(data) - 1) - Q(o) + 1 /\ n \in Nat /\ n >= 1
  BY SpannedFacts
<1> HIDE DEF n
<1>b. PICK q \in Nat : q = Q(o)
  BY <1>1
<1>2. n \in Nat /\ n >= 1 /\ lba \in Nat /\ lba = st + q /\ q + n <= bl /\ lba + n <= DataBlocks
  <2>1. lba = st + q /\ q + n <= bl /\ n \in Nat /\ n >= 1
    BY <1>a, <1>b, <1>1 DEF n
  <2>2. lba \in Nat
    BY <2>1
  <2>3. lba + n <= DataBlocks
    <3>1. st + bl <= DataBlocks
      BY <1>a
    <3> QED BY <2>1, <3>1
  <2> QED BY <2>1, <2>2, <2>3
<1>3. /\ buf \in [1 .. n * BlockSize -> Byte]
      /\ \A j \in Nat : j < n * BlockSize =>
           buf[j + 1] = IF j - R(o) \in 0 .. Len(data) - 1 THEN data[j - R(o) + 1]
                        ELSE d[lba + Q(j)][R(j) + 1]
  <2>1. lba + Spanned(o, Len(data)) <= DataBlocks
    BY <1>2 DEF n
  <2>2. lba \in Nat
    BY <1>2
  <2>3. /\ Buffer(d, lba, o, data) \in [1 .. Spanned(o, Len(data)) * BlockSize -> Byte]
        /\ \A j \in Nat : j < Spanned(o, Len(data)) * BlockSize =>
             Buffer(d, lba, o, data)[j + 1]
               = IF j - R(o) \in 0 .. Len(data) - 1 THEN data[j - R(o) + 1]
                 ELSE d[lba + Q(j)][R(j) + 1]
    BY <2>1, <2>2, BufferFacts
  <2> QED BY <2>3 DEF n
<1>4. e = [b \in Block |-> IF b \in Run(lba, n) /\ Command(b - lba) < done
                           THEN BlockOf(buf, Place(b - lba)) ELSE d[b]]
  BY DEF WrittenOut, n
<1> HIDE DEF buf
<1>5. n * BlockSize \in Nat /\ n * BlockSize = BlockSize * n
  BY <1>2
\* Byte r of the block k places after lba.
<1>6. ASSUME NEW k \in Nat, k < n
      PROVE  /\ BlockOf(buf, k) \in [1 .. BlockSize -> Byte]
             /\ \A r \in 0 .. BlockSize - 1 :
                  /\ k * BlockSize + r \in Nat /\ k * BlockSize + r < n * BlockSize
                  /\ BlockOf(buf, k)[r + 1] = buf[k * BlockSize + r + 1]
  <2> DEFINE x == k * BlockSize
             y == (k + 1) * BlockSize
             z == n * BlockSize
  <2>1. x \in Nat /\ y = x + BlockSize /\ y <= z /\ z \in Nat
    <3>1. BlockSize * k + BlockSize <= BlockSize * n /\ BlockSize * k \in Int
      BY <1>2, <1>6, TimesOrder
    <3>2. x = BlockSize * k /\ x \in Nat /\ (k + 1) * BlockSize = k * BlockSize + BlockSize
      BY Z3T(30)
    <3> QED BY <1>5, <3>1, <3>2
  <2>2. BlockOf(buf, k) = SubSeq(buf, x + 1, y) /\ buf \in [1 .. z -> Byte]
    BY <1>3 DEF BlockOf
  <2> HIDE DEF x, y, z
  <2>3. buf \in Seq(Byte) /\ Len(buf) = z /\ \A i \in 1 .. z : buf[i] \in Byte
    BY <2>1, <2>2, AsSeq
  <2>4. \A i \in x + 1 .. y : buf[i] \in Byte
    BY <2>1, <2>3
  <2>5. x + 1 \in Int /\ y \in Int
    BY <2>1
  <2>6. /\ SubSeq(buf, x + 1, y) \in Seq(Byte)
        /\ Len(SubSeq(buf, x + 1, y)) = IF x + 1 <= y THEN y - (x + 1) + 1 ELSE 0
        /\ \A i \in 1 .. y - (x + 1) + 1 : SubSeq(buf, x + 1, y)[i] = buf[(x + 1) + i - 1]
    BY <2>4, <2>5, PieceOf, SMTT(30)
  <2>7. y - (x + 1) + 1 = BlockSize /\ x + 1 <= y
    BY <2>1
  <2>8. Len(SubSeq(buf, x + 1, y)) = BlockSize
    BY <2>6, <2>7
  <2>9. SubSeq(buf, x + 1, y) \in [1 .. BlockSize -> Byte]
    BY <2>6, <2>8, LenProperties, ElementOfSeq
  <2>10. ASSUME NEW r \in 0 .. BlockSize - 1
         PROVE  x + r \in Nat /\ x + r < z /\ SubSeq(buf, x + 1, y)[r + 1] = buf[x + r + 1]
    <3>1. x + r \in Nat /\ x + r < z /\ r + 1 \in 1 .. BlockSize /\ (x + 1) + (r + 1) - 1 = x + r + 1
      BY <2>1
    <3>2. SubSeq(buf, x + 1, y)[r + 1] = buf[(x + 1) + (r + 1) - 1]
      BY <2>6, <2>7, <3>1
    <3> QED BY <3>1, <3>2
  <2>11. BlockOf(buf, k) \in [1 .. BlockSize -> Byte]
    BY <2>2, <2>9
  <2>12. ASSUME NEW r \in 0 .. BlockSize - 1
         PROVE  x + r \in Nat /\ x + r < z /\ BlockOf(buf, k)[r + 1] = buf[x + r + 1]
    <3>1. x + r \in Nat /\ x + r < z /\ SubSeq(buf, x + 1, y)[r + 1] = buf[x + r + 1]
      BY <2>10
    <3> QED BY <2>2, <3>1, Zenon
  <2> QED BY <2>11, <2>12 DEF x, z
<1>7. ASSUME NEW b \in Block, b \in Run(lba, n)
      PROVE  b - lba \in Nat /\ b - lba < n /\ Place(b - lba) = b - lba
  <2>1. b - lba \in Nat /\ b - lba < n
    BY <1>2, <1>7, SMTT(30) DEF Run, Block
  <2> QED BY <2>1, PlaceIs
<1>8. e \in Medium
  <2> SUFFICES ASSUME NEW b \in Block
               PROVE  (IF b \in Run(lba, n) /\ Command(b - lba) < done
                       THEN BlockOf(buf, Place(b - lba)) ELSE d[b]) \in [1 .. BlockSize -> Byte]
    BY <1>4 DEF Medium
  <2>1. d[b] \in [1 .. BlockSize -> Byte]
    BY DEF Medium
  <2>2. CASE b \in Run(lba, n) /\ Command(b - lba) < done
    <3>1. b - lba \in Nat /\ b - lba < n /\ Place(b - lba) = b - lba
      BY <1>7, <2>2
    <3> QED BY <1>6, <2>2, <3>1
  <2> QED BY <2>1, <2>2
<1>9. ASSUME NEW b \in Block, b \notin Extent(h) PROVE e[b] = d[b]
  <2>1. b \notin Run(lba, n)
    <3>1. b \notin st .. st + bl - 1
      BY <1>9, <1>a DEF Extent, Run
    <3>2. b \in Int /\ (b < st \/ b > st + bl - 1)
      BY <3>1 DEF Block
    <3>3. ~(lba <= b /\ b <= lba + n - 1)
      BY <1>2, <3>2
    <3> QED BY <1>2, <3>2, <3>3 DEF Run
  <2> QED BY <1>4, <2>1
<1>10. ASSUME NEW p \in Nat, p < h.blocks * BlockSize
       PROVE  \/ /\ ByteAt(e, h, p) = ByteAt(d, h, p)
                 /\ done = Commands(n) => ~Within(p, o, data)
              \/ Within(p, o, data) /\ ByteAt(e, h, p) = data[p - o + 1]
  <2>1. Q(p) \in Nat /\ R(p) \in 0 .. BlockSize - 1 /\ p = BlockSize * Q(p) + R(p)
        /\ Q(p) < bl
    BY <1>a, <1>10, Split, SplitOrder
  <2>a. PICK b \in Int : b = h.start + Q(p)
    BY <1>a, <2>1
  <2>b. PICK w \in Nat : w = Q(p)
    BY <2>1
  <2>c. b = st + w /\ w < bl
    BY <1>a, <2>1, <2>a, <2>b
  <2>2. b \in Block
    BY <1>a, <2>c, SMTT(30) DEF Block
  <2> DEFINE k == b - lba
  <2>3. k = w - q /\ k \in Int /\ lba + k = b
    BY <1>2, <2>c, SMTT(30)
  <2>4. b \in Run(lba, n) <=> 0 <= k /\ k < n
    BY <1>2 DEF Run
  \* A byte of the data lies in one of the blocks.
  <2>5. ASSUME Within(p, o, data) PROVE b \in Run(lba, n)
    <3>1. o <= p /\ p <= o + Len(data) - 1 /\ o + Len(data) - 1 \in Nat
      BY <2>5 DEF Within
    <3>2. Q(o) <= Q(p) /\ Q(p) <= Q(o + Len(data) - 1)
      BY <3>1, SplitOrder
    <3>3. PICK l \in Nat : l = Q(o + Len(data) - 1) /\ n = l - q + 1 /\ q <= w /\ w <= l
      BY <1>1, <1>b, <2>b, <3>2 DEF n
    <3>4. n \in Int /\ k \in Int /\ k = w - q
      BY <1>2, <2>3
    <3> HIDE DEF n, k
    <3>5. 0 <= k /\ k < n
      BY <3>3, <3>4
    <3> QED BY <2>4, <3>5
  <2>6. CASE b \in Run(lba, n) /\ Command(b - lba) < done
    <3>1. k \in Nat /\ k < n /\ Place(k) = k
      BY <1>7, <2>2, <2>6
    <3>2. e[b] = BlockOf(buf, k)
      BY <1>4, <2>2, <2>6, <3>1
    <3> DEFINE j == k * BlockSize + R(p)
    <3>3. j \in Nat /\ j < n * BlockSize /\ BlockOf(buf, k)[R(p) + 1] = buf[j + 1]
      BY <1>6, <2>1, <3>1
    \* Where it is in the buffer.
    <3>4. j - R(o) = p - o /\ Q(j) = k /\ R(j) = R(p)
      <4>1. R(o) \in 0 .. BlockSize - 1 /\ o = BlockSize * Q(o) + R(o)
        BY Split
      <4>2. k * BlockSize = BlockSize * Q(p) - BlockSize * Q(o) /\ BlockSize * Q(p) \in Int
            /\ BlockSize * Q(o) \in Int /\ k * BlockSize = BlockSize * k
        <5>1. k * BlockSize = BlockSize * w - BlockSize * q /\ BlockSize * w \in Int
              /\ BlockSize * q \in Int /\ k * BlockSize = BlockSize * k
          BY <2>3, Z3T(30)
        <5> QED BY <1>b, <2>b, <5>1
      <4>3. j - R(o) = p - o
        <5> DEFINE x == BlockSize * Q(p)
                   y == BlockSize * Q(o)
                   z == k * BlockSize
        <5>1. x \in Int /\ y \in Int /\ z = x - y /\ p = x + R(p) /\ o = y + R(o) /\ j = z + R(p)
          BY <2>1, <4>1, <4>2
        <5> HIDE DEF x, y, z, j
        <5>2. PICK f \in Int, g \in Int : f = R(p) /\ g = R(o)
          BY <2>1, <4>1
        <5>3. p = x + f /\ o = y + g /\ j = z + f
          BY <5>1, <5>2
        <5>4. j - g = p - o
          BY <5>1, <5>3
        <5> QED BY <5>2, <5>4
      <4>4. j = BlockSize * k + R(p) /\ k \in Int /\ j \in Int
        BY <2>3, <3>3, <4>2
      <4>5. Q(j) = k /\ R(j) = R(p)
        <5> HIDE DEF j, k
        <5> QED BY <2>1, <4>4, Joined
      <4> QED BY <4>3, <4>5
    <3> HIDE DEF j
    <3>5. ByteAt(e, h, p) = buf[j + 1]
      BY <2>a, <3>2, <3>3 DEF ByteAt
    <3>6. buf[j + 1] = IF p - o \in 0 .. Len(data) - 1 THEN data[p - o + 1]
                       ELSE d[lba + k][R(p) + 1]
      BY <1>3, <3>3, <3>4
    <3>7. d[lba + k][R(p) + 1] = ByteAt(d, h, p)
      BY <2>3, <2>a DEF ByteAt
    <3>8. p - o \in 0 .. Len(data) - 1 <=> Within(p, o, data)
      BY DEF Within
    <3> QED BY <3>5, <3>6, <3>7, <3>8
  <2>7. CASE ~(b \in Run(lba, n) /\ Command(b - lba) < done)
    <3>1. ByteAt(e, h, p) = ByteAt(d, h, p)
      BY <1>4, <2>2, <2>7, <2>a DEF ByteAt
    <3>2. ASSUME done = Commands(n), Within(p, o, data) PROVE FALSE
      <4>1. b \in Run(lba, n)
        BY <2>5, <3>2
      <4>2. k \in 0 .. n - 1
        BY <1>2, <2>3, <2>4, <4>1
      <4>3. Command(k) < Commands(n)
        BY <1>2, <4>2, CommandsEnough
      <4> QED BY <2>7, <3>2, <4>1, <4>3
    <3> QED BY <3>1, <3>2
  <2> QED BY <2>6, <2>7
<1> QED BY <1>8, <1>9, <1>10 DEF n

-----------------------------------------------------------------------------
(* The bytes of a file.                                                    *)

Bytes(d, h) == [i \in 1 .. h.length |-> ByteAt(d, h, i - 1)]
Good(h) == h.start + h.blocks <= DataBlocks /\ h.length <= h.blocks * BlockSize

LEMMA FileBytesIs == FileBytes = Bytes(disk, Current)
  BY DEF FileBytes, Bytes, ByteAt, At, Q, R

LEMMA FileBytesPrimed == FileBytes' = Bytes(disk', Current')
  BY DEF FileBytes, Bytes, ByteAt, At, Q, R

LEMMA HandleFacts ==
  ASSUME NEW h \in Handle
  PROVE  /\ h.start \in Block /\ h.start \in Nat
         /\ h.blocks \in 0 .. DataBlocks /\ h.blocks \in Nat
         /\ h.length \in 0 .. MaxBytes /\ h.length \in Nat
  BY DEF Handle, Block

LEMMA BytesSame ==
  ASSUME NEW h \in Handle, NEW g \in Handle, NEW d, NEW e, h.length = g.length,
         \A p \in Nat : p < h.length => ByteAt(d, h, p) = ByteAt(e, g, p)
  PROVE  Bytes(d, h) = Bytes(e, g)
<1>1. PICK l \in Nat : l = h.length /\ l = g.length
  BY HandleFacts
<1>2. ASSUME NEW i \in 1 .. l PROVE ByteAt(d, h, i - 1) = ByteAt(e, g, i - 1)
  <2>1. i - 1 \in Nat /\ i - 1 < l
    BY <1>1
  <2> QED BY <1>1, <2>1
<1> QED BY <1>1, <1>2 DEF Bytes

\* A byte below the end of the extent is in a block of it.
LEMMA InExtent ==
  ASSUME NEW h \in Handle, h.start + h.blocks <= DataBlocks,
         NEW p \in Nat, p < h.blocks * BlockSize
  PROVE  h.start + Q(p) \in Extent(h) /\ h.start + Q(p) \in Block /\ R(p) \in 0 .. BlockSize - 1
<1>1. PICK s \in Nat, n \in Nat : s = h.start /\ n = h.blocks /\ s + n <= DataBlocks
  BY HandleFacts
<1>2. Q(p) \in Nat /\ R(p) \in 0 .. BlockSize - 1 /\ Q(p) < n
  BY <1>1, Split, SplitOrder
<1>3. s + Q(p) \in s .. s + n - 1 /\ s + Q(p) \in Block
  BY <1>1, <1>2 DEF Block
<1> QED BY <1>1, <1>2, <1>3 DEF Extent, Run

LEMMA BytesFacts ==
  ASSUME NEW d \in Medium, NEW h \in Handle, Good(h)
  PROVE  /\ Bytes(d, h) \in Seq(Byte) /\ Len(Bytes(d, h)) = h.length
         /\ \A p \in Nat : p < h.length => Bytes(d, h)[p + 1] = ByteAt(d, h, p)
<1>1. PICK l \in Nat : l = h.length
  BY HandleFacts
<1>2. h.blocks * BlockSize \in Nat /\ l <= h.blocks * BlockSize
  BY <1>1, HandleFacts DEF Good
<1>3. ASSUME NEW i \in 1 .. l PROVE ByteAt(d, h, i - 1) \in Byte
  <2>1. i - 1 \in Nat /\ i - 1 < h.blocks * BlockSize
    BY <1>2
  <2>2. h.start + Q(i - 1) \in Block /\ R(i - 1) \in 0 .. BlockSize - 1
    BY <2>1, InExtent DEF Good
  <2> QED BY <2>2, ByteType DEF ByteAt
<1>4. Bytes(d, h) \in [1 .. l -> Byte]
  BY <1>1, <1>3 DEF Bytes
<1>5. ASSUME NEW p \in Nat, p < l PROVE Bytes(d, h)[p + 1] = ByteAt(d, h, p)
  <2>1. p + 1 \in 1 .. l /\ (p + 1) - 1 = p
    BY <1>5
  <2>2. Bytes(d, h)[p + 1] = ByteAt(d, h, (p + 1) - 1)
    BY <1>1, <2>1 DEF Bytes
  <2> QED BY <2>1, <2>2
<1> QED BY <1>1, <1>4, <1>5, AsSeq

\* What the invariant says, for the proofs about actions.
LEMMA IoFacts ==
  ASSUME IoInv
  PROVE  /\ disk \in Medium /\ file \in Handle /\ handle \in Handle
         /\ Current \in Handle /\ Good(Current) /\ ios \in 0 .. MaxIo
         /\ used \subseteq Block /\ other \subseteq used
         /\ Extent(Current) \subseteq used /\ Extent(Current) \cap other = {}
  BY DEF IoInv, FileInv, ExtentsConsistent, IoTypeOK, Medium, Handle, LongEnough, Good, BlocksOwned, Current

\* ... and what is to be shown after one.
LEMMA FileInvPrimed ==
  ASSUME disk' \in Medium, file' \in Handle, handle' \in Handle, ios' \in 0 .. MaxIo,
         Good(Current'), InStep', OthersUntouched',
         used' \subseteq Block, other' \subseteq used',
         Extent(Current') \subseteq used', Extent(Current') \cap other' = {}
  PROVE  FileInv'
<1>1. ExtentsConsistent'
  BY DEF ExtentsConsistent, IoTypeOK, Medium, Handle
<1>2. LongEnough' /\ BlocksOwned'
  BY DEF LongEnough, BlocksOwned, Good, Extent, Run
<1> QED BY <1>1, <1>2 DEF FileInv

\* A call that changes nothing but the reply.
Counted == ios' = ios \/ (ios < MaxIo /\ ios' = ios + 1)

LEMMA Stays ==
  ASSUME IoInv, Counted, UNCHANGED <<disk, used, file, handle, other>>
  PROVE  FileInv' /\ FileBytes' = FileBytes
<1>0. ios' \in 0 .. MaxIo
  BY IoFacts DEF Counted
<1>1. Current' = Current /\ OthersUntouched' /\ InStep'
  BY DEF IoInv, FileInv, ExtentsConsistent, InStep, OthersUntouched, Current
<1>2. FileBytes' = FileBytes
  BY <1>1, FileBytesIs, FileBytesPrimed
<1>3. FileInv'
  BY <1>0, <1>1, IoFacts, FileInvPrimed
<1> QED BY <1>2, <1>3

\* A call that changes who keeps the extent, not the extent or the length.
LEMMA SameFile ==
  ASSUME IoInv, Counted, UNCHANGED <<disk, used, other>>,
         file' \in Handle, handle' \in Handle, InStep',
         Current'.start = Current.start, Current'.blocks = Current.blocks,
         Current'.length = Current.length
  PROVE  FileInv' /\ FileBytes' = FileBytes
<1>0. ios' \in 0 .. MaxIo
  BY IoFacts DEF Counted
<1>1. Current' \in Handle
  BY DEF Current
<1>2. Current' = Current
  BY <1>1, IoFacts DEF Handle
<1>3. OthersUntouched'
  BY DEF IoInv, FileInv, ExtentsConsistent, OthersUntouched
<1>4. FileBytes' = FileBytes
  BY <1>2, FileBytesIs, FileBytesPrimed
<1>5. FileInv'
  BY <1>0, <1>2, <1>3, IoFacts, FileInvPrimed
<1> QED BY <1>4, <1>5

-----------------------------------------------------------------------------
(* The calls, one by one: each keeps the invariant and is a step of        *)
(* ByteFile.                                                               *)

\* Calls that may change something, and calls that may not, are counted.
LEMMA CallFacts ==
  ASSUME IoInv
  PROVE  /\ \A op \in {"open", "close", "sync", "delete", "write", "truncate"} :
              Calls(op) => Counted
         /\ \A op : Asks(op) => Counted
<1>1. ASSUME NEW op \in {"open", "close", "sync", "delete", "write", "truncate"}, Calls(op)
      PROVE  Counted
  <2>1. call.op = op /\ reply = NoReply /\ ios' = ios + 1
    BY <1>1 DEF Calls, Serves
  <2>2. call # NoCall /\ call.op \notin {"read", "size"}
    BY <2>1 DEF NoCall, CallOf
  <2> QED BY <2>1, <2>2 DEF IoInv, CallAllowed, Counted
<1> QED BY <1>1 DEF Asks, Counted

LEMMA OpenStep ==
  ASSUME IoInv, Open
  PROVE  FileInv' /\ Abstract!Other
<1>1. Current = file /\ Current' = file /\ handle' = file /\ file' = file
  BY DEF Open, Current
<1>2. InStep'
  BY <1>1 DEF Open, InStep, IoInv, FileInv
<1>3. FileInv' /\ FileBytes' = FileBytes
  <2>1. Counted /\ file' \in Handle /\ handle' \in Handle
    BY <1>1, CallFacts, IoFacts DEF Open
  <2> QED BY <1>1, <1>2, <2>1, SameFile DEF Open
<1>4. Abstract!Other
  BY <1>3 DEF Open, Reply, Abstract!Other, Abstract!Answers
<1> QED BY <1>3, <1>4

\* The entry with the length of the handle.
LEMMA SavedFacts ==
  ASSUME IoInv, handle # None
  PROVE  /\ Saved(handle) \in Handle /\ Saved(handle).start = handle.start
         /\ Saved(handle).blocks = handle.blocks /\ Saved(handle).length = handle.length
         /\ Saved(handle).blocks >= 1
<1>1. file.start = handle.start /\ file.blocks = handle.blocks /\ handle.blocks >= 1
  BY DEF IoInv, FileInv, InStep
<1>2. file \in Handle /\ handle \in Handle
  BY IoFacts
<1> QED BY <1>1, <1>2 DEF Saved, Handle

LEMMA CloseStep ==
  ASSUME IoInv, Close
  PROVE  FileInv' /\ Abstract!Other
<1>1. Current = handle /\ handle' = None /\ file' = Saved(handle) /\ Current' = file'
  BY DEF Close, Current
<1>2. /\ Saved(handle) \in Handle /\ Saved(handle).start = handle.start
      /\ Saved(handle).blocks = handle.blocks /\ Saved(handle).length = handle.length
      /\ Saved(handle).blocks >= 1
  BY SavedFacts DEF Close
<1>3. handle' \in Handle
  BY <1>1 DEF None, Handle, Block
<1>4. InStep'
  BY <1>1, <1>2 DEF InStep
<1>5. FileInv' /\ FileBytes' = FileBytes
  <2>1. Counted
    BY CallFacts DEF Close
  <2> QED BY <1>1, <1>2, <1>3, <1>4, <2>1, SameFile DEF Close
<1>6. Abstract!Other
  BY <1>5 DEF Close, Reply, Abstract!Other, Abstract!Answers
<1> QED BY <1>5, <1>6

LEMMA SyncStep ==
  ASSUME IoInv, Sync
  PROVE  FileInv' /\ (Abstract!Other \/ Abstract!Failed("ioerr"))
<1>1. Current = handle /\ handle' = handle /\ file' = Saved(handle) /\ Current' = handle
  BY DEF Sync, Current
<1>2. /\ Saved(handle) \in Handle /\ Saved(handle).start = handle.start
      /\ Saved(handle).blocks = handle.blocks /\ Saved(handle).length = handle.length
      /\ Saved(handle).blocks >= 1
  BY SavedFacts DEF Sync
<1>3. InStep'
  BY <1>1, <1>2 DEF InStep
<1>4. FileInv' /\ FileBytes' = FileBytes
  <2>1. Counted /\ handle' \in Handle /\ file' \in Handle
    BY <1>1, <1>2, CallFacts, IoFacts DEF Sync
  <2> QED BY <1>1, <1>3, <2>1, SameFile DEF Sync
<1>5. Abstract!Other \/ Abstract!Failed("ioerr")
  BY <1>4 DEF Sync, Reply, Abstract!Other, Abstract!Answers, Abstract!Failed
<1> QED BY <1>4, <1>5

LEMMA RefusalStep ==
  ASSUME IoInv, NEW rc, NEW op, Asks(op), Reply(rc, <<>>),
         UNCHANGED <<disk, used, file, handle, other>>
  PROVE  FileInv' /\ Abstract!Failed(rc)
<1>1. FileInv' /\ FileBytes' = FileBytes
  BY CallFacts, Stays
<1> QED BY <1>1 DEF Reply, Abstract!Failed, Abstract!Answers

\* The bytes have the length of the file.
LEMMA LengthIs ==
  ASSUME IoInv
  PROVE  /\ FileBytes \in Seq(Byte) /\ Len(FileBytes) = Current.length /\ Current.length \in Nat
         /\ \A p \in Nat : p < Current.length => FileBytes[p + 1] = ByteAt(disk, Current, p)
  BY IoFacts, FileBytesIs, BytesFacts, HandleFacts

LEMMA FileSizeStep ==
  ASSUME IoInv, FileSize
  PROVE  FileInv' /\ Abstract!Size
<1>1. FileInv' /\ FileBytes' = FileBytes
  BY CallFacts, Stays DEF FileSize
<1>2. Len(FileBytes) = handle.length
  BY LengthIs DEF FileSize, Current
<1>3. Abstract!Size
  BY <1>1, <1>2 DEF FileSize, Reply, Abstract!Size
<1> QED BY <1>1, <1>3

LEMMA TruncateLongerStep ==
  ASSUME IoInv, NEW n \in Offset, TruncateLonger(n)
  PROVE  FileInv' /\ Abstract!Truncate(n)
<1>1. FileInv' /\ FileBytes' = FileBytes
  BY CallFacts, Stays DEF TruncateLonger
<1>2. Len(FileBytes) = handle.length
  BY LengthIs DEF TruncateLonger, Current
<1>3. Abstract!Truncate(n)
  BY <1>1, <1>2 DEF TruncateLonger, Reply, Abstract!Truncate, Abstract!Answers
<1> QED BY <1>1, <1>3

\* alloc() returns free blocks of the device.
LEMMA FirstFitFacts ==
  ASSUME NEW n \in Nat, NEW s \in FirstFit(n)
  PROVE  s \in Block /\ s \in Nat /\ s + n <= DataBlocks /\ Run(s, n) \cap used = {}
         /\ Run(s, n) \subseteq Block
<1>1. s \in Block /\ s \in Nat /\ s + n <= DataBlocks /\ Run(s, n) \cap used = {}
  BY DEF FirstFit, Fits, Block
<1> QED BY <1>1 DEF Run, Block

LEMMA CreateStep ==
  ASSUME IoInv, Create
  PROVE  FileInv' /\ Abstract!Other
<1>1. PICK s \in FirstFit(InitialBlocks) :
        /\ used' = used \cup Run(s, InitialBlocks)
        /\ file' = [start |-> s, blocks |-> InitialBlocks, length |-> 0]
        /\ handle' = file'
  BY DEF Create
<1>2. s \in Block /\ s \in Nat /\ s + InitialBlocks <= DataBlocks
      /\ Run(s, InitialBlocks) \cap used = {} /\ Run(s, InitialBlocks) \subseteq Block
  BY FirstFitFacts
<1>3. /\ Current = None /\ Current' = file' /\ disk' = disk /\ other' = other
      /\ reply' = [rc |-> "ok", buf |-> <<>>]
  BY <1>1 DEF Create, Current, Reply
<1>4. file' \in Handle /\ file'.blocks >= 1 /\ file'.start = s /\ file'.blocks = InitialBlocks
      /\ file'.length = 0
  BY <1>1, <1>2 DEF Handle
<1>5. InStep' /\ OthersUntouched'
  BY <1>1, <1>3, <1>4 DEF InStep, OthersUntouched, IoInv, FileInv, ExtentsConsistent
<1>6. Good(file') /\ Extent(file') = Run(s, InitialBlocks)
  <2>1. 0 <= InitialBlocks * BlockSize
    OBVIOUS
  <2> QED BY <1>2, <1>4, <2>1 DEF Good, Extent
<1>7. ios' \in 0 .. MaxIo
  BY IoFacts, CallFacts DEF Create, Counted
<1>8. FileInv'
  <2>1. used' \subseteq Block /\ other' \subseteq used' /\ Extent(file') \subseteq used'
        /\ Extent(file') \cap other' = {}
    BY <1>1, <1>2, <1>3, <1>6, IoFacts
  <2> QED BY <1>1, <1>3, <1>4, <1>5, <1>6, <1>7, <2>1, IoFacts, FileInvPrimed
<1>9. FileBytes' = FileBytes
  <2>1. Bytes(disk, Current) = << >> /\ Bytes(disk', Current') = << >>
    <3>1. Current.length = 0 /\ Current'.length = 0
      BY <1>3, <1>4 DEF None
    <3> QED BY <3>1 DEF Bytes
  <2> QED BY <2>1, FileBytesIs, FileBytesPrimed
<1>10. Abstract!Other
  BY <1>3, <1>9 DEF Abstract!Other, Abstract!Answers
<1> QED BY <1>8, <1>10

LEMMA DeleteStep ==
  ASSUME IoInv, Delete
  PROVE  FileInv' /\ Abstract!Remove
<1>1. /\ Current = file /\ file' = None /\ handle' = None /\ Current' = None
      /\ used' = used \ Extent(file) /\ disk' = disk /\ other' = other
      /\ reply' = [rc |-> "ok", buf |-> <<>>]
  BY DEF Delete, Current, Reply
<1>2. None \in Handle /\ Good(None) /\ Extent(None) = {} /\ None.length = 0
  BY DEF None, Handle, Block, Good, Extent, Run
<1>3. InStep' /\ OthersUntouched'
  BY <1>1 DEF InStep, OthersUntouched, IoInv, FileInv, ExtentsConsistent
<1>4. ios' \in 0 .. MaxIo
  BY IoFacts, CallFacts DEF Delete, Counted
<1>5. FileInv'
  <2>1. used' \subseteq Block /\ other' \subseteq used'
    BY <1>1, IoFacts
  <2> QED BY <1>1, <1>2, <1>3, <1>4, <2>1, IoFacts, FileInvPrimed
<1>6. FileBytes' = <<>>
  BY <1>1, <1>2, FileBytesPrimed DEF Bytes
<1>7. Abstract!Remove
  BY <1>1, <1>6 DEF Abstract!Remove, Abstract!Answers
<1> QED BY <1>5, <1>7

\* How many bytes are read, and that the file has the blocks for them: a read
\* that begins before the end of the file is never past its blocks.
LEMMA ToReadFacts ==
  ASSUME IoInv, handle # None, NEW o \in Nat, NEW n \in Nat, n >= 1, o < handle.length
  PROVE  /\ ToRead(o, n) \in Nat /\ 1 <= ToRead(o, n) /\ ToRead(o, n) <= n
         /\ o + ToRead(o, n) <= handle.length
         /\ ToRead(o, n) < n => o + ToRead(o, n) = handle.length
         /\ FirstBlock(o) + Spanned(o, ToRead(o, n)) <= handle.blocks
<1>1. Current = handle /\ handle \in Handle /\ Good(handle)
  BY IoFacts DEF Current
<1>2. PICK l \in Nat, bl \in Nat : l = handle.length /\ bl = handle.blocks
  BY <1>1, HandleFacts
<1>3. PICK t \in Int : t = ToRead(o, n) /\ t = IF n <= l - o THEN n ELSE l - o
  BY <1>2, MinOfTwo DEF ToRead
<1>4. t \in Nat /\ 1 <= t /\ t <= n /\ o + t <= l /\ (t < n => o + t = l)
  BY <1>2, <1>3
<1>5. o + t - 1 \in Nat /\ o + t - 1 < bl * BlockSize
  <2>1. bl * BlockSize \in Nat /\ l <= bl * BlockSize
    BY <1>1, <1>2 DEF Good
  <2> QED BY <1>4, <2>1
<1>6. Q(o + t - 1) < bl
  BY <1>5, SplitOrder
<1>7. FirstBlock(o) + Spanned(o, t) = Q(o + t - 1) + 1
  BY <1>4, SpannedFacts
<1>8. FirstBlock(o) + Spanned(o, t) <= bl
  BY <1>4, <1>6, <1>7, SpannedFacts
<1> QED BY <1>2, <1>3, <1>4, <1>8

LEMMA ReadPastEndStep ==
  ASSUME IoInv, NEW o \in Offset, NEW n \in Amount, ReadPastEnd(o, n)
  PROVE  FileInv' /\ Abstract!Read(o, n)
<1>1. FileInv' /\ FileBytes' = FileBytes
  BY CallFacts, Stays DEF ReadPastEnd
<1>2. o \in Nat /\ n \in Nat /\ n >= 1
  BY DEF Offset, Amount
<1>3. PICK l \in Nat : l = handle.length /\ l = Len(FileBytes)
  BY LengthIs DEF ReadPastEnd, Current
<1>4. o >= l
  <2> SUFFICES ASSUME ~(o >= l) PROVE FALSE
    OBVIOUS
  <2>1. o < handle.length
    BY <1>2, <1>3
  <2>2. FirstBlock(o) + Spanned(o, ToRead(o, n)) <= handle.blocks /\ ToRead(o, n) \in Nat
        /\ 1 <= ToRead(o, n)
    BY <1>2, <2>1, ToReadFacts DEF ReadPastEnd
  <2>3. FirstBlock(o) + Spanned(o, ToRead(o, n)) \in Nat
    <3>1. PICK t \in Nat : t = ToRead(o, n) /\ t >= 1
      BY <2>2
    <3>2. FirstBlock(o) \in Nat /\ Spanned(o, t) \in Nat
      BY <1>2, <3>1, SpannedFacts
    <3> QED BY <3>1, <3>2
  <2>4. handle.blocks \in Nat
    BY IoFacts, HandleFacts
  <2>5. FirstBlock(o) + Spanned(o, ToRead(o, n)) > handle.blocks
    BY <2>1, <1>2, <1>3 DEF ReadPastEnd, PastEnd
  <2> QED BY <2>2, <2>3, <2>4, <2>5
<1>5. reply' = [rc |-> "short_read", buf |-> [j \in 1 .. n |-> 0]]
  BY DEF ReadPastEnd, Reply, Zeros
<1>6. [j \in 1 .. n |-> IF o + j <= Len(FileBytes) THEN FileBytes[o + j] ELSE 0]
        = [j \in 1 .. n |-> 0]
  BY <1>2, <1>3, <1>4
<1>7. ~(o + n <= Len(FileBytes))
  BY <1>2, <1>3, <1>4
<1>8. Len([j \in 1 .. n |-> 0]) = n
  BY <1>2
<1>9. Abstract!Read(o, n)
  BY <1>1, <1>5, <1>6, <1>7, <1>8 DEF Abstract!Read
<1> QED BY <1>1, <1>9

\* The bytes out of the blocks, and zeros for the rest, are what the file has.
LEMMA ReadStep ==
  ASSUME IoInv, NEW o \in Offset, NEW n \in Amount, Read(o, n)
  PROVE  FileInv' /\ Abstract!Read(o, n)
<1>1. FileInv' /\ FileBytes' = FileBytes
  BY CallFacts, Stays DEF Read
<1>2. o \in Nat /\ n \in Nat /\ n >= 1 /\ handle # None /\ Current = handle
  BY DEF Offset, Amount, Read, Current
<1>3. PICK l \in Nat, st \in Nat, bl \in Nat :
        l = handle.length /\ st = handle.start /\ bl = handle.blocks
  BY IoFacts, HandleFacts
<1>4. o < l
  BY <1>2, <1>3 DEF Read, PastEnd
<1>5. PICK t \in Nat : t = ToRead(o, n)
  BY <1>2, <1>3, <1>4, ToReadFacts
<1>6. /\ 1 <= t /\ t <= n /\ o + t <= l /\ (t < n => o + t = l)
      /\ FirstBlock(o) + Spanned(o, t) <= bl
  BY <1>2, <1>3, <1>4, <1>5, ToReadFacts
<1>7. PICK k \in Nat : k = Spanned(o, t) /\ Q(o) + k <= bl /\ FirstBlock(o) = Q(o)
                       /\ k = Q(o + t - 1) - Q(o) + 1
  BY <1>2, <1>6, SpannedFacts
<1>8. Q(o) \in Nat /\ R(o) \in 0 .. BlockSize - 1
  BY <1>2, Split
<1>9. PICK lba \in Nat : lba = st + Q(o) /\ lba + k <= DataBlocks
  <2>1. st + bl <= DataBlocks
    BY <1>2, <1>3, IoFacts DEF Good
  <2> QED BY <1>7, <1>8, <2>1
<1> DEFINE dma == ReadIn(disk, lba, k)
           r == R(o)
           piece == SubSeq(dma, r + 1, r + t)
<1>10. /\ dma \in [1 .. k * BlockSize -> Byte] /\ k * BlockSize \in Nat
       /\ \A j \in Nat : j < k * BlockSize => dma[j + 1] = disk[lba + Q(j)][R(j) + 1]
  BY <1>9, IoFacts, ReadInFacts
<1>11. reply' = [rc |-> IF t < n THEN "short_read" ELSE "ok", buf |-> piece \o Zeros(n - t)]
  <2>1. handle.start + FirstBlock(o) = lba /\ o % BlockSize = r
    BY <1>3, <1>7, <1>9 DEF R
  <2> QED BY <1>5, <1>7, <2>1 DEF Read, Reply
<1> HIDE DEF dma, r, piece
<1>12. r + t <= k * BlockSize /\ r \in Nat
  <2>1. r + t - 1 \in Nat /\ r \in Nat
    BY <1>6, <1>8 DEF r
  <2>2. Q(o) + Q(r + (t - 1)) = Q(o + (t - 1))
    BY <1>2, <1>6, SplitFrom DEF r
  <2>3. Q(r + t - 1) \in Nat /\ Q(o) + Q(r + t - 1) = Q(o + t - 1) /\ Q(o + t - 1) \in Nat
    <3>1. r + (t - 1) = r + t - 1 /\ o + (t - 1) = o + t - 1 /\ o + t - 1 \in Nat
      BY <1>2, <1>6, <2>1
    <3> QED BY <2>1, <2>2, <3>1, Split
  <2>4. Q(r + t - 1) < k
    BY <1>7, <1>8, <2>3
  <2>5. r + t - 1 < k * BlockSize
    BY <2>1, <2>4, SplitOrder
  <2> QED BY <1>10, <2>1, <2>5
\* Byte j of the answer.
<1>13. ASSUME NEW j \in Nat, j < t
       PROVE  dma[r + j + 1] = FileBytes[o + j + 1]
  <2>1. r + j \in Nat /\ r + j < k * BlockSize
    BY <1>10, <1>12, <1>13
  <2>2. dma[r + j + 1] = disk[lba + Q(r + j)][R(r + j) + 1]
    BY <1>10, <2>1
  <2>3. Q(o) + Q(r + j) = Q(o + j) /\ R(r + j) = R(o + j)
    BY <1>2, SplitFrom DEF r
  <2>4. lba + Q(r + j) = st + Q(o + j)
    <3>1. r + j \in Nat /\ o + j \in Nat
      BY <1>2, <1>13, <2>1
    <3>2. Q(r + j) \in Nat /\ Q(o + j) \in Nat
      BY <3>1, Split, ZenonT(40)
    <3> QED BY <1>8, <1>9, <2>3, <3>2
  <2>5. dma[r + j + 1] = ByteAt(disk, handle, o + j)
    BY <1>3, <2>2, <2>3, <2>4 DEF ByteAt
  <2>6. o + j \in Nat /\ o + j < l
    BY <1>2, <1>6, <1>13
  <2>7. FileBytes[o + j + 1] = ByteAt(disk, handle, o + j)
    BY <1>2, <1>3, <2>6, LengthIs
  <2> QED BY <2>5, <2>7
<1>14. dma \in Seq(Byte) /\ Len(dma) = k * BlockSize
  BY <1>10, AsSeq
<1>15. piece \in Seq(Byte) /\ Len(piece) = t /\ \A i \in 1 .. t : piece[i] = dma[r + i]
  <2> DEFINE m == r + 1
             e == r + t
  <2>1. m \in Int /\ e \in Int /\ m <= e /\ e - m + 1 = t /\ m \in 1 .. k * BlockSize
        /\ e \in 1 .. k * BlockSize
    BY <1>6, <1>10, <1>12
  <2>2. \A i \in m .. e : dma[i] \in Byte
    <3> SUFFICES ASSUME NEW i \in m .. e PROVE dma[i] \in Byte
      OBVIOUS
    <3>1. i \in 1 .. k * BlockSize
      BY <1>10, <2>1
    <3> QED BY <1>10, <3>1
  <2>3. \A i \in Int : m + i - 1 = r + i
    BY <1>12
  <2>4. piece = SubSeq(dma, m, e)
    BY DEF piece
  <2> HIDE DEF m, e
  <2>5. /\ SubSeq(dma, m, e) \in Seq(Byte)
        /\ Len(SubSeq(dma, m, e)) = IF m <= e THEN e - m + 1 ELSE 0
        /\ \A i \in 1 .. e - m + 1 : SubSeq(dma, m, e)[i] = dma[m + i - 1]
    BY <2>1, <2>2, SubSeqProperties
  <2>6. Len(SubSeq(dma, m, e)) = t
    BY <2>1, <2>5
  <2>7. ASSUME NEW i \in 1 .. t PROVE SubSeq(dma, m, e)[i] = dma[r + i]
    <3>1. m + i - 1 = r + i /\ i \in 1 .. e - m + 1
      BY <2>1, <2>3
    <3> QED BY <2>5, <3>1
  <2> QED BY <2>4, <2>5, <2>6, <2>7
<1>16. Zeros(n - t) \in Seq(Byte) /\ Len(Zeros(n - t)) = n - t
       /\ \A i \in 1 .. n - t : Zeros(n - t)[i] = 0
  <2>1. n - t \in Nat
    BY <1>2, <1>6
  <2>2. Zeros(n - t) \in [1 .. n - t -> Byte]
    BY DEF Zeros, Byte
  <2> QED BY <2>1, <2>2, AsSeq DEF Zeros
<1> DEFINE ans == piece \o Zeros(n - t)
           want == [j \in 1 .. n |-> IF o + j <= Len(FileBytes) THEN FileBytes[o + j] ELSE 0]
<1>17. /\ ans \in Seq(Byte) /\ Len(ans) = n
       /\ \A i \in 1 .. n : ans[i] = IF i <= t THEN piece[i] ELSE Zeros(n - t)[i - t]
  <2>1. Len(piece) + Len(Zeros(n - t)) = n
    BY <1>2, <1>6, <1>15, <1>16
  <2>2. ans \in Seq(Byte) /\ Len(ans) = Len(piece) + Len(Zeros(n - t))
        /\ \A i \in 1 .. Len(piece) + Len(Zeros(n - t)) :
             ans[i] = IF i <= Len(piece) THEN piece[i] ELSE Zeros(n - t)[i - Len(piece)]
    <3>1. PICK z : z = Zeros(n - t)
      OBVIOUS
    <3>2. piece \in Seq(Byte) /\ z \in Seq(Byte)
      BY <1>15, <1>16, <3>1
    <3> HIDE DEF piece
    <3>3. piece \o z \in Seq(Byte) /\ Len(piece \o z) = Len(piece) + Len(z)
          /\ \A i \in 1 .. Len(piece) + Len(z) :
               (piece \o z)[i] = IF i <= Len(piece) THEN piece[i] ELSE z[i - Len(piece)]
      BY <3>2, ConcatProperties
    <3> QED BY <3>1, <3>3, Zenon
  <2> QED BY <1>15, <2>1, <2>2
<1> HIDE DEF ans
<1>18. Len(FileBytes) = l
  BY <1>2, <1>3, LengthIs
<1>19. ASSUME NEW i \in 1 .. n
       PROVE  ans[i] = IF o + i <= l THEN FileBytes[o + i] ELSE 0
  <2>1. CASE i <= t
    <3>1. i - 1 \in Nat /\ i - 1 < t /\ r + (i - 1) + 1 = r + i /\ o + (i - 1) + 1 = o + i
      BY <1>2, <1>12, <2>1
    <3>2. dma[r + (i - 1) + 1] = FileBytes[o + (i - 1) + 1]
      BY <1>13, <3>1
    <3>3. i \in 1 .. t
      BY <2>1
    <3>4. ans[i] = FileBytes[o + i]
      BY <1>15, <1>17, <3>1, <3>2, <3>3
    <3>5. o + i <= l
      BY <1>2, <1>6, <2>1
    <3> QED BY <3>4, <3>5
  <2>2. CASE i > t
    <3>1. i - t \in 1 .. n - t /\ ~(o + i <= l)
      BY <1>2, <1>6, <2>2
    <3>2. ans[i] = 0
      BY <1>16, <1>17, <2>2, <3>1
    <3> QED BY <3>1, <3>2
  <2> QED BY <2>1, <2>2
<1>20. ans = want
  <2>1. ans = [i \in 1 .. n |-> ans[i]]
    BY <1>17, LenProperties
  <2> QED BY <1>18, <1>19, <2>1
<1>21. t < n <=> ~(o + n <= l)
  BY <1>2, <1>6
<1>22. Abstract!Read(o, n)
  <2>1. reply'.buf = ans /\ reply' = [rc |-> IF o + n <= Len(FileBytes) THEN "ok" ELSE "short_read", buf |-> want]
    BY <1>11, <1>18, <1>20, <1>21 DEF ans
  <2> QED BY <1>1, <1>17, <2>1 DEF Abstract!Read
<1> QED BY <1>1, <1>22

\* All of the data is written, or a command has failed.
Written(h, d, o, data) ==
  /\ reply' = [rc |-> "ok", buf |-> <<>>]
  /\ handle'.length = IF o + Len(data) > h.length THEN o + Len(data) ELSE h.length
  /\ \A p \in Nat : p < h.length /\ ~Within(p, o, data) =>
       ByteAt(disk', handle', p) = ByteAt(d, h, p)
  /\ \A j \in 1 .. Len(data) : ByteAt(disk', handle', o + j - 1) = data[j]

Broken(h, d, o, data) ==
  /\ reply' = [rc |-> "ioerr", buf |-> <<>>]
  /\ handle'.length = h.length
  /\ \A p \in Nat : p < h.length =>
       \/ ByteAt(disk', handle', p) = ByteAt(d, h, p)
       \/ Within(p, o, data) /\ ByteAt(disk', handle', p) = data[p - o + 1]

\* What write() does to the bytes of the file with handle h, once it has the
\* blocks: Bytes(d, h) are the bytes before.
LEMMA FinishFacts ==
  ASSUME NEW h \in Handle, Good(h), NEW d \in Medium, NEW o \in Nat, NEW data \in Seq(Byte),
         Len(data) \in Nat, Len(data) >= 1, o + Len(data) <= MaxBytes,
         Needed(o, data) <= h.blocks, Finish(h, d, o, data)
  PROVE  /\ disk' \in Medium /\ handle' \in Handle /\ Good(handle')
         /\ handle'.start = h.start /\ handle'.blocks = h.blocks
         /\ \A b \in Block : b \notin Extent(h) => disk'[b] = d[b]
         /\ Written(h, d, o, data) \/ Broken(h, d, o, data)
<1> DEFINE lba == h.start + FirstBlock(o)
           n == Spanned(o, Len(data))
<1>1. PICK done \in 0 .. Commands(n) :
        /\ disk' = WrittenOut(d, lba, n, Buffer(d, lba, o, data), done)
        /\ IF done = Commands(n)
           THEN /\ handle' = Longer(h, o + Len(data))
                /\ reply' = [rc |-> "ok", buf |-> <<>>]
           ELSE /\ handle' = h
                /\ reply' = [rc |-> "ioerr", buf |-> <<>>]
  BY DEF Finish, WrittenBack, Reply
<1>2. h.start + h.blocks <= DataBlocks /\ FirstBlock(o) + Spanned(o, Len(data)) <= h.blocks
  BY DEF Good, Needed
<1>3. /\ disk' \in Medium
      /\ \A b \in Block : b \notin Extent(h) => disk'[b] = d[b]
      /\ \A p \in Nat : p < h.blocks * BlockSize =>
           \/ /\ ByteAt(disk', h, p) = ByteAt(d, h, p)
              /\ done = Commands(n) => ~Within(p, o, data)
           \/ Within(p, o, data) /\ ByteAt(disk', h, p) = data[p - o + 1]
  <2>1. done \in Int
    OBVIOUS
  <2> QED BY <1>1, <1>2, <2>1, WrittenFacts
<1>4. PICK l \in Nat, bl \in Nat : l = h.length /\ bl = h.blocks /\ l <= MaxBytes
  BY HandleFacts
<1>5. bl * BlockSize \in Nat /\ l <= bl * BlockSize
  BY <1>4 DEF Good
<1>6. o + Len(data) <= bl * BlockSize
  <2>1. o + Len(data) - 1 \in Nat
    OBVIOUS
  <2>2. FirstBlock(o) + Spanned(o, Len(data)) = Q(o + Len(data) - 1) + 1
        /\ Q(o + Len(data) - 1) \in Nat
    <3>1. PICK k \in Nat : k = Len(data) /\ k >= 1
      OBVIOUS
    <3>2. /\ FirstBlock(o) = Q(o) /\ Q(o) \in Nat /\ Q(o + k - 1) \in Nat
          /\ Spanned(o, k) = Q(o + k - 1) - Q(o) + 1
      BY <3>1, SpannedFacts
    <3>3. FirstBlock(o) + Spanned(o, k) = Q(o + k - 1) + 1
      BY <3>2
    <3> QED BY <3>1, <3>2, <3>3
  <2>3. Q(o + Len(data) - 1) < bl
    BY <1>2, <1>4, <2>2
  <2>4. o + Len(data) - 1 < bl * BlockSize
    BY <2>1, <2>3, SplitOrder
  <2> QED BY <1>5, <2>1, <2>4
<1> HIDE DEF n, lba
<1>7. CASE done = Commands(n)
  <2> DEFINE m == IF o + Len(data) > l THEN o + Len(data) ELSE l
  <2>1. Max({l, o + Len(data)}) = m /\ m \in 0 .. MaxBytes /\ m <= bl * BlockSize
    BY <1>4, <1>5, <1>6, MaxOf, SMTT(30)
  <2>2. handle' = [h EXCEPT !.length = m] /\ reply' = [rc |-> "ok", buf |-> <<>>]
    BY <1>1, <1>4, <1>7, <2>1 DEF Longer
  <2> HIDE DEF m
  <2>3. handle' \in Handle /\ handle'.start = h.start /\ handle'.blocks = h.blocks
        /\ handle'.length = m
    BY <2>1, <2>2 DEF Handle
  <2>4. Good(handle')
    BY <1>2, <1>4, <2>1, <2>3 DEF Good
  <2>5. \A p : ByteAt(disk', handle', p) = ByteAt(disk', h, p)
    BY <2>3 DEF ByteAt
  <2>6. ASSUME NEW p \in Nat, p < h.length, ~Within(p, o, data)
        PROVE  ByteAt(disk', handle', p) = ByteAt(d, h, p)
    <3>1. p < h.blocks * BlockSize
      <4>1. PICK z \in Nat : z = bl * BlockSize
        BY <1>5
      <4>2. p < l /\ l <= z
        BY <1>4, <1>5, <2>6, <4>1
      <4> QED BY <1>4, <4>1, <4>2
    <3> QED BY <1>3, <2>5, <2>6, <3>1
  <2>7. ASSUME NEW j \in 1 .. Len(data) PROVE ByteAt(disk', handle', o + j - 1) = data[j]
    <3>1. PICK p \in Nat : p = o + j - 1
      OBVIOUS
    <3>2. p < bl * BlockSize /\ Within(p, o, data) /\ p - o + 1 = j
      BY <1>5, <1>6, <3>1 DEF Within
    <3> QED BY <1>3, <1>4, <1>7, <2>5, <3>1, <3>2
  <2>8. handle'.length = IF o + Len(data) > h.length THEN o + Len(data) ELSE h.length
    BY <1>4, <2>3 DEF m
  <2> QED BY <1>3, <2>2, <2>3, <2>4, <2>6, <2>7, <2>8 DEF Written
<1>8. CASE done # Commands(n)
  <2>1. handle' = h /\ reply' = [rc |-> "ioerr", buf |-> <<>>]
    BY <1>1, <1>8
  <2>2. ASSUME NEW p \in Nat, p < h.length
        PROVE  \/ ByteAt(disk', handle', p) = ByteAt(d, h, p)
               \/ Within(p, o, data) /\ ByteAt(disk', handle', p) = data[p - o + 1]
    <3>1. p < h.blocks * BlockSize
      <4>1. PICK z \in Nat : z = bl * BlockSize
        BY <1>5
      <4>2. p < l /\ l <= z
        BY <1>4, <1>5, <2>2, <4>1
      <4> QED BY <1>4, <4>1, <4>2
    <3> QED BY <1>3, <2>1, <3>1
  <2> QED BY <1>3, <2>1, <2>2 DEF Broken
<1> QED BY <1>7, <1>8

\* ... and what it is for the abstract file, whose bytes were Bytes(d, h).
LEMMA FinishRefines ==
  ASSUME NEW h \in Handle, Good(h), NEW d \in Medium, NEW o \in Offset, NEW n \in Amount,
         NEW data \in Data(n), InBounds(o, n), Needed(o, data) <= h.blocks,
         Finish(h, d, o, data), FileBytes = Bytes(d, h), handle' # None
  PROVE  Abstract!Write(o, data) \/ Abstract!FailedWrite(o, data)
<1>1. data \in Seq(Byte) /\ Len(data) = n /\ n \in Nat /\ n >= 1 /\ o \in Nat
  BY DataFacts DEF Offset
<1>2. o + Len(data) <= MaxBytes /\ Len(data) \in Nat /\ Len(data) >= 1
  BY <1>1 DEF InBounds
<1>3. /\ disk' \in Medium /\ handle' \in Handle /\ Good(handle')
      /\ Written(h, d, o, data) \/ Broken(h, d, o, data)
  BY <1>1, <1>2, FinishFacts, Zenon
<1>4. Current' = handle' /\ FileBytes' = Bytes(disk', handle')
  BY FileBytesPrimed DEF Current
<1>5. /\ Len(FileBytes') = handle'.length
      /\ \A p \in Nat : p < handle'.length => FileBytes'[p + 1] = ByteAt(disk', handle', p)
  BY <1>3, <1>4, BytesFacts
<1>6. /\ Len(FileBytes) = h.length
      /\ \A p \in Nat : p < h.length => FileBytes[p + 1] = ByteAt(d, h, p)
  BY BytesFacts
<1>7. PICK l \in Nat, m \in Nat : l = h.length /\ m = handle'.length
  BY <1>3, HandleFacts
<1>8. ASSUME NEW p \in Abstract!Positions
      PROVE  p \in Nat /\ p < l /\ (Abstract!Within(p, o, data) <=> Within(p, o, data))
             /\ Abstract!Byte(p) = ByteAt(d, h, p)
  <2>1. p \in Nat /\ p < l
    BY <1>6, <1>7 DEF Abstract!Positions
  <2>2. Abstract!Byte(p) = ByteAt(d, h, p)
    BY <1>6, <1>7, <2>1 DEF Abstract!Byte
  <2> QED BY <2>1, <2>2 DEF Abstract!Within, Within
<1>9. CASE reply'.rc = "ok"
  <2>0. /\ reply' = [rc |-> "ok", buf |-> <<>>]
        /\ m = IF o + Len(data) > l THEN o + Len(data) ELSE l
        /\ \A p \in Nat : p < l /\ ~Within(p, o, data) =>
             ByteAt(disk', handle', p) = ByteAt(d, h, p)
        /\ \A j \in 1 .. Len(data) : ByteAt(disk', handle', o + j - 1) = data[j]
    BY <1>3, <1>7, <1>9 DEF Written, Broken
  <2>1. l <= m /\ o + Len(data) <= m
    BY <1>1, <1>2, <2>0
  <2>2. ASSUME NEW p \in Abstract!Positions, ~Abstract!Within(p, o, data)
        PROVE  FileBytes'[p + 1] = Abstract!Byte(p)
    <3>1. p \in Nat /\ p < l /\ ~Within(p, o, data) /\ Abstract!Byte(p) = ByteAt(d, h, p)
      BY <1>8, <2>2
    <3>2. p < m
      BY <2>1, <3>1
    <3>3. FileBytes'[p + 1] = ByteAt(disk', handle', p)
      BY <1>5, <1>7, <3>1, <3>2
    <3> QED BY <2>0, <3>1, <3>3
  <2>3. ASSUME NEW j \in 1 .. Len(data) PROVE FileBytes'[o + j] = data[j]
    <3>1. o + j - 1 \in Nat /\ o + j - 1 < m /\ (o + j - 1) + 1 = o + j
      BY <1>1, <2>1
    <3>2. FileBytes'[(o + j - 1) + 1] = ByteAt(disk', handle', o + j - 1)
      BY <1>5, <1>7, <3>1
    <3> QED BY <2>0, <3>1, <3>2
  <2>4. Len(FileBytes') = IF o + Len(data) > Len(FileBytes) THEN o + Len(data) ELSE Len(FileBytes)
    BY <1>5, <1>6, <1>7, <2>0
  <2>5. Abstract!Write(o, data)
    BY <2>0, <2>2, <2>3, <2>4 DEF Abstract!Write, Abstract!Answers
  <2> QED BY <2>5
<1>10. CASE reply'.rc # "ok"
  <2>0. /\ reply' = [rc |-> "ioerr", buf |-> <<>>]
        /\ m = l
        /\ \A p \in Nat : p < l =>
             \/ ByteAt(disk', handle', p) = ByteAt(d, h, p)
             \/ Within(p, o, data) /\ ByteAt(disk', handle', p) = data[p - o + 1]
    BY <1>3, <1>7, <1>10 DEF Written, Broken
  <2>1. ASSUME NEW p \in Abstract!Positions
        PROVE  \/ FileBytes'[p + 1] = Abstract!Byte(p)
               \/ Abstract!Within(p, o, data) /\ FileBytes'[p + 1] = data[p - o + 1]
    <3>1. p \in Nat /\ p < l /\ (Abstract!Within(p, o, data) <=> Within(p, o, data))
          /\ Abstract!Byte(p) = ByteAt(d, h, p)
      BY <1>8
    <3>2. FileBytes'[p + 1] = ByteAt(disk', handle', p)
      BY <1>5, <1>7, <2>0, <3>1
    <3> QED BY <2>0, <3>1, <3>2
  <2>2. Len(FileBytes') = Len(FileBytes)
    BY <1>5, <1>6, <1>7, <2>0
  <2>3. Abstract!FailedWrite(o, data)
    BY <2>0, <2>1, <2>2 DEF Abstract!FailedWrite, Abstract!Answers
  <2> QED BY <2>3
<1> QED BY <1>9, <1>10

\* Nothing that another file owns was written.
LEMMA OthersKept ==
  ASSUME IoInv, other' = other, \A b \in other : disk'[b] = disk[b]
  PROVE  OthersUntouched'
  BY DEF IoInv, FileInv, ExtentsConsistent, OthersUntouched

LEMMA WriteStep ==
  ASSUME IoInv, NEW o \in Offset, NEW n \in Amount, InBounds(o, n), NEW data \in Data(n),
         Write(o, data)
  PROVE  FileInv' /\ (Abstract!Write(o, data) \/ Abstract!FailedWrite(o, data))
<1>1. data \in Seq(Byte) /\ Len(data) = n /\ n \in Nat /\ n >= 1 /\ o \in Nat
  BY DataFacts DEF Offset
<1>2. /\ handle # None /\ Needed(o, data) <= handle.blocks /\ Finish(handle, disk, o, data)
      /\ used' = used /\ file' = file /\ other' = other /\ Counted
  BY CallFacts DEF Write
<1>3. /\ disk \in Medium /\ file \in Handle /\ handle \in Handle /\ Current = handle
      /\ Good(handle) /\ used \subseteq Block /\ other \subseteq used
      /\ Extent(handle) \subseteq used /\ Extent(handle) \cap other = {} /\ ios \in 0 .. MaxIo
  BY <1>2, IoFacts DEF Current
<1>4. o + Len(data) <= MaxBytes /\ Len(data) \in Nat /\ Len(data) >= 1
  BY <1>1 DEF InBounds
<1>5. /\ disk' \in Medium /\ handle' \in Handle /\ Good(handle')
      /\ handle'.start = handle.start /\ handle'.blocks = handle.blocks
      /\ \A b \in Block : b \notin Extent(handle) => disk'[b] = disk[b]
  BY <1>1, <1>2, <1>3, <1>4, FinishFacts, Zenon
<1>6. handle.blocks >= 1 /\ file.blocks >= 1 /\ file.start = handle.start
      /\ file.blocks = handle.blocks
  BY <1>2 DEF IoInv, FileInv, InStep
<1>7. handle' # None
  BY <1>5, <1>6 DEF None
<1>8. InStep' /\ Current' = handle' /\ Extent(handle') = Extent(handle)
  BY <1>2, <1>5, <1>6, <1>7 DEF InStep, Current, Extent
<1>9. OthersUntouched'
  <2>1. ASSUME NEW b \in other PROVE disk'[b] = disk[b]
    BY <1>3, <1>5
  <2> QED BY <1>2, <2>1, OthersKept
<1>10. FileInv'
  <2>1. ios' \in 0 .. MaxIo
    BY <1>2, <1>3 DEF Counted
  <2> QED BY <1>2, <1>3, <1>5, <1>8, <1>9, <2>1, FileInvPrimed
<1>11. Abstract!Write(o, data) \/ Abstract!FailedWrite(o, data)
  <2>1. FileBytes = Bytes(disk, handle)
    BY <1>3, FileBytesIs
  <2> QED BY <1>2, <1>3, <1>7, <2>1, FinishRefines
<1> QED BY <1>10, <1>11

\* What the copy of a growth leaves on the device: only the new run changes,
\* and as much of it as was copied holds the old blocks.
LEMMA MovedFacts ==
  ASSUME IoInv, handle # None, NEW n \in Nat, NEW s \in FirstFit(n),
         NEW copied \in 0 .. handle.blocks, copied <= n
  PROVE  /\ Moved(s, copied) \in Medium
         /\ \A b \in used : Moved(s, copied)[b] = disk[b]
         /\ \A k \in 0 .. copied - 1 : Moved(s, copied)[s + k] = disk[handle.start + k]
<1>1. /\ disk \in Medium /\ handle \in Handle /\ Current = handle
      /\ Good(handle) /\ used \subseteq Block
  BY IoFacts DEF Current
<1>2. s \in Block /\ s \in Nat /\ s + n <= DataBlocks /\ Run(s, n) \cap used = {}
      /\ Run(s, n) \subseteq Block
  BY FirstFitFacts
<1>3. PICK st \in Nat, bl \in Nat : st = handle.start /\ bl = handle.blocks /\ st + bl <= DataBlocks
  BY <1>1, HandleFacts DEF Good
<1>4. copied \in Nat /\ copied <= bl /\ copied <= n
  BY <1>3
<1>5. Run(s, copied) \subseteq Run(s, n)
  BY <1>2, <1>4 DEF Run
<1>6. ASSUME NEW b \in Run(s, copied) PROVE handle.start + (b - s) \in Block
  <2>1. b \in Int /\ s <= b /\ b <= s + copied - 1
    BY <1>2, <1>4 DEF Run
  <2>2. st + (b - s) \in 0 .. DataBlocks - 1
    BY <1>2, <1>3, <1>4, <2>1
  <2> QED BY <1>3, <2>2 DEF Block
<1>7. Moved(s, copied) \in Medium
  BY <1>1, <1>6 DEF Moved, Medium
<1>8. ASSUME NEW b \in used PROVE Moved(s, copied)[b] = disk[b]
  <2>1. b \in Block /\ b \notin Run(s, copied)
    BY <1>1, <1>2, <1>5
  <2> QED BY <2>1 DEF Moved
<1>9. ASSUME NEW k \in 0 .. copied - 1 PROVE Moved(s, copied)[s + k] = disk[handle.start + k]
  <2>1. s + k \in Run(s, copied) /\ (s + k) - s = k
    BY <1>2, <1>4 DEF Run
  <2>2. s + k \in Block
    BY <1>2, <1>5, <2>1
  <2> QED BY <2>1, <2>2 DEF Moved
<1> QED BY <1>7, <1>8, <1>9

LEMMA NeededFacts ==
  ASSUME NEW o \in Offset, NEW n \in Amount, NEW data \in Data(n)
  PROVE  Needed(o, data) \in Nat
<1>1. Len(data) = n /\ n \in Nat /\ n >= 1 /\ o \in Nat
  BY DataFacts DEF Offset
<1>2. FirstBlock(o) \in Nat /\ Spanned(o, n) \in Nat
  BY <1>1, SpannedFacts
<1> QED BY <1>1, <1>2 DEF Needed

LEMMA GrowFailsStep ==
  ASSUME IoInv, NEW o \in Offset, NEW n \in Amount, InBounds(o, n), NEW data \in Data(n),
         GrowFails(o, data)
  PROVE  FileInv' /\ Abstract!FailedWrite(o, data)
<1>1. PICK s \in FirstFit(Needed(o, data)), copied \in 0 .. handle.blocks :
        disk' = Moved(s, copied) /\ reply' = [rc |-> "ioerr", buf |-> <<>>]
  BY DEF GrowFails, Reply
<1>2. /\ handle # None /\ Needed(o, data) > handle.blocks /\ Counted
      /\ used' = used /\ file' = file /\ handle' = handle /\ other' = other
  BY CallFacts DEF GrowFails
<1>3. Needed(o, data) \in Nat /\ handle.blocks \in Nat
  BY NeededFacts, IoFacts, HandleFacts
<1>4. copied <= Needed(o, data)
  BY <1>2, <1>3
<1>5. disk' \in Medium /\ \A b \in used : disk'[b] = disk[b]
  BY <1>1, <1>2, <1>3, <1>4, MovedFacts
<1>6. Current' = Current /\ InStep'
  BY <1>2 DEF Current, InStep, IoInv, FileInv
<1>7. OthersUntouched'
  BY <1>2, <1>5, IoFacts, OthersKept
<1>8. FileInv'
  <2>1. ios' \in 0 .. MaxIo
    BY <1>2, IoFacts DEF Counted
  <2> QED BY <1>2, <1>5, <1>6, <1>7, <2>1, IoFacts, FileInvPrimed
<1>9. FileBytes' = FileBytes
  <2>1. ASSUME NEW p \in Nat, p < Current.length
        PROVE  ByteAt(disk, Current, p) = ByteAt(disk', Current, p)
    <3>1. p < Current.blocks * BlockSize
      <4>1. PICK l \in Nat, bl \in Nat : l = Current.length /\ bl = Current.blocks
        BY IoFacts, HandleFacts
      <4>2. l <= bl * BlockSize /\ bl * BlockSize \in Nat
        BY <4>1, IoFacts DEF Good
      <4> QED BY <2>1, <4>1, <4>2
    <3>2. Current.start + Q(p) \in Extent(Current)
      BY <3>1, InExtent, IoFacts DEF Good
    <3> QED BY <1>5, <3>2, IoFacts DEF ByteAt
  <2>2. Bytes(disk, Current) = Bytes(disk', Current)
    BY <2>1, BytesSame, IoFacts
  <2> QED BY <1>6, <2>2, FileBytesIs, FileBytesPrimed
<1>10. Abstract!FailedWrite(o, data)
  BY <1>1, <1>9 DEF Abstract!FailedWrite, Abstract!Answers, Abstract!Byte
<1> QED BY <1>8, <1>10

LEMMA GrowAndWriteStep ==
  ASSUME IoInv, NEW o \in Offset, NEW n \in Amount, InBounds(o, n), NEW data \in Data(n),
         GrowAndWrite(o, data)
  PROVE  FileInv' /\ (Abstract!Write(o, data) \/ Abstract!FailedWrite(o, data))
<1>0. data \in Seq(Byte) /\ Len(data) = n /\ n \in Nat /\ n >= 1 /\ o \in Nat
  BY DataFacts DEF Offset
<1>1. PICK k \in Nat : k = Needed(o, data)
  BY NeededFacts
<1>2. PICK s \in FirstFit(k) :
        LET h == [handle EXCEPT !.start = s, !.blocks = k]
        IN  /\ used' = (used \cup Extent(h)) \ Extent(handle)
            /\ file' = [file EXCEPT !.start = s, !.blocks = h.blocks]
            /\ Finish(h, Moved(s, handle.blocks), o, data)
  BY <1>1 DEF GrowAndWrite
<1>3. handle # None /\ k > handle.blocks /\ Counted /\ other' = other
  BY <1>1, CallFacts DEF GrowAndWrite
<1>4. /\ disk \in Medium /\ file \in Handle /\ handle \in Handle /\ Current = handle
      /\ Good(handle) /\ used \subseteq Block /\ other \subseteq used
      /\ Extent(handle) \subseteq used /\ Extent(handle) \cap other = {} /\ ios \in 0 .. MaxIo
  BY <1>3, IoFacts DEF Current
<1>5. s \in Block /\ s \in Nat /\ s + k <= DataBlocks /\ Run(s, k) \cap used = {}
      /\ Run(s, k) \subseteq Block
  BY FirstFitFacts
<1>6. PICK l \in Nat, bl \in Nat : l = handle.length /\ bl = handle.blocks /\ bl <= k
  BY <1>3, <1>4, HandleFacts
<1> DEFINE h == [handle EXCEPT !.start = s, !.blocks = k]
           d == Moved(s, handle.blocks)
<1>7. h \in Handle /\ h.start = s /\ h.blocks = k /\ h.length = handle.length
  <2>1. k \in 0 .. DataBlocks
    BY <1>5
  <2> QED BY <1>4, <1>5, <2>1 DEF Handle
<1>8. file' = [file EXCEPT !.start = s, !.blocks = k] /\ Finish(h, d, o, data)
      /\ used' = (used \cup Extent(h)) \ Extent(handle)
  BY <1>2, <1>7
<1> HIDE DEF h
<1>9. Good(h) /\ Extent(h) = Run(s, k)
  <2>1. l <= k * BlockSize
    <3>1. l <= bl * BlockSize /\ bl * BlockSize \in Nat
      BY <1>4, <1>6 DEF Good
    <3>2. bl * BlockSize <= k * BlockSize /\ k * BlockSize \in Nat
      BY <1>6, Z3T(30)
    <3> QED BY <3>1, <3>2
  <2> QED BY <1>5, <1>6, <1>7, <2>1 DEF Good, Extent
<1>10. /\ d \in Medium /\ \A b \in used : d[b] = disk[b]
       /\ \A j \in 0 .. handle.blocks - 1 : d[s + j] = disk[handle.start + j]
  <2>1. handle.blocks \in 0 .. handle.blocks /\ handle.blocks <= k
    BY <1>6
  <2> QED BY <1>3, <2>1, MovedFacts
<1> HIDE DEF d
<1>11. o + Len(data) <= MaxBytes /\ Len(data) \in Nat /\ Len(data) >= 1
       /\ Needed(o, data) <= h.blocks
  BY <1>0, <1>1, <1>7 DEF InBounds
<1>12. /\ disk' \in Medium /\ handle' \in Handle /\ Good(handle')
       /\ handle'.start = h.start /\ handle'.blocks = h.blocks
       /\ \A b \in Block : b \notin Extent(h) => disk'[b] = d[b]
  BY <1>0, <1>7, <1>8, <1>9, <1>10, <1>11, FinishFacts, Zenon
<1>13. file' \in Handle /\ file'.start = s /\ file'.blocks = k /\ k >= 1
  <2>1. k \in 0 .. DataBlocks
    BY <1>5
  <2>2. k >= 1
    BY <1>3, <1>6
  <2> QED BY <1>4, <1>5, <1>8, <2>1, <2>2 DEF Handle
<1>14. handle' # None /\ Current' = handle' /\ InStep' /\ Extent(handle') = Run(s, k)
  <2>1. handle' # None
    BY <1>7, <1>12, <1>13 DEF None
  <2> QED BY <1>7, <1>12, <1>13, <2>1 DEF InStep, Current, Extent
<1>15. OthersUntouched'
  <2>1. ASSUME NEW b \in other PROVE disk'[b] = disk[b]
    <3>1. b \in Block /\ b \in used /\ b \notin Extent(h)
      BY <1>4, <1>5, <1>9
    <3> QED BY <1>10, <1>12, <3>1
  <2> QED BY <1>3, <2>1, OthersKept
<1>16. FileInv'
  <2>1. ios' \in 0 .. MaxIo
    BY <1>3, <1>4 DEF Counted
  <2>2. used' \subseteq Block /\ other' \subseteq used' /\ Extent(handle') \subseteq used'
        /\ Extent(handle') \cap other' = {}
    BY <1>3, <1>4, <1>5, <1>8, <1>9, <1>14
  <2> QED BY <1>12, <1>13, <1>14, <1>15, <2>1, <2>2, FileInvPrimed
\* The bytes are where they were, seen from the new start.
<1>17. FileBytes = Bytes(d, h)
  <2>1. ASSUME NEW p \in Nat, p < handle.length
        PROVE  ByteAt(disk, handle, p) = ByteAt(d, h, p)
    <3>1. p < bl * BlockSize
      <4>1. l <= bl * BlockSize /\ bl * BlockSize \in Nat
        BY <1>4, <1>6 DEF Good
      <4> QED BY <1>6, <2>1, <4>1
    <3>2. Q(p) \in Nat /\ Q(p) < bl
      BY <3>1, Split, SplitOrder
    <3>3. Q(p) \in 0 .. handle.blocks - 1
      BY <1>6, <3>2
    <3> QED BY <1>7, <1>10, <3>3 DEF ByteAt
  <2>2. Bytes(disk, handle) = Bytes(d, h)
    BY <1>4, <1>7, <2>1, BytesSame
  <2> QED BY <1>4, <2>2, FileBytesIs
<1>18. Abstract!Write(o, data) \/ Abstract!FailedWrite(o, data)
  BY <1>7, <1>8, <1>9, <1>10, <1>11, <1>14, <1>17, FinishRefines, Zenon
<1> QED BY <1>16, <1>18

\* The blocks that truncate() keeps are enough for n bytes, and at least one.
LEMMA KeptFacts ==
  ASSUME NEW n \in Nat
  PROVE  Kept(n) \in Nat /\ Kept(n) >= 1 /\ n <= Kept(n) * BlockSize
<1>1. CASE n = 0
  BY <1>1 DEF Kept
<1>2. CASE n # 0
  <2>1. n - 1 \in Nat
    BY <1>2
  <2>2. PICK q \in Nat, r \in 0 .. BlockSize - 1 : q = Q(n - 1) /\ n - 1 = BlockSize * q + r
    BY <2>1, Split
  <2>3. BlockSize * (q + 1) = BlockSize * q + BlockSize /\ BlockSize * q \in Int
    BY Z3T(30)
  <2>4. n + BlockSize - 1 = BlockSize * (q + 1) + r /\ q + 1 \in Int /\ n + BlockSize - 1 \in Int
    <3> DEFINE x == BlockSize * q
               y == BlockSize * (q + 1)
    <3>1. x \in Int /\ y = x + BlockSize /\ n - 1 = x + r
      BY <2>2, <2>3
    <3> HIDE DEF x, y
    <3>2. n + BlockSize - 1 = y + r
      BY <3>1
    <3> QED BY <3>2 DEF y
  <2>5. Q(n + BlockSize - 1) = q + 1
    BY <2>4, Joined
  <2>6. Kept(n) = q + 1
    BY <1>2, <2>5 DEF Kept, Q
  <2>7. Q(n - 1) < q + 1
    BY <2>2
  <2>8. n - 1 < (q + 1) * BlockSize
    BY <2>1, <2>7, SplitOrder
  <2>9. (q + 1) * BlockSize \in Nat
    OBVIOUS
  <2> QED BY <2>6, <2>8, <2>9
<1> QED BY <1>1, <1>2

LEMMA TruncateStep ==
  ASSUME IoInv, NEW n \in Offset, Truncate(n)
  PROVE  FileInv' /\ Abstract!Truncate(n)
<1>1. /\ handle # None /\ n <= handle.length /\ Counted /\ disk' = disk /\ other' = other
      /\ reply' = [rc |-> "ok", buf |-> <<>>]
  BY CallFacts DEF Truncate, Reply
<1>2. /\ disk \in Medium /\ file \in Handle /\ handle \in Handle /\ Current = handle
      /\ Good(handle) /\ used \subseteq Block /\ other \subseteq used
      /\ Extent(handle) \subseteq used /\ Extent(handle) \cap other = {} /\ ios \in 0 .. MaxIo
  BY <1>1, IoFacts DEF Current
<1>3. n \in Nat /\ n \in 0 .. MaxBytes
  BY DEF Offset
<1>4. PICK st \in Nat, l \in Nat, bl \in Nat :
        /\ st = handle.start /\ l = handle.length /\ bl = handle.blocks
        /\ bl >= 1 /\ n <= l /\ l <= bl * BlockSize /\ st + bl <= DataBlocks
  <2>1. handle.blocks >= 1
    BY <1>1 DEF IoInv, FileInv, InStep
  <2> QED BY <1>1, <1>2, <2>1, HandleFacts DEF Good
<1>5. file.start = st /\ file.blocks = bl
  BY <1>1, <1>4 DEF IoInv, FileInv, InStep
<1>6. PICK kept \in Nat : kept = Kept(n) /\ kept >= 1 /\ n <= kept * BlockSize
  BY <1>3, KeptFacts
<1>7. PICK m \in Nat : m = Min({bl, kept}) /\ m = IF bl <= kept THEN bl ELSE kept
  BY MinOfTwo
<1>8. m >= 1 /\ m <= bl /\ (kept < bl => m = kept) /\ (~(kept < bl) => m = bl)
  <2>1. bl >= 1 /\ kept >= 1
    BY <1>4, <1>6
  <2>2. m = IF bl <= kept THEN bl ELSE kept
    BY <1>7
  <2> QED BY <2>1, <2>2
<1>9. n <= m * BlockSize
  <2>1. CASE kept < bl
    BY <1>6, <1>8, <2>1
  <2>2. CASE ~(kept < bl)
    <3>1. bl * BlockSize \in Nat
      OBVIOUS
    <3> QED BY <1>3, <1>4, <1>8, <2>2, <3>1
  <2> QED BY <2>1, <2>2
<1> DEFINE h == [start |-> handle.start, blocks |-> m, length |-> n]
<1>10. [handle EXCEPT !.length = n, !.blocks = Min({@, Kept(n)})] = h
  <2>1. Min({handle.blocks, Kept(n)}) = m
    BY <1>4, <1>6, <1>7
  <2>2. [handle EXCEPT !.length = n, !.blocks = Min({@, Kept(n)})]
          = [handle EXCEPT !.length = n, !.blocks = m]
    BY <1>2, <2>1 DEF Handle
  <2>3. [handle EXCEPT !.length = n, !.blocks = m] = h
    <3> DEFINE g == [handle EXCEPT !.length = n, !.blocks = m]
    <3>1. g \in [start : Block, blocks : Nat, length : Nat]
      BY <1>2, <1>3 DEF Handle
    <3>2. g.start = handle.start /\ g.blocks = m /\ g.length = n
      BY <1>2 DEF Handle
    <3> HIDE DEF g
    <3>3. g = [start |-> g.start, blocks |-> g.blocks, length |-> g.length]
      BY <3>1
    <3>4. g = h
      BY <3>2, <3>3
    <3> QED BY <3>4 DEF g
  <2> QED BY <2>2, <2>3
<1>11. /\ used' = used \ (Extent(handle) \ Extent(h)) /\ handle' = h
       /\ file' = IF kept < bl THEN [file EXCEPT !.blocks = h.blocks, !.length = n] ELSE file
  BY <1>4, <1>6, <1>10 DEF Truncate, WrittenBack
<1>12. h \in Handle /\ h.start = st /\ h.blocks = m /\ h.length = n
  <2>1. m \in 0 .. DataBlocks
    BY <1>4, <1>8
  <2> QED BY <1>2, <1>3, <1>4, <2>1 DEF Handle
<1> HIDE DEF h
<1>13. Good(h) /\ Extent(h) \subseteq Extent(handle)
  <2>1. Extent(h) = st .. st + m - 1 /\ Extent(handle) = st .. st + bl - 1
    BY <1>4, <1>12 DEF Extent, Run
  <2>2. Extent(h) \subseteq Extent(handle)
    BY <1>8, <2>1
  <2>3. st + m <= DataBlocks
    BY <1>4, <1>8
  <2> QED BY <1>9, <1>12, <2>2, <2>3 DEF Good
<1>14. file' \in Handle /\ file'.start = st /\ file'.blocks = m
  <2>1. CASE kept < bl
    <3>1. file' = [file EXCEPT !.blocks = m, !.length = n]
      BY <1>11, <1>12, <2>1
    <3>2. m \in 0 .. DataBlocks
      BY <1>4, <1>8
    <3> QED BY <1>2, <1>3, <1>5, <3>1, <3>2 DEF Handle
  <2>2. CASE ~(kept < bl)
    BY <1>2, <1>5, <1>8, <1>11, <2>2
  <2> QED BY <2>1, <2>2
<1>15. handle' # None /\ Current' = h /\ InStep'
  <2>1. handle' # None
    BY <1>8, <1>11, <1>12 DEF None
  <2> QED BY <1>8, <1>11, <1>12, <1>14, <2>1 DEF InStep, Current
<1>16. OthersUntouched'
  BY <1>1, OthersKept
<1>17. FileInv'
  <2>1. ios' \in 0 .. MaxIo
    BY <1>1, <1>2 DEF Counted
  <2>2. used' \subseteq Block /\ other' \subseteq used' /\ Extent(h) \subseteq used'
        /\ Extent(h) \cap other' = {}
    BY <1>1, <1>2, <1>11, <1>13
  <2> QED BY <1>1, <1>2, <1>11, <1>12, <1>13, <1>14, <1>15, <1>16, <2>1, <2>2, FileInvPrimed
<1>18. FileBytes' = SubSeq(FileBytes, 1, n)
  <2>1. /\ FileBytes \in Seq(Byte) /\ Len(FileBytes) = l
        /\ \A p \in Nat : p < l => FileBytes[p + 1] = ByteAt(disk, handle, p)
    BY <1>2, <1>4, LengthIs
  <2>2. /\ FileBytes' = Bytes(disk, h) /\ Bytes(disk, h) \in Seq(Byte)
        /\ Len(Bytes(disk, h)) = n
        /\ \A p \in Nat : p < n => Bytes(disk, h)[p + 1] = ByteAt(disk, h, p)
    BY <1>1, <1>2, <1>12, <1>13, <1>15, FileBytesPrimed, BytesFacts
  <2>3. \A p : ByteAt(disk, h, p) = ByteAt(disk, handle, p)
    BY <1>4, <1>12 DEF ByteAt
  <2>4. ASSUME NEW i \in 1 .. n PROVE FileBytes[i] \in Byte /\ Bytes(disk, h)[i] = FileBytes[i]
    <3>1. i - 1 \in Nat /\ i - 1 < n /\ i - 1 < l /\ (i - 1) + 1 = i /\ i \in 1 .. l
      BY <1>3, <1>4
    <3>2. Bytes(disk, h)[(i - 1) + 1] = FileBytes[(i - 1) + 1]
      BY <2>1, <2>2, <2>3, <3>1
    <3>3. FileBytes[i] \in Byte
      BY <2>1, <3>1, ElementOfSeq
    <3> QED BY <3>1, <3>2, <3>3
  <2>5. /\ SubSeq(FileBytes, 1, n) \in Seq(Byte)
        /\ Len(SubSeq(FileBytes, 1, n)) = IF 1 <= n THEN n - 1 + 1 ELSE 0
        /\ \A i \in 1 .. n - 1 + 1 : SubSeq(FileBytes, 1, n)[i] = FileBytes[1 + i - 1]
    BY <1>3, <2>4, SubSeqProperties
  <2>6. Len(SubSeq(FileBytes, 1, n)) = n
    BY <1>3, <2>5
  <2>7. ASSUME NEW i \in 1 .. n PROVE SubSeq(FileBytes, 1, n)[i] = Bytes(disk, h)[i]
    <3>1. i \in 1 .. n - 1 + 1 /\ 1 + i - 1 = i
      BY <1>3
    <3> QED BY <2>4, <2>5, <3>1
  <2> QED BY <2>2, <2>5, <2>6, <2>7, SeqEqual
<1>19. Abstract!Truncate(n)
  <2>1. ~(n > Len(FileBytes))
    BY <1>2, <1>3, <1>4, LengthIs
  <2> QED BY <1>1, <1>18, <2>1 DEF Abstract!Truncate, Abstract!Answers
<1> QED BY <1>17, <1>19

\* What other files do: they write blocks that are not in use.
LEMMA OtherTakesStep ==
  ASSUME IoInv, OtherTakes
  PROVE  FileInv' /\ FileBytes' = FileBytes
<1>1. PICK b \in FirstFit(1) :
        /\ used' = used \cup {b} /\ other' = other \cup {b}
        /\ disk' = [disk EXCEPT ![b] = [i \in 1 .. BlockSize |-> OtherByte]]
  BY DEF OtherTakes
<1>2. /\ file' = file /\ handle' = handle /\ Counted /\ Current' = Current
      /\ InStep'
  BY DEF OtherTakes, Counted, Current, InStep, IoInv, FileInv
<1>3. b \in Block /\ b \notin used
  <2>1. b \in Block /\ Run(b, 1) \cap used = {} /\ b \in Nat
    BY FirstFitFacts
  <2> QED BY <2>1 DEF Run
<1>4. /\ disk' \in Medium /\ \A c \in used : disk'[c] = disk[c]
      /\ \A i \in 1 .. BlockSize : disk'[b][i] = OtherByte
  <2>1. [i \in 1 .. BlockSize |-> OtherByte] \in [1 .. BlockSize -> Byte]
    BY DEF OtherByte, Byte
  <2> QED BY <1>1, <1>3, <2>1, IoFacts DEF Medium
<1>5. OthersUntouched'
  <2> SUFFICES ASSUME NEW c \in other', NEW i \in 1 .. BlockSize PROVE disk'[c][i] = OtherByte
    BY DEF OthersUntouched, OtherByte
  <2>1. CASE c = b
    BY <1>4, <2>1
  <2>2. CASE c \in other
    BY <1>4, <2>2, IoFacts DEF IoInv, FileInv, ExtentsConsistent, OthersUntouched
  <2> QED BY <1>1, <2>1, <2>2
<1>6. FileInv'
  <2>1. ios' \in 0 .. MaxIo
    BY <1>2, IoFacts DEF Counted
  <2>2. used' \subseteq Block /\ other' \subseteq used' /\ Extent(Current) \subseteq used'
        /\ Extent(Current) \cap other' = {}
    BY <1>1, <1>3, IoFacts
  <2> QED BY <1>2, <1>4, <1>5, <2>1, <2>2, IoFacts, FileInvPrimed
<1>7. FileBytes' = FileBytes
  <2>1. ASSUME NEW p \in Nat, p < Current.length
        PROVE  ByteAt(disk, Current, p) = ByteAt(disk', Current, p)
    <3>1. p < Current.blocks * BlockSize
      <4>1. PICK l \in Nat, bl \in Nat : l = Current.length /\ bl = Current.blocks
        BY IoFacts, HandleFacts
      <4>2. l <= bl * BlockSize /\ bl * BlockSize \in Nat
        BY <4>1, IoFacts DEF Good
      <4> QED BY <2>1, <4>1, <4>2
    <3>2. Current.start + Q(p) \in Extent(Current)
      BY <3>1, InExtent, IoFacts DEF Good
    <3> QED BY <1>4, <3>2, IoFacts DEF ByteAt
  <2>2. Bytes(disk, Current) = Bytes(disk', Current)
    BY <2>1, BytesSame, IoFacts
  <2> QED BY <1>2, <2>2, FileBytesIs, FileBytesPrimed
<1> QED BY <1>6, <1>7

LEMMA OtherLeavesStep ==
  ASSUME IoInv, OtherLeaves
  PROVE  FileInv' /\ FileBytes' = FileBytes
<1>1. /\ file' = file /\ handle' = handle /\ disk' = disk /\ Counted /\ Current' = Current
      /\ used' = used \ other /\ other' = {}
      /\ InStep'
  BY DEF OtherLeaves, Counted, Current, InStep, IoInv, FileInv
<1>2. OthersUntouched'
  BY <1>1 DEF OthersUntouched
<1>3. FileInv'
  <2>1. ios' \in 0 .. MaxIo
    BY <1>1, IoFacts DEF Counted
  <2>2. used' \subseteq Block /\ other' \subseteq used' /\ Extent(Current) \subseteq used'
        /\ Extent(Current) \cap other' = {}
    BY <1>1, IoFacts
  <2> QED BY <1>1, <1>2, <2>1, <2>2, IoFacts, FileInvPrimed
<1>4. FileBytes' = FileBytes
  BY <1>1, FileBytesIs, FileBytesPrimed
<1> QED BY <1>3, <1>4

-----------------------------------------------------------------------------

LEMMA InitIoInv == IoInit => IoInv
<1> SUFFICES ASSUME IoInit PROVE IoInv
  OBVIOUS
<1>1. IoTypeOK
  BY DEF IoInit, IoTypeOK, None, Block, Byte
<1>2. InStep /\ OthersUntouched
  BY DEF IoInit, InStep, OthersUntouched
<1>3. LongEnough /\ BlocksOwned
  BY DEF IoInit, LongEnough, BlocksOwned, Current, None, Extent, Run
<1>4. CallAllowed
  BY DEF IoInit, CallAllowed, NoCall, CallOf
<1> QED BY <1>1, <1>2, <1>3, <1>4 DEF IoInv, FileInv, ExtentsConsistent

\* The arguments of the call under way.
LEMMA CallTypes ==
  ASSUME IoInv
  PROVE  /\ call.op = "read" => call.at \in Offset /\ call.count \in Amount
         /\ call.op = "truncate" => call.at \in Offset
         /\ call.op = "write" =>
              /\ call.at \in Offset
              /\ \E n \in Amount : call.data \in Data(n) /\ InBounds(call.at, n)
<1>0. call \in Request \cup {NoCall} /\ (call.op = "write" => InBounds(call.at, Len(call.data)))
  BY DEF IoInv, CallAllowed
<1>1. CASE call \in {CallOf(op, 0, <<>>, 0) : op \in {"open", "close", "sync", "delete", "size"}}
           \/ call = NoCall
  BY <1>1 DEF CallOf, NoCall
<1>2. CASE call \in {CallOf("truncate", n, <<>>, 0) : n \in Offset}
  BY <1>2 DEF CallOf
<1>3. CASE call \in {CallOf("read", o, <<>>, n) : o \in Offset, n \in Amount}
  BY <1>3 DEF CallOf
<1>4. CASE call \in {CallOf("write", o, d, Len(d)) : o \in Offset, d \in UNION {Data(n) : n \in Amount}}
  <2>1. PICK o \in Offset, d \in UNION {Data(n) : n \in Amount} : call = CallOf("write", o, d, Len(d))
    BY <1>4
  <2>2. PICK n \in Amount : d \in Data(n)
    BY <2>1
  <2>3. call.op = "write" /\ call.at = o /\ call.data = d
    BY <2>1 DEF CallOf
  <2>4. Len(d) = n
    BY <2>2, DataFacts
  <2> QED BY <1>0, <2>2, <2>3, <2>4
<1> QED BY <1>0, <1>1, <1>2, <1>3, <1>4 DEF Request

\* Whatever ByteFile answers is an answer.
LEMMA ServeAnswers ==
  ASSUME Abstract!Serve
  PROVE  reply' # NoReply
<1>1. reply'.rc # "none"
  BY DEF Abstract!Serve, Abstract!Read, Abstract!Write, Abstract!FailedWrite, Abstract!Failed,
         Abstract!Truncate, Abstract!Size, Abstract!Other, Abstract!Remove, Abstract!Answers
<1> QED BY <1>1 DEF NoReply

\* The answer to a call, once it is known to be one of ByteFile's.
LEMMA Answered ==
  ASSUME IoInv, NEW op, op # "none", Serves(op), FileInv', Abstract!Serve
  PROVE  IoInv' /\ Abstract!Next
<1>1. call' = call /\ call.op = op /\ reply = NoReply
  BY DEF Serves
<1>2. reply' # NoReply
  BY ServeAnswers
<1>3. CallAllowed'
  BY <1>1, <1>2 DEF IoInv, CallAllowed
<1>4. Abstract!Next
  BY <1>1 DEF Abstract!Next, NoReply, Abstract!NoAnswer
<1> QED BY <1>3, <1>4 DEF IoInv

\* A step that makes no call and answers none.
LEMMA Unanswered ==
  ASSUME IoInv, FileInv', UNCHANGED <<call, reply>>, call = NoCall \/ ios' = ios
  PROVE  IoInv'
  BY DEF IoInv, CallAllowed

LEMMA MakeCallStep ==
  ASSUME IoInv, NEW c \in Request, MakeCall(c)
  PROVE  IoInv' /\ Abstract!Next
<1>1. /\ call = NoCall /\ call' = c /\ InBounds(c.at, c.count) /\ Counted /\ ios' = ios
      /\ ios < MaxIo \/ c.op \in {"read", "size"}
      /\ UNCHANGED <<disk, used, file, handle, other, reply>>
  BY DEF MakeCall, Counted
<1>2. FileInv' /\ FileBytes' = FileBytes
  BY <1>1, Stays
<1>3. c.op = "write" => c.count = Len(c.data)
  BY DEF Request, CallOf
<1>4. CallAllowed'
  BY <1>1, <1>3 DEF CallAllowed
<1>5. Abstract!Call
  BY <1>1, <1>2 DEF Abstract!Call, NoCall, CallOf, Abstract!NoCall
<1> QED BY <1>2, <1>4, <1>5 DEF IoInv, Abstract!Next

LEMMA TakeReplyStep ==
  ASSUME IoInv, TakeReply
  PROVE  IoInv' /\ Abstract!Next
<1>1. FileInv' /\ FileBytes' = FileBytes
  BY Stays DEF TakeReply, Counted
<1>2. CallAllowed'
  BY DEF TakeReply, CallAllowed, NoCall, CallOf
<1>3. Abstract!Done
  BY <1>1 DEF TakeReply, NoReply, NoCall, CallOf, Abstract!Done, Abstract!NoAnswer, Abstract!NoCall
<1> QED BY <1>1, <1>2, <1>3 DEF IoInv, Abstract!Next

\* Every call by what it is: heaven_open(), heaven_close(), xDelete and
\* heaven_sync() ...
LEMMA PlainStep ==
  ASSUME IoInv, Open \/ Create \/ CannotOpen \/ Close \/ Sync \/ Delete \/ FileSize
  PROVE  IoInv' /\ Abstract!Next
<1>1. CASE Open \/ Create
  <2>1. Serves("open")
    BY <1>1 DEF Open, Create, Calls
  <2>2. FileInv' /\ Abstract!Serve
    BY <1>1, <2>1, OpenStep, CreateStep DEF Serves, Abstract!Serve
  <2> QED BY <2>1, <2>2, Answered
<1>2. CASE CannotOpen
  <2>1. /\ Asks("open") /\ Serves("open") /\ UNCHANGED <<disk, used, file, handle, other>>
        /\ Reply("cantopen", <<>>) \/ Reply("full", <<>>)
    BY <1>2 DEF CannotOpen, Asks
  <2>2. FileInv' /\ Abstract!Serve
    BY <2>1, RefusalStep DEF Serves, Abstract!Serve
  <2> QED BY <2>1, <2>2, Answered
<1>3. CASE Close
  <2>1. Serves("close")
    BY <1>3 DEF Close, Calls
  <2>2. FileInv' /\ Abstract!Serve
    BY <1>3, <2>1, CloseStep DEF Serves, Abstract!Serve
  <2> QED BY <2>1, <2>2, Answered
<1>4. CASE Sync
  <2>1. Serves("sync")
    BY <1>4 DEF Sync, Calls
  <2>2. FileInv' /\ Abstract!Serve
    BY <1>4, <2>1, SyncStep DEF Serves, Abstract!Serve
  <2> QED BY <2>1, <2>2, Answered
<1>5. CASE Delete
  <2>1. Serves("delete")
    BY <1>5 DEF Delete, Calls
  <2>2. FileInv' /\ Abstract!Serve
    BY <1>5, <2>1, DeleteStep DEF Serves, Abstract!Serve
  <2> QED BY <2>1, <2>2, Answered
<1>6. CASE FileSize
  <2>1. Serves("size")
    BY <1>6 DEF FileSize, Asks
  <2>2. FileInv' /\ Abstract!Serve
    BY <1>6, <2>1, FileSizeStep DEF Serves, Abstract!Serve
  <2> QED BY <2>1, <2>2, Answered
<1> QED BY <1>1, <1>2, <1>3, <1>4, <1>5, <1>6

\* ... heaven_read() ...
LEMMA ReadingStep ==
  ASSUME IoInv, ReadPastEnd(call.at, call.count) \/ Read(call.at, call.count) \/ ReadFails
  PROVE  IoInv' /\ Abstract!Next
<1>1. Serves("read") /\ call.op = "read"
  BY DEF ReadPastEnd, Read, ReadFails, Asks, Serves
<1>2. call.at \in Offset /\ call.count \in Amount
  BY <1>1, CallTypes
<1>3. CASE ReadPastEnd(call.at, call.count) \/ Read(call.at, call.count)
  <2>1. FileInv' /\ Abstract!Read(call.at, call.count)
    BY <1>2, <1>3, ReadPastEndStep, ReadStep
  <2>2. Abstract!Serve
    BY <1>1, <2>1 DEF Abstract!Serve
  <2> QED BY <1>1, <2>1, <2>2, Answered
<1>4. CASE ReadFails
  <2>1. FileInv' /\ Abstract!Failed("ioerr")
    BY <1>4, RefusalStep DEF ReadFails
  <2>2. Abstract!Serve
    BY <1>1, <2>1 DEF Abstract!Serve
  <2> QED BY <1>1, <2>1, <2>2, Answered
<1> QED BY <1>3, <1>4

\* ... heaven_write() ...
LEMMA WritingStep ==
  ASSUME IoInv, \/ Write(call.at, call.data) \/ GrowAndWrite(call.at, call.data)
                \/ GrowFails(call.at, call.data) \/ NoRoom(call.at, call.data)
  PROVE  IoInv' /\ Abstract!Next
<1>1. Serves("write") /\ call.op = "write"
  BY DEF Write, GrowAndWrite, GrowFails, NoRoom, Calls, Asks, Serves
<1>2. PICK n \in Amount : call.data \in Data(n) /\ InBounds(call.at, n) /\ call.at \in Offset
  BY <1>1, CallTypes
<1>3. CASE Write(call.at, call.data) \/ GrowAndWrite(call.at, call.data) \/ GrowFails(call.at, call.data)
  <2>1. FileInv' /\ (Abstract!Write(call.at, call.data) \/ Abstract!FailedWrite(call.at, call.data))
    BY <1>2, <1>3, WriteStep, GrowAndWriteStep, GrowFailsStep
  <2>2. Abstract!Serve
    BY <1>1, <2>1 DEF Abstract!Serve
  <2> QED BY <1>1, <2>1, <2>2, Answered
<1>4. CASE NoRoom(call.at, call.data)
  <2>1. FileInv' /\ Abstract!Failed("full")
    BY <1>4, RefusalStep DEF NoRoom
  <2>2. Abstract!Serve
    BY <1>1, <2>1 DEF Abstract!Serve
  <2> QED BY <1>1, <2>1, <2>2, Answered
<1> QED BY <1>3, <1>4

\* ... and heaven_truncate().
LEMMA TruncatingStep ==
  ASSUME IoInv, Truncate(call.at) \/ TruncateLonger(call.at)
  PROVE  IoInv' /\ Abstract!Next
<1>1. Serves("truncate") /\ call.op = "truncate"
  BY DEF Truncate, TruncateLonger, Calls, Asks, Serves
<1>2. call.at \in Offset
  BY <1>1, CallTypes
<1>3. FileInv' /\ Abstract!Truncate(call.at)
  BY <1>2, TruncateStep, TruncateLongerStep
<1>4. Abstract!Serve
  BY <1>1, <1>3 DEF Abstract!Serve
<1> QED BY <1>1, <1>3, <1>4, Answered

LEMMA StepRefines ==
  ASSUME IoInv, [IoNext]_ioVars
  PROVE  IoInv' /\ [Abstract!Next]_<<FileBytes, call, reply>>
<1>1. CASE UNCHANGED ioVars
  <2>1. /\ Counted /\ UNCHANGED <<disk, used, file, handle, other>>
        /\ UNCHANGED <<call, reply>> /\ ios' = ios
    BY <1>1 DEF ioVars, Counted
  <2>2. FileInv' /\ FileBytes' = FileBytes
    BY <2>1, Stays
  <2> QED BY <2>1, <2>2, Unanswered
<1>2. CASE OtherTakes \/ OtherLeaves
  <2>1. UNCHANGED <<call, reply>> /\ call = NoCall
    BY <1>2 DEF OtherTakes, OtherLeaves
  <2>2. FileInv' /\ FileBytes' = FileBytes
    BY <1>2, OtherTakesStep, OtherLeavesStep
  <2> QED BY <2>1, <2>2, Unanswered
<1>3. CASE TakeReply
  BY <1>3, TakeReplyStep
<1>4. CASE \E c \in Request : MakeCall(c)
  BY <1>4, MakeCallStep
<1>5. CASE Open \/ Create \/ CannotOpen \/ Close \/ Sync \/ Delete \/ FileSize
  BY <1>5, PlainStep
<1>6. CASE ReadPastEnd(call.at, call.count) \/ Read(call.at, call.count) \/ ReadFails
  BY <1>6, ReadingStep
<1>7. CASE \/ Write(call.at, call.data) \/ GrowAndWrite(call.at, call.data)
           \/ GrowFails(call.at, call.data) \/ NoRoom(call.at, call.data)
  BY <1>7, WritingStep
<1>8. CASE Truncate(call.at) \/ TruncateLonger(call.at)
  BY <1>8, TruncatingStep
<1> QED BY <1>1, <1>2, <1>3, <1>4, <1>5, <1>6, <1>7, <1>8 DEF IoNext

\* The inductive invariant: handle and entry name the same extent, which is
\* the file's own and long enough.
THEOREM IoInvariance == IoSpec => []IoInv
<1>1. IoInv /\ [IoNext]_ioVars => IoInv'
  BY StepRefines
<1> QED BY <1>1, InitIoInv, PTL DEF IoSpec

\* No call of the VFS writes a block of another file, whatever the sizes of
\* blocks, device and commands, and whichever command fails.
THEOREM ExtentsCorrect == IoSpec => []ExtentsConsistent
<1>1. IoInv => ExtentsConsistent
  BY DEF IoInv, FileInv
<1> QED BY <1>1, IoInvariance, PTL

\* heaven_read(), heaven_write(), heaven_truncate() and heaven_file_size()
\* implement a file of bytes: every call, made with its offset, amount and
\* data, is answered as ByteFile answers that call, although the code moves
\* whole blocks, in pieces of at most MaxBlocksPerIo and with a growing extent.
THEOREM FileRefinement == IoSpec => IsByteFile
<1>1. IoInit => Abstract!Init
  <2> SUFFICES ASSUME IoInit PROVE Abstract!Init
    OBVIOUS
  <2>1. FileBytes = <<>>
    BY DEF IoInit, FileBytes, Current, None
  <2> QED BY <2>1 DEF IoInit, NoReply, NoCall, CallOf, Abstract!Init, Abstract!NoAnswer, Abstract!NoCall
<1>2. IoInv /\ [IoNext]_ioVars => [Abstract!Next]_<<FileBytes, call, reply>>
  BY StepRefines
<1> QED BY <1>1, <1>2, IoInvariance, PTL DEF IoSpec, IsByteFile, Abstract!Spec

-----------------------------------------------------------------------------
(* The locks of the shared memory.                                         *)

USE ShmAssumption

\* A set of naturals has a least element, and Min() is it.
LEMMA MinFacts ==
  ASSUME NEW T \in SUBSET Nat, T # {}
  PROVE  Min(T) \in T /\ \A y \in T : Min(T) <= y
<1> DEFINE Less == OpToRel(<, Nat)
<1>1. IsWellFoundedOn(Less, Nat)
  BY NatLessThanWellFounded
<1>2. \A x, y \in Nat : <<y, x>> \in Less <=> y < x
  BY DEF OpToRel
<1> HIDE DEF Less
<1>3. PICK x \in T : \A y \in T : ~(<<y, x>> \in Less)
  BY <1>1, WFMin
<1>4. ASSUME NEW y \in T PROVE x <= y
  <2>1. x \in Nat /\ y \in Nat /\ ~(y < x)
    BY <1>2, <1>3
  <2> QED BY <2>1
<1> QED BY <1>4 DEF Min

\* The greater of two numbers.
LEMMA MaxOfTwo ==
  ASSUME NEW a \in Int, NEW b \in Int
  PROVE  Max({a, b}) \in {a, b}
<1>1. \E x \in {a, b} : \A y \in {a, b} : x >= y
  OBVIOUS
<1> QED BY <1>1 DEF Max

\* The connections that share a lock.
Sharers(i) == {c \in Conn : held[c][i] = "shared"}

\* Counting them.
LEMMA SharersFacts ==
  ASSUME NEW i
  PROVE  /\ IsFiniteSet(Sharers(i)) /\ Cardinality(Sharers(i)) \in Nat
         /\ Cardinality(Sharers(i)) = 0 => Sharers(i) = {}
<1>1. IsFiniteSet(Sharers(i))
  BY FS_Subset DEF Sharers
<1> QED BY <1>1, FS_CardinalityType, FS_EmptySet

\* Each lock by itself: its state is what the connections hold of it.
LockExact(i) ==
  /\ locks[i].shared = Cardinality(Sharers(i))
  /\ locks[i].exclusive <=> \E c \in Conn : held[c][i] = "exclusive"
  /\ \A c, d \in Conn : c # d /\ held[c][i] = "exclusive" => held[d][i] = "none"

\* LocksSound says this of every lock.
LEMMA LockByLock ==
  LocksSound <=> (~misused => \A i \in LockId : LockExact(i))
BY DEF LocksSound, LocksAccounted, WriterAlone, LockExact, Sharers

\* A connection that takes a shared lock adds one to its sharers ...
LEMMA SharerAdded ==
  ASSUME NEW i \in LockId, NEW c \in Conn, held[c][i] # "shared", held'[c][i] = "shared",
         \A d \in Conn \ {c} : held'[d][i] = held[d][i]
  PROVE  Cardinality(Sharers(i)') = Cardinality(Sharers(i)) + 1
<1>1. Sharers(i)' = Sharers(i) \cup {c} /\ c \notin Sharers(i)
  BY DEF Sharers
<1> QED BY <1>1, SharersFacts, FS_AddElement

\* ... one that gives it back takes one away ...
LEMMA SharerRemoved ==
  ASSUME NEW i \in LockId, NEW c \in Conn, held[c][i] = "shared", held'[c][i] # "shared",
         \A d \in Conn \ {c} : held'[d][i] = held[d][i]
  PROVE  /\ Cardinality(Sharers(i)') = Cardinality(Sharers(i)) - 1
         /\ Cardinality(Sharers(i)) \in Nat \ {0}
<1>1. Sharers(i)' = Sharers(i) \ {c} /\ c \in Sharers(i)
  BY DEF Sharers
<1>2. Cardinality(Sharers(i)) # 0
  BY <1>1, SharersFacts
<1> QED BY <1>1, <1>2, SharersFacts, FS_RemoveElement

\* ... and other locks leave the sharers as they are.
LEMMA SharersKept ==
  ASSUME NEW i \in LockId, NEW c \in Conn, held[c][i] # "shared", held'[c][i] # "shared",
         \A d \in Conn \ {c} : held'[d][i] = held[d][i]
  PROVE  Sharers(i)' = Sharers(i)
BY DEF Sharers

\* A lock that changes neither its state nor its holders stays exact.
LEMMA LockKept ==
  ASSUME NEW i \in LockId, LockExact(i), locks'[i] = locks[i],
         \A d \in Conn : held'[d][i] = held[d][i]
  PROVE  LockExact(i)'
<1>1. Sharers(i)' = Sharers(i)
  BY DEF Sharers
<1> QED BY <1>1 DEF LockExact

\* Setting the flag of a lock.
LEMMA FlagSet ==
  ASSUME NEW l \in [shared : Nat, exclusive : BOOLEAN], NEW b \in BOOLEAN
  PROVE  /\ [l EXCEPT !.exclusive = b] = [shared |-> l.shared, exclusive |-> b]
         /\ [shared |-> l.shared, exclusive |-> b] \in [shared : Nat, exclusive : BOOLEAN]
OBVIOUS

\* The state of a lock after Taken() and Released().
LEMMA TakenFacts ==
  ASSUME NEW l \in [shared : Nat, exclusive : BOOLEAN], NEW mode \in Mode
  PROVE  /\ Taken(l, mode) \in [shared : Nat, exclusive : BOOLEAN]
         /\ mode = "shared" => Taken(l, mode) = [shared |-> l.shared + 1, exclusive |-> l.exclusive]
         /\ mode = "exclusive" => Taken(l, mode) = [shared |-> l.shared, exclusive |-> TRUE]
         /\ mode = "shared" => Released(l, mode) = [shared |-> l.shared - 1, exclusive |-> l.exclusive]
         /\ mode = "exclusive" => Released(l, mode) = [shared |-> l.shared, exclusive |-> FALSE]
<1>1. CASE mode = "shared"
  BY <1>1 DEF Taken, Released
<1>2. CASE mode = "exclusive"
  <2>1. Taken(l, mode) = [l EXCEPT !.exclusive = TRUE] /\ Released(l, mode) = [l EXCEPT !.exclusive = FALSE]
    BY <1>2 DEF Taken, Released
  <2>2. TRUE \in BOOLEAN /\ FALSE \in BOOLEAN
    BY Zenon
  <2>3. /\ [l EXCEPT !.exclusive = TRUE] = [shared |-> l.shared, exclusive |-> TRUE]
        /\ [l EXCEPT !.exclusive = FALSE] = [shared |-> l.shared, exclusive |-> FALSE]
    BY <2>2, FlagSet, Zenon
  <2>4. [shared |-> l.shared, exclusive |-> TRUE] \in [shared : Nat, exclusive : BOOLEAN]
    BY <2>2, FlagSet, Zenon
  <2> QED BY <1>2, <2>1, <2>3, <2>4
<1> QED BY <1>1, <1>2 DEF Mode

\* Taking a lock that is not held exclusively and giving it back changes nothing.
LEMMA TakenAndReleased ==
  ASSUME NEW l \in [shared : Nat, exclusive : BOOLEAN], ~l.exclusive, NEW mode \in Mode
  PROVE  Released(Taken(l, mode), mode) = l
<1>0. PICK t : t = Taken(l, mode)
  OBVIOUS
<1>1. t \in [shared : Nat, exclusive : BOOLEAN]
  BY <1>0, TakenFacts
<1>2. CASE mode = "shared"
  <2>1. t = [shared |-> l.shared + 1, exclusive |-> l.exclusive]
    BY <1>0, <1>2, TakenFacts
  <2>2. Released(t, mode) = [shared |-> t.shared - 1, exclusive |-> t.exclusive]
    BY <1>1, <1>2, TakenFacts
  <2>3. t.shared - 1 = l.shared /\ t.exclusive = l.exclusive
    BY <2>1
  <2> QED BY <1>0, <2>2, <2>3
<1>3. CASE mode = "exclusive"
  <2>1. t = [shared |-> l.shared, exclusive |-> TRUE]
    BY <1>0, <1>3, TakenFacts
  <2>2. Released(t, mode) = [shared |-> t.shared, exclusive |-> FALSE]
    BY <1>1, <1>3, TakenFacts
  <2>3. t.shared = l.shared /\ l.exclusive = FALSE
    BY <2>1
  <2>4. Released(t, mode) = [shared |-> l.shared, exclusive |-> l.exclusive]
    BY <2>2, <2>3
  <2> QED BY <1>0, <2>4
<1> QED BY <1>2, <1>3 DEF Mode

\* What Grant() does to one lock.
LEMMA GrantFacts ==
  ASSUME ShmTypeOK, NEW c \in Conn, NEW o \in LockId, NEW n \in 1 .. NLock,
         NEW mode \in Mode \cup {"none"}, Grant(c, o, n, mode)
  PROVE  /\ held' \in [Conn -> [LockId -> Mode \cup {"none"}]]
         /\ \A i \in LockId : held'[c][i] = IF i \in Named(o, n) THEN mode ELSE held[c][i]
         /\ \A d \in Conn \ {c} : held'[d] = held[d]
BY DEF ShmTypeOK, Grant

-----------------------------------------------------------------------------

\* The locks that are taken when nothing hinders it.
LEMMA TakeExact ==
  ASSUME ShmTypeOK, NEW i \in LockId, NEW c \in Conn, NEW mode \in Mode,
         LockExact(i), CanTake(i, mode), held[c][i] = "none",
         locks'[i] = Taken(locks[i], mode), held'[c][i] = mode,
         \A d \in Conn \ {c} : held'[d][i] = held[d][i]
  PROVE  LockExact(i)'
<1>1. /\ locks[i] \in [shared : Nat, exclusive : BOOLEAN]
      /\ \A d \in Conn : held[d][i] \in Mode \cup {"none"}
  BY DEF ShmTypeOK
<1>2. ~locks[i].exclusive /\ \A d \in Conn : held[d][i] # "exclusive"
  BY DEF CanTake, LockExact
<1>3. CASE mode = "shared"
  <2>1. Cardinality(Sharers(i)') = Cardinality(Sharers(i)) + 1
    BY <1>3, SharerAdded
  <2>2. locks'[i] = [shared |-> locks[i].shared + 1, exclusive |-> locks[i].exclusive]
    BY <1>1, <1>3, TakenFacts
  <2>3. \A d \in Conn : held'[d][i] # "exclusive"
    BY <1>2, <1>3
  <2> QED BY <1>2, <2>1, <2>2, <2>3 DEF LockExact
<1>4. CASE mode = "exclusive"
  <2>1. locks[i].shared = 0 /\ Sharers(i) = {}
    BY <1>4, SharersFacts DEF CanTake, LockExact
  <2>2. \A d \in Conn : held[d][i] = "none"
    BY <1>1, <1>2, <2>1 DEF Sharers, Mode
  <2>3. Sharers(i)' = Sharers(i)
    BY <1>4, SharersKept
  <2>4. locks'[i] = [shared |-> locks[i].shared, exclusive |-> TRUE]
    BY <1>1, <1>4, TakenFacts
  <2>5. \A d \in Conn \ {c} : held'[d][i] = "none"
    BY <2>2
  <2> QED BY <1>4, <2>3, <2>4, <2>5 DEF LockExact
<1> QED BY <1>3, <1>4 DEF Mode

\* The locks that are given back by one who holds them.
LEMMA GiveBackExact ==
  ASSUME ShmTypeOK, NEW i \in LockId, NEW c \in Conn, NEW mode \in Mode,
         LockExact(i), held[c][i] = mode,
         locks'[i] = Released(locks[i], mode), held'[c][i] = "none",
         \A d \in Conn \ {c} : held'[d][i] = held[d][i]
  PROVE  /\ LockExact(i)'
         /\ locks'[i] \in [shared : Nat, exclusive : BOOLEAN]
<1>1. /\ locks[i] \in [shared : Nat, exclusive : BOOLEAN]
      /\ \A d \in Conn : held[d][i] \in Mode \cup {"none"}
  BY DEF ShmTypeOK
<1>2. CASE mode = "shared"
  <2>1. /\ Cardinality(Sharers(i)') = Cardinality(Sharers(i)) - 1
        /\ Cardinality(Sharers(i)) \in Nat \ {0}
    BY <1>2, SharerRemoved
  <2>2. locks'[i] = [shared |-> locks[i].shared - 1, exclusive |-> locks[i].exclusive]
    BY <1>1, <1>2, TakenFacts
  <2>3. \A d \in Conn : held[d][i] # "exclusive" /\ held'[d][i] # "exclusive"
    BY <1>2 DEF LockExact
  <2>4. locks[i].shared - 1 \in Nat
    BY <2>1 DEF LockExact
  <2> QED BY <1>1, <2>1, <2>2, <2>3, <2>4 DEF LockExact
<1>3. CASE mode = "exclusive"
  <2>1. \A d \in Conn : held'[d][i] = "none"
    BY <1>3 DEF LockExact
  <2>2. Sharers(i)' = Sharers(i)
    BY <1>3, SharersKept
  <2>3. locks'[i] = [shared |-> locks[i].shared, exclusive |-> FALSE]
    BY <1>1, <1>3, TakenFacts
  <2> QED BY <1>1, <2>1, <2>2, <2>3 DEF LockExact
<1> QED BY <1>2, <1>3 DEF Mode

-----------------------------------------------------------------------------
(* The steps, one lemma for each.                                          *)

\* The first state.
LEMMA ShmInitExact == ShmInit => LocksExact
<1> SUFFICES ASSUME ShmInit PROVE LocksExact
  OBVIOUS
<1>1. ShmTypeOK
  <2>1. Free \in [shared : Nat, exclusive : BOOLEAN] /\ misused \in BOOLEAN
    <3>1. 0 \in Nat
      OBVIOUS
    <3> QED BY <3>1, Zenon DEF ShmInit, Free
  <2>2. regions \in -1 .. MaxRegions
    BY DEF ShmInit
  <2>3. Nothing \in [LockId -> Mode \cup {"none"}]
    BY DEF Nothing
  <2> QED BY <2>1, <2>2, <2>3 DEF ShmInit, ShmTypeOK
<1>2. \A i \in LockId : Sharers(i) = {}
  BY DEF ShmInit, Sharers, Nothing
<1>3. Cardinality({}) = 0
  BY FS_EmptySet
<1>4. \A i \in LockId : LockExact(i)
  BY <1>2, <1>3 DEF ShmInit, LockExact, Nothing, Free
<1> QED BY <1>1, <1>4, LockByLock DEF LocksExact

\* A step that changes only the regions.
LEMMA LocksUntouched ==
  ASSUME LocksExact, UNCHANGED <<locks, held, misused>>, regions' \in -1 .. MaxRegions
  PROVE  LocksExact'
<1>1. ShmTypeOK'
  BY DEF LocksExact, ShmTypeOK
<1>2. LocksSound'
  BY DEF LocksExact, LocksSound, LocksAccounted, WriterAlone
<1> QED BY <1>1, <1>2 DEF LocksExact

\* shm_lock() that gets the whole range.
LEMMA ShmLockInv ==
  ASSUME LocksExact, ~misused, NEW c \in Conn, NEW o \in LockId, NEW n \in 1 .. NLock,
         NEW mode \in Mode, ShmLock(c, o, n, mode)
  PROVE  LocksExact'
<1>1. ShmTypeOK /\ (\A i \in LockId : LockExact(i))
  BY LockByLock DEF LocksExact
<1>2. Grant(c, o, n, mode)
  BY DEF ShmLock
<1>3. ShmTypeOK'
  <2>1. held' \in [Conn -> [LockId -> Mode \cup {"none"}]]
    BY <1>1, <1>2, GrantFacts
  <2>2. \A i \in LockId : Taken(locks[i], mode) \in [shared : Nat, exclusive : BOOLEAN]
    BY <1>1, TakenFacts DEF ShmTypeOK
  <2> QED BY <1>1, <2>1, <2>2 DEF ShmTypeOK, ShmLock
<1>4. ASSUME NEW i \in LockId PROVE LockExact(i)'
  <2>1. /\ held'[c][i] = IF i \in Named(o, n) THEN mode ELSE held[c][i]
        /\ \A d \in Conn \ {c} : held'[d][i] = held[d][i]
    BY <1>1, <1>2, GrantFacts
  <2>2. CASE i \in Named(o, n)
    <3>1. CanTake(i, mode) /\ held[c][i] = "none" /\ locks'[i] = Taken(locks[i], mode)
      BY <2>2 DEF ShmLock, Blocked, Holds
    <3> QED BY <1>1, <2>1, <2>2, <3>1, TakeExact
  <2>3. CASE i \notin Named(o, n)
    BY <1>1, <2>1, <2>3, LockKept DEF ShmLock
  <2> QED BY <2>2, <2>3
<1>5. LocksSound'
  BY <1>4 DEF LocksSound, LocksAccounted, WriterAlone, LockExact, Sharers
<1> QED BY <1>3, <1>5 DEF LocksExact

\* shm_lock() with the flag of unlocking.
LEMMA ShmUnlockInv ==
  ASSUME LocksExact, ~misused, NEW c \in Conn, NEW o \in LockId, NEW n \in 1 .. NLock,
         NEW mode \in Mode, ShmUnlock(c, o, n, mode)
  PROVE  LocksExact'
<1>1. ShmTypeOK /\ (\A i \in LockId : LockExact(i))
  BY LockByLock DEF LocksExact
<1>2. Grant(c, o, n, "none")
  BY DEF ShmUnlock
<1>3. ASSUME NEW i \in LockId
      PROVE  LockExact(i)' /\ locks'[i] \in [shared : Nat, exclusive : BOOLEAN]
  <2>1. /\ held'[c][i] = IF i \in Named(o, n) THEN "none" ELSE held[c][i]
        /\ \A d \in Conn \ {c} : held'[d][i] = held[d][i]
    BY <1>1, <1>2, GrantFacts
  <2>2. CASE i \in Named(o, n)
    <3>1. held[c][i] = mode /\ locks'[i] = Released(locks[i], mode)
      BY <2>2 DEF ShmUnlock, Holds
    <3> QED BY <1>1, <2>1, <2>2, <3>1, GiveBackExact
  <2>3. CASE i \notin Named(o, n)
    <3>1. locks'[i] = locks[i]
      BY <2>3 DEF ShmUnlock
    <3> QED BY <1>1, <2>1, <2>3, <3>1, LockKept DEF ShmTypeOK
  <2> QED BY <2>2, <2>3
<1>4. ShmTypeOK'
  <2>1. held' \in [Conn -> [LockId -> Mode \cup {"none"}]]
    BY <1>1, <1>2, GrantFacts
  <2>2. locks' = [i \in LockId |-> locks'[i]]
    BY DEF ShmUnlock
  <2> QED BY <1>1, <1>3, <2>1, <2>2 DEF ShmTypeOK, ShmUnlock
<1>5. LocksSound'
  BY <1>3 DEF LocksSound, LocksAccounted, WriterAlone, LockExact, Sharers
<1> QED BY <1>4, <1>5 DEF LocksExact

\* A call that must stop has taken the free locks before that one, and gives
\* just these back: it leaves no trace.
LEMMA BusyRestores ==
  ASSUME ShmTypeOK, NEW c \in Conn, NEW o \in LockId, NEW n \in 1 .. NLock,
         NEW mode \in Mode, ShmBusy(c, o, n, mode)
  PROVE  locks' = locks
<1> DEFINE stop == Min(Blocked(o, n, mode))
<1>1. Blocked(o, n, mode) \in SUBSET Nat /\ Blocked(o, n, mode) # {}
  BY DEF ShmBusy, Blocked, Named, LockId
<1>2. stop \in Blocked(o, n, mode) /\ \A j \in Blocked(o, n, mode) : stop <= j
  BY <1>1, MinFacts
<1>3. locks' = [j \in LockId |-> IF j \in o .. stop - 1
                                 THEN Released(Taken(locks[j], mode), mode) ELSE locks[j]]
  BY DEF ShmBusy
<1> HIDE DEF stop
<1>4. ASSUME NEW j \in LockId, j \in o .. stop - 1
      PROVE  Released(Taken(locks[j], mode), mode) = locks[j]
  <2>1. j \in Named(o, n) /\ j \notin Blocked(o, n, mode)
    BY <1>2, <1>4 DEF Blocked, Named, LockId
  <2>2. CanTake(j, mode)
    BY <2>1 DEF Blocked
  <2>3. locks[j] \in [shared : Nat, exclusive : BOOLEAN]
    BY DEF ShmTypeOK
  <2>4. ~locks[j].exclusive
    BY <2>2 DEF CanTake
  <2> QED BY <2>3, <2>4, TakenAndReleased
<1>5. locks' = [j \in LockId |-> locks[j]]
  BY <1>3, <1>4
<1> QED BY <1>5 DEF ShmTypeOK

\* shm_lock() that returns SQLITE_BUSY.
LEMMA ShmBusyInv ==
  ASSUME LocksExact, ~misused, NEW c \in Conn, NEW o \in LockId, NEW n \in 1 .. NLock,
         NEW mode \in Mode, ShmBusy(c, o, n, mode)
  PROVE  LocksExact'
<1>1. locks' = locks
  BY BusyRestores DEF LocksExact
<1>2. UNCHANGED <<regions, held, misused>>
  BY DEF ShmBusy
<1> QED BY <1>1, <1>2, LocksUntouched DEF LocksExact, ShmTypeOK

\* shm_lock() past the last lock, the end of the behaviours that are followed.
LEMMA ShmPastLastInv ==
  ASSUME LocksExact, ~misused, NEW c \in Conn, NEW o \in LockId, NEW n \in 1 .. NLock,
         NEW mode \in Mode, ShmPastLast(c, o, n, mode)
  PROVE  LocksExact'
<1>1. \A i \in LockId : Taken(locks[i], mode) \in [shared : Nat, exclusive : BOOLEAN]
  BY TakenFacts DEF LocksExact, ShmTypeOK
<1>2. ShmTypeOK'
  BY <1>1 DEF LocksExact, ShmTypeOK, ShmPastLast
<1> QED BY <1>2 DEF LocksExact, LocksSound, LocksAccounted, WriterAlone, ShmPastLast

\* shm_map().
LEMMA ShmMapInv ==
  ASSUME LocksExact, ~misused, NEW r \in 0 .. MaxRegions, ShmMap(r)
  PROVE  LocksExact'
<1>1. PICK k \in 0 .. r + 1 : regions' = Max({regions, k})
  BY DEF ShmMap
<1>2. regions \in -1 .. MaxRegions /\ k \in 0 .. MaxRegions
  BY DEF LocksExact, ShmTypeOK, ShmMap
<1>3. regions' \in {regions, k}
  BY <1>1, <1>2, MaxOfTwo
<1>4. regions' \in -1 .. MaxRegions
  BY <1>2, <1>3
<1> QED BY <1>4, LocksUntouched DEF LocksExact, ShmMap

\* shm_unmap(), when no connection holds a lock.
LEMMA ShmUnmapInv ==
  ASSUME LocksExact, ~misused, NEW c \in Conn, ShmUnmap(c)
  PROVE  LocksExact'
<1>1. ShmTypeOK'
  BY DEF LocksExact, ShmTypeOK, ShmUnmap, Free
<1>2. ASSUME ~misused', NEW i \in LockId PROVE LockExact(i)'
  <2>1. \A d \in Conn : held'[d] = Nothing
    BY <1>2 DEF ShmUnmap
  <2>2. Sharers(i)' = {}
    BY <2>1 DEF Sharers, Nothing
  <2>3. Cardinality({}) = 0
    BY FS_EmptySet
  <2> QED BY <2>1, <2>2, <2>3 DEF LockExact, Nothing, ShmUnmap, Free
<1>3. LocksSound'
  BY <1>2 DEF LocksSound, LocksAccounted, WriterAlone, LockExact, Sharers
<1> QED BY <1>1, <1>3 DEF LocksExact

-----------------------------------------------------------------------------

\* shm_lock() and shm_unmap() keep a readers-writer lock per slot for every
\* number of connections and slots: the counters are exact, a writer is alone,
\* and a call that returns SQLITE_BUSY half way leaves nothing locked.
THEOREM LocksCorrect == ShmSpec => []LocksExact
<1>1. LocksExact /\ [ShmNext]_shm => LocksExact'
  <2> SUFFICES ASSUME LocksExact, [ShmNext]_shm PROVE LocksExact'
    OBVIOUS
  <2>1. CASE UNCHANGED shm
    BY <2>1, LocksUntouched DEF shm, LocksExact, ShmTypeOK
  <2>2. CASE ShmNext
    BY <2>2, ShmLockInv, ShmBusyInv, ShmPastLastInv, ShmUnlockInv, ShmMapInv, ShmUnmapInv
       DEF ShmNext
  <2> QED BY <2>1, <2>2
<1> QED BY <1>1, ShmInitExact, PTL DEF ShmSpec
=============================================================================
