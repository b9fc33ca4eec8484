---------------------------- MODULE MemoryProofs ----------------------------
(***************************************************************************)
(* The two allocators of memory proved: SlabHeap for every list of size    *)
(* classes, every number of pages and clients, PhysAllocator for every     *)
(* memory map, every number and size of pages and all requests.            *)
(***************************************************************************)
EXTENDS SlabHeap, PhysAllocator, SequenceTheorems, FiniteSetTheorems, WellFoundedInduction,
        NaturalsInduction, TLAPS


-----------------------------------------------------------------------------
(* The kernel heap: arithmetic.                                            *)

\* Division with remainder.
LEMMA IntDivMod ==
  ASSUME NEW a \in Int, NEW n \in Nat \ {0}
  PROVE  /\ a \div n \in Int /\ a % n \in 0 .. n - 1
         /\ a = n * (a \div n) + (a % n)
  BY Z3T(30)

\* The assumption, in parts.
LEMMA Sizes ==
  /\ PageWords \in Nat \ {0} /\ PageCount \in Nat /\ HeaderSize \in Nat
  /\ Len(Class) \in Nat /\ \A k \in ClassIdx : Class[k] \in Nat /\ Class[k] >= 1
  /\ \A n \in Request : n \in Nat /\ n >= 1
<1>1. Len(Class) \in Nat /\ \A k \in 1 .. Len(Class) : Class[k] \in Nat \ {0}
  BY SlabHeapAssumption, LenProperties, ElementOfSeq
<1> QED BY <1>1, SlabHeapAssumption DEF ClassIdx

\* Multiplication by a positive number keeps the order.
LEMMA TimesOrder ==
  ASSUME NEW n \in Nat \ {0}, NEW a \in Int, NEW b \in Int, a < b
  PROVE  n * a + n <= n * b /\ n * a \in Int /\ n * b \in Int
<1>1. n * (a + 1) <= n * b
  BY Z3T(30)
<1>2. n * (a + 1) = n * a + n
  BY Z3T(30)
<1> QED BY <1>1, <1>2

\* Quotient and remainder are the only ones.
LEMMA DivModUnique ==
  ASSUME NEW a \in Int, NEW n \in Nat \ {0}, NEW q \in Int, NEW r \in 0 .. n - 1,
         a = n * q + r
  PROVE  a \div n = q /\ a % n = r
<1> DEFINE p == a \div n
           s == a % n
<1>1. p \in Int /\ s \in 0 .. n - 1 /\ a = n * p + s
  BY IntDivMod
<1> HIDE DEF p, s
<1>2. n * p \in Int /\ n * q \in Int
  BY <1>1
<1>3. ~(p < q)
  BY <1>1, <1>2, TimesOrder
<1>4. ~(q < p)
  BY <1>1, <1>2, TimesOrder
<1>5. p = q
  BY <1>1, <1>3, <1>4
<1>6. s = r
  <2>1. n * p = n * q
    BY <1>5
  <2> QED BY <1>1, <1>2, <2>1
<1> QED BY <1>5, <1>6 DEF p, s

\* Even numbers.
LEMMA EvenSum ==
  ASSUME NEW a \in Int, NEW b \in Int, a % 2 = 0, b % 2 = 0
  PROVE  (a + b) % 2 = 0
<1>1. PICK p \in Int, q \in Int : a = 2 * p + 0 /\ b = 2 * q + 0
  <2>1. a \div 2 \in Int /\ b \div 2 \in Int /\ a = 2 * (a \div 2) + (a % 2)
        /\ b = 2 * (b \div 2) + (b % 2)
    BY IntDivMod
  <2> QED BY <2>1
<1>2. a + b = 2 * (p + q) + 0 /\ p + q \in Int /\ a + b \in Int
  BY <1>1
<1> QED BY <1>2, DivModUnique

LEMMA EvenTimes ==
  ASSUME NEW a \in Int, NEW b \in Int, b % 2 = 0
  PROVE  (a * b) % 2 = 0
<1>1. PICK q \in Int : b = 2 * q
  <2>1. b \div 2 \in Int /\ b = 2 * (b \div 2) + (b % 2)
    BY IntDivMod
  <2> QED BY <2>1
<1>2. a * b = 2 * (a * q) /\ a * q \in Int /\ a * b \in Int
  BY <1>1, Z3T(30)
<1>3. PICK x \in Int, y \in Int : x = a * b /\ y = a * q
  BY <1>2
<1>4. x = 2 * y + 0 /\ 0 \in 0 .. 2 - 1
  BY <1>2, <1>3
<1>5. x % 2 = 0
  BY <1>4, DivModUnique
<1> QED BY <1>3, <1>5

\* The page of a word.
PageOf(w) == w \div PageWords

LEMMA PageOfIs ==
  ASSUME NEW w \in Int, NEW f \in Int
  PROVE  w \in Span(f * PageWords, PageWords) <=> PageOf(w) = f
<1>0. PageWords \in Nat \ {0} /\ f * PageWords = PageWords * f /\ PageWords * f \in Int
  BY Sizes
<1>1. ASSUME w \in Span(f * PageWords, PageWords) PROVE PageOf(w) = f
  <2>1. w - PageWords * f \in 0 .. PageWords - 1 /\ w = PageWords * f + (w - PageWords * f)
    BY <1>0, <1>1 DEF Span
  <2> QED BY <1>0, <2>1, DivModUnique DEF PageOf
<1>2. ASSUME PageOf(w) = f PROVE w \in Span(f * PageWords, PageWords)
  <2>1. w = PageWords * f + (w % PageWords) /\ w % PageWords \in 0 .. PageWords - 1
    BY <1>0, <1>2, IntDivMod DEF PageOf
  <2> QED BY <1>0, <2>1 DEF Span
<1> QED BY <1>1, <1>2

\* The words of n pages from f on.
LEMMA PagesOfRun ==
  ASSUME NEW w \in Int, NEW f \in Int, NEW n \in Nat
  PROVE  w \in Span(f * PageWords, n * PageWords) <=> PageOf(w) \in Span(f, n)
<1>0. PageWords \in Nat \ {0}
  BY Sizes
<1>1. PICK q \in Int, r \in 0 .. PageWords - 1 : q = PageOf(w) /\ w = PageWords * q + r
  BY <1>0, IntDivMod DEF PageOf
<1>2. PICK x \in Int, y \in Int, z \in Int :
        x = PageWords * q /\ y = PageWords * f /\ z = PageWords * (f + n)
  BY <1>0
<1>3. f * PageWords = y /\ n * PageWords = z - y /\ w = x + r
  <2>1. f * PageWords = PageWords * f /\ n * PageWords = PageWords * (f + n) - PageWords * f
    BY <1>0, Z3T(30)
  <2> QED BY <1>1, <1>2, <2>1
<1>4. q < f => x + PageWords <= y
  BY <1>0, <1>2, TimesOrder
<1>5. f < q => y + PageWords <= x
  BY <1>0, <1>2, TimesOrder
<1>6. q < f + n => x + PageWords <= z
  BY <1>0, <1>2, TimesOrder
<1>7. f + n < q => z + PageWords <= x
  BY <1>0, <1>2, TimesOrder
<1>8. (q = f => x = y) /\ (q = f + n => x = z)
  BY <1>2
<1>9. w \in y .. y + (z - y) - 1 <=> q \in f .. f + n - 1
  BY <1>0, <1>1, <1>3, <1>4, <1>5, <1>6, <1>7, <1>8
<1> QED BY <1>1, <1>3, <1>9 DEF Span

\* A word of memory is in a page of memory.
LEMMA AddrPage ==
  ASSUME NEW w \in Int
  PROVE  w \in Addr <=> PageOf(w) \in HeapPage
<1>0. PageWords \in Nat \ {0} /\ PageCount \in Nat
  BY Sizes
<1>1. 0 * PageWords = 0 /\ PageCount * PageWords \in Nat
  BY <1>0
<1>2. w \in Span(0 * PageWords, PageCount * PageWords) <=> PageOf(w) \in Span(0, PageCount)
  BY <1>0, PagesOfRun
<1>3. Span(0 * PageWords, PageCount * PageWords) = Addr
  BY <1>1 DEF Span, Addr
<1>4. Span(0, PageCount) = HeapPage
  BY <1>0 DEF Span, HeapPage
<1> QED BY <1>2, <1>3, <1>4

\* The memory of the free pages.
LEMMA PageMemoryIs ==
  ASSUME NEW h, h.pages \subseteq HeapPage, NEW w \in Int
  PROVE  w \in PageMemory(h) <=> PageOf(w) \in h.pages
<1>1. \A p \in h.pages : w \in Span(p * PageWords, PageWords) <=> PageOf(w) = p
  BY PageOfIs DEF HeapPage
<1> QED BY <1>1 DEF PageMemory

-----------------------------------------------------------------------------
(* What a heap is made of.                                                 *)

LEMMA HeapFields ==
  ASSUME NEW h, HeapType(h)
  PROVE  /\ h.pages \subseteq HeapPage /\ h.free_list \in [ClassIdx -> Seq(Addr)]
         /\ h.header \in [Addr -> [size : Nat, class : ClassIdx \cup {Large}]]
         /\ h.memory \in [Addr -> Client \cup {Nobody}]
         /\ \A a \in Addr : h.header[a].size \in Nat /\ h.header[a].class \in ClassIdx \cup {Large}
<1>1. /\ h.pages \subseteq HeapPage /\ h.free_list \in [ClassIdx -> Seq(Addr)]
      /\ h.header \in [Addr -> [size : Nat, class : ClassIdx \cup {Large}]]
      /\ h.memory \in [Addr -> Client \cup {Nobody}]
  BY DEF HeapType
<1>2. ASSUME NEW a \in Addr
      PROVE  h.header[a].size \in Nat /\ h.header[a].class \in ClassIdx \cup {Large}
  <2>1. h.header[a] \in [size : Nat, class : ClassIdx \cup {Large}]
    BY <1>1
  <2> QED BY <2>1
<1> QED BY <1>1, <1>2

LEMMA AddrInt == Addr \subseteq Int /\ HeapPage \subseteq Int /\ Large \notin ClassIdx
  BY Sizes DEF Addr, HeapPage, Large, ClassIdx

\* The words of a block: its header's, and at least one more, the first.
LEMMA ChunkFacts ==
  ASSUME NEW h, HeapType(h), NEW p, HeaderTrue(h, p)
  PROVE  /\ p \in Int /\ p - HeaderSize \in Int /\ UsableSize(h, p) \in Nat
         /\ ChunkOf(h, p) = p - HeaderSize .. p + UsableSize(h, p) - 1
         /\ p - HeaderSize <= p
<1>1. p \in Int /\ p - HeaderSize \in Addr /\ HeaderSize \in Nat
  BY AddrInt, Sizes DEF HeaderTrue
<1>2. UsableSize(h, p) \in Nat
  BY <1>1, HeapFields DEF UsableSize
<1>3. p - HeaderSize + (HeaderSize + UsableSize(h, p)) - 1 = p + UsableSize(h, p) - 1
  BY <1>1, <1>2
<1> QED BY <1>1, <1>2, <1>3 DEF ChunkOf, Span

\* A block has room for a word.
LEMMA HasWord ==
  ASSUME NEW h, HeapType(h), NEW p, HeaderTrue(h, p), h.header[p - HeaderSize].class \in ClassIdx
  PROVE  UsableSize(h, p) >= 1 /\ p \in ChunkOf(h, p) /\ p - HeaderSize \in ChunkOf(h, p)
<1>1. UsableSize(h, p) = Class[h.header[p - HeaderSize].class]
  BY AddrInt DEF HeaderTrue, UsableSize
<1>2. UsableSize(h, p) \in Nat /\ UsableSize(h, p) >= 1
  BY <1>1, Sizes
<1>3. ChunkOf(h, p) = p - HeaderSize .. p + UsableSize(h, p) - 1 /\ p \in Int /\ HeaderSize \in Nat
  BY ChunkFacts, Sizes
<1> QED BY <1>2, <1>3

\* The first word of a block is one of its own.
LEMMA FirstWord ==
  ASSUME NEW h, HeapType(h), NEW p, HeaderTrue(h, p)
  PROVE  p - HeaderSize \in ChunkOf(h, p)
<1>1. CASE h.header[p - HeaderSize].class \in ClassIdx
  BY <1>1, HasWord
<1>2. CASE h.header[p - HeaderSize].class = Large
  <2>1. PICK f \in HeapPage, n \in 1 .. PageCount :
          h.header[p - HeaderSize].size + HeaderSize = n * PageWords
    BY <1>2, AddrInt DEF HeaderTrue
  <2>2. n * PageWords >= 1 /\ n * PageWords \in Nat
    BY Sizes, Z3T(30)
  <2>3. PICK u \in Nat : u = UsableSize(h, p) /\ u + HeaderSize >= 1
    BY <2>1, <2>2, ChunkFacts DEF UsableSize
  <2>4. ChunkOf(h, p) = p - HeaderSize .. p + u - 1 /\ p \in Int /\ HeaderSize \in Nat
    BY <2>3, ChunkFacts, Sizes
  <2> QED BY <2>3, <2>4
<1>3. h.header[p - HeaderSize].class \in ClassIdx \cup {Large}
  BY HeapFields DEF HeaderTrue
<1> QED BY <1>1, <1>2, <1>3

\* In a heap where p keeps its header, p keeps its words.
LEMMA SameChunk ==
  ASSUME NEW h, NEW g, NEW p, g.header[p - HeaderSize] = h.header[p - HeaderSize]
  PROVE  ChunkOf(g, p) = ChunkOf(h, p) /\ (HeaderTrue(h, p) => HeaderTrue(g, p))
         /\ UsableSize(g, p) = UsableSize(h, p)
  BY DEF ChunkOf, UsableSize, HeaderTrue

\* Blocks keep their headers, and those in use their words.
Keeps(g, h, U) ==
  \A q \in U : /\ g.header[q - HeaderSize] = h.header[q - HeaderSize]
               /\ \A w \in ChunkOf(h, q) : g.memory[w] = h.memory[w]

\* Lists.
LEMMA ListFacts ==
  ASSUME NEW h, HeapType(h), NEW k \in ClassIdx
  PROVE  h.free_list[k] \in Seq(Addr) /\ Listed(h, k) \subseteq Addr /\ Len(h.free_list[k]) \in Nat
<1>1. h.free_list[k] \in Seq(Addr)
  BY HeapFields
<1>2. Len(h.free_list[k]) \in Nat /\ \A j \in 1 .. Len(h.free_list[k]) : h.free_list[k][j] \in Addr
  BY <1>1, LenProperties, ElementOfSeq
<1> QED BY <1>1, <1>2 DEF Listed

Distinct(s) == \A i0, j \in 1 .. Len(s) : s[i0] = s[j] => i0 = j
Elems(s) == {s[j] : j \in 1 .. Len(s)}

LEMMA TailList ==
  ASSUME NEW s \in Seq(Addr), s # <<>>, Distinct(s)
  PROVE  /\ Tail(s) \in Seq(Addr) /\ Distinct(Tail(s))
         /\ Head(s) \in Elems(s) /\ Elems(Tail(s)) = Elems(s) \ {Head(s)}
<1>1. /\ Tail(s) \in Seq(Addr) /\ Len(s) \in Nat /\ Len(s) >= 1 /\ Len(Tail(s)) = Len(s) - 1
      /\ \A i0 \in 1 .. Len(Tail(s)) : Tail(s)[i0] = s[i0 + 1]
      /\ Head(s) = s[1]
  BY HeadTailProperties, EmptySeq, LenProperties
<1>2. PICK n \in Nat : n = Len(s) /\ n >= 1
  BY <1>1
<1>3. ASSUME NEW i0 \in 1 .. n - 1, NEW j \in 1 .. n - 1, Tail(s)[i0] = Tail(s)[j] PROVE i0 = j
  <2>1. i0 + 1 \in 1 .. n /\ j + 1 \in 1 .. n /\ s[i0 + 1] = s[j + 1]
    BY <1>1, <1>2, <1>3
  <2>2. i0 + 1 = j + 1
    BY <1>2, <2>1 DEF Distinct
  <2> QED BY <2>2
<1>4. Head(s) \in Elems(s)
  BY <1>1, <1>2 DEF Elems
<1>5. ASSUME NEW x \in Elems(Tail(s)) PROVE x \in Elems(s) /\ x # Head(s)
  <2>1. PICK i0 \in 1 .. n - 1 : x = Tail(s)[i0]
    BY <1>1, <1>2 DEF Elems
  <2>2. x = s[i0 + 1] /\ i0 + 1 \in 1 .. n /\ 1 \in 1 .. n /\ i0 + 1 # 1
    BY <1>1, <1>2, <2>1
  <2> QED BY <1>1, <1>2, <2>2 DEF Elems, Distinct
<1>6. ASSUME NEW x \in Elems(s), x # Head(s) PROVE x \in Elems(Tail(s))
  <2>1. PICK i0 \in 1 .. n : x = s[i0]
    BY <1>2 DEF Elems
  <2>2. i0 # 1
    BY <1>1, <1>6, <2>1
  <2>3. i0 - 1 \in 1 .. n - 1 /\ (i0 - 1) + 1 = i0
    BY <1>2, <2>2
  <2>4. x = Tail(s)[i0 - 1]
    BY <1>1, <1>2, <2>1, <2>3
  <2> QED BY <1>1, <1>2, <2>3, <2>4 DEF Elems
<1> QED BY <1>1, <1>2, <1>3, <1>4, <1>5, <1>6 DEF Distinct

LEMMA ConsList ==
  ASSUME NEW s \in Seq(Addr), Distinct(s), NEW p \in Addr, p \notin Elems(s)
  PROVE  /\ <<p>> \o s \in Seq(Addr) /\ Distinct(<<p>> \o s)
         /\ Elems(<<p>> \o s) = Elems(s) \cup {p}
<1>1. PICK n \in Nat : n = Len(s)
  BY LenProperties
<1>2. <<p>> \in Seq(Addr) /\ Len(<<p>>) = 1 /\ <<p>>[1] = p
  OBVIOUS
<1> DEFINE t == <<p>> \o s
<1>3. /\ t \in Seq(Addr) /\ Len(t) = 1 + n
      /\ \A i0 \in 1 .. 1 + n : t[i0] = IF i0 <= 1 THEN <<p>>[i0] ELSE s[i0 - 1]
  BY <1>1, <1>2, ConcatProperties
<1> HIDE DEF t
<1>4. t[1] = p
  BY <1>2, <1>3
<1>5. ASSUME NEW i0 \in 1 .. 1 + n, i0 # 1 PROVE t[i0] = s[i0 - 1] /\ i0 - 1 \in 1 .. n
  BY <1>3, <1>5
<1>6. \A j \in 1 .. n : j + 1 \in 1 .. 1 + n /\ j + 1 # 1 /\ (j + 1) - 1 = j
  BY <1>1
<1>7. Elems(t) = Elems(s) \cup {p}
  <2>1. ASSUME NEW x \in Elems(t) PROVE x \in Elems(s) \cup {p}
    BY <1>1, <1>3, <1>4, <1>5 DEF Elems
  <2>2. ASSUME NEW x \in Elems(s) PROVE x \in Elems(t)
    <3>1. PICK j \in 1 .. n : x = s[j]
      BY <1>1 DEF Elems
    <3>2. t[j + 1] = s[(j + 1) - 1] /\ j + 1 \in 1 .. 1 + n
      BY <1>5, <1>6
    <3> QED BY <1>3, <1>6, <3>1, <3>2 DEF Elems
  <2>3. p \in Elems(t)
    BY <1>3, <1>4 DEF Elems
  <2> QED BY <2>1, <2>2, <2>3
<1>8. ASSUME NEW i0 \in 1 .. 1 + n, NEW j \in 1 .. 1 + n, t[i0] = t[j] PROVE i0 = j
  <2>1. \A m \in 1 .. n : s[m] # p
    BY <1>1 DEF Elems
  <2>2. CASE i0 = 1 \/ j = 1
    BY <1>4, <1>5, <1>8, <2>1, <2>2
  <2>3. CASE i0 # 1 /\ j # 1
    <3>1. s[i0 - 1] = s[j - 1] /\ i0 - 1 \in 1 .. n /\ j - 1 \in 1 .. n
      BY <1>5, <1>8, <2>3
    <3>2. i0 - 1 = j - 1
      BY <1>1, <3>1 DEF Distinct
    <3> QED BY <3>2
  <2> QED BY <2>2, <2>3
<1> QED BY <1>3, <1>7, <1>8 DEF t, Distinct

\* What ListsTrue says, list by list.
LEMMA ListsTrueIs ==
  ASSUME NEW h
  PROVE  /\ ListsTrue(h) <=> \A k \in ClassIdx :
              /\ Distinct(h.free_list[k])
              /\ \A p \in Listed(h, k) : h.header[p - HeaderSize].class = k
         /\ \A k \in ClassIdx : Listed(h, k) = Elems(h.free_list[k])
  BY DEF ListsTrue, Distinct, Listed, Elems

\* One list is replaced.
Replaced(g, h, k, t) ==
  g.free_list[k] = t /\ \A j \in ClassIdx \ {k} : g.free_list[j] = h.free_list[j]

LEMMA ListReplaced ==
  ASSUME NEW h, NEW k \in ClassIdx, NEW t, NEW g, Replaced(g, h, k, t)
  PROVE  Listed(g, k) = Elems(t) /\ \A j \in ClassIdx \ {k} : Listed(g, j) = Listed(h, j)
  BY DEF Replaced, Listed, Elems

\* The heap g after a step from the sound heap h in which the blocks of N were
\* made in free pages, and others kept their headers.
Follows(g, V, h, U, N) ==
  /\ HeapType(g) /\ ListsTrue(g) /\ FreeIn(g) \cap V = {}
  /\ FreeIn(g) \cup V \subseteq (FreeIn(h) \cup U) \cup N
  /\ \A q \in (FreeIn(g) \cup V) \ N :
       /\ g.header[q - HeaderSize] = h.header[q - HeaderSize]
       /\ ChunkOf(h, q) \cap PageMemory(g) = {}
  /\ \A q \in N :
       /\ HeaderTrue(g, q) /\ ChunkOf(g, q) \subseteq PageMemory(h)
       /\ ChunkOf(g, q) \subseteq Addr \ PageMemory(g)
  /\ \A p, q \in N : p # q => ChunkOf(g, p) \cap ChunkOf(g, q) = {}

LEMMA SoundFrom ==
  ASSUME NEW h, NEW U, Sound(h, U), NEW g, NEW V, NEW N, Follows(g, V, h, U, N)
  PROVE  Sound(g, V)
<1>1. ASSUME NEW q \in FreeIn(g) \cup V, q \notin N
      PROVE  /\ q \in FreeIn(h) \cup U /\ HeaderTrue(g, q) /\ ChunkOf(g, q) = ChunkOf(h, q)
             /\ ChunkOf(g, q) \subseteq Addr \ PageMemory(g)
             /\ ChunkOf(g, q) \cap PageMemory(h) = {}
  <2>1. q \in FreeIn(h) \cup U /\ g.header[q - HeaderSize] = h.header[q - HeaderSize]
        /\ ChunkOf(h, q) \cap PageMemory(g) = {}
    BY <1>1 DEF Follows
  <2>2. HeaderTrue(h, q) /\ ChunkOf(h, q) \subseteq Addr \ PageMemory(h)
    BY <2>1 DEF Sound
  <2>3. HeaderTrue(g, q) /\ ChunkOf(g, q) = ChunkOf(h, q)
    BY <2>1, <2>2, SameChunk
  <2> QED BY <2>1, <2>2, <2>3
<1>2. \A q \in FreeIn(g) \cup V : HeaderTrue(g, q) /\ ChunkOf(g, q) \subseteq Addr \ PageMemory(g)
  BY <1>1 DEF Follows
<1>3. ASSUME NEW p \in FreeIn(g) \cup V, NEW q \in FreeIn(g) \cup V, p # q
      PROVE  ChunkOf(g, p) \cap ChunkOf(g, q) = {}
  <2>1. CASE p \in N /\ q \in N
    BY <1>3, <2>1 DEF Follows
  <2>2. CASE p \notin N /\ q \notin N
    <3>1. ChunkOf(h, p) \cap ChunkOf(h, q) = {}
      BY <1>1, <1>3, <2>2 DEF Sound
    <3> QED BY <1>1, <2>2, <3>1
  <2>3. CASE p \in N /\ q \notin N
    BY <1>1, <2>3 DEF Follows
  <2>4. CASE p \notin N /\ q \in N
    BY <1>1, <2>4 DEF Follows
  <2> QED BY <2>1, <2>2, <2>3, <2>4
<1> QED BY <1>2, <1>3 DEF Sound, Follows

\* What is known of the blocks of a sound heap.
LEMMA SoundFacts ==
  ASSUME NEW h, NEW U, Sound(h, U)
  PROVE  /\ HeapType(h) /\ ListsTrue(h) /\ FreeIn(h) \cap U = {}
         /\ \A q \in FreeIn(h) \cup U :
              /\ HeaderTrue(h, q) /\ ChunkOf(h, q) \subseteq Addr
              /\ ChunkOf(h, q) \cap PageMemory(h) = {}
         /\ \A p, q \in FreeIn(h) \cup U : p # q => ChunkOf(h, p) \cap ChunkOf(h, q) = {}
  BY DEF Sound

LEMMA ListedIsFree ==
  ASSUME NEW h, NEW k \in ClassIdx, NEW p \in Listed(h, k)
  PROVE  p \in FreeIn(h)
  BY DEF FreeIn

-----------------------------------------------------------------------------
(* alloc() from a list.                                                    *)

LEMMA PopType ==
  ASSUME NEW s, HeapType(s), NEW k \in ClassIdx, s.free_list[k] # <<>>
  PROVE  LET g == [s EXCEPT !.free_list[k] = Tail(@)]
         IN  /\ HeapType(g) /\ Replaced(g, s, k, Tail(s.free_list[k]))
             /\ g.pages = s.pages /\ g.header = s.header /\ g.memory = s.memory
<1> DEFINE g == [s EXCEPT !.free_list[k] = Tail(@)]
<1>1. s.free_list \in [ClassIdx -> Seq(Addr)] /\ s.free_list[k] \in Seq(Addr)
  BY HeapFields
<1>2. Tail(s.free_list[k]) \in Seq(Addr)
  BY <1>1, HeadTailProperties
<1>3. s \in [pages : SUBSET HeapPage,
         free_list : [ClassIdx -> Seq(Addr)],
         header : [Addr -> [size : Nat, class : ClassIdx \cup {Large}]],
         memory : [Addr -> Client \cup {Nobody}]]
  BY DEF HeapType
<1>4. /\ g.free_list = [s.free_list EXCEPT ![k] = Tail(s.free_list[k])]
      /\ g.pages = s.pages /\ g.header = s.header /\ g.memory = s.memory
  BY <1>3
<1>5. [s.free_list EXCEPT ![k] = Tail(s.free_list[k])] \in [ClassIdx -> Seq(Addr)]
  BY <1>1, <1>2
<1>6. g \in [pages : SUBSET HeapPage,
         free_list : [ClassIdx -> Seq(Addr)],
         header : [Addr -> [size : Nat, class : ClassIdx \cup {Large}]],
         memory : [Addr -> Client \cup {Nobody}]]
  BY <1>3, <1>5
<1> QED BY <1>1, <1>4, <1>6 DEF HeapType, Replaced

LEMMA PopChunk ==
  ASSUME NEW s, NEW U, Sound(s, U), NEW k \in ClassIdx, s.free_list[k] # << >>,
         NEW g, HeapType(g), NEW t, t = Tail(s.free_list[k]), Replaced(g, s, k, t),
         g.pages = s.pages, g.header = s.header, NEW p, p = Head(s.free_list[k])
  PROVE  Sound(g, U \cup {p}) /\ p \in Listed(s, k) /\ p \notin U
<1>1. HeapType(s) /\ ListsTrue(s)
  BY SoundFacts
<1>3. s.free_list[k] \in Seq(Addr) /\ Distinct(s.free_list[k]) /\ Listed(s, k) = Elems(s.free_list[k])
  BY <1>1, ListFacts, ListsTrueIs
<1>4. Distinct(t) /\ p \in Listed(s, k) /\ Elems(t) = Listed(s, k) \ {p}
  BY <1>3, TailList
<1>5. Listed(g, k) = Elems(t) /\ \A j \in ClassIdx \ {k} : Listed(g, j) = Listed(s, j)
  BY ListReplaced
<1>6. \A j \in ClassIdx : \A q \in Listed(s, j) : s.header[q - HeaderSize].class = j
  BY <1>1, ListsTrueIs
<1>7. ListsTrue(g)
  <2>1. ASSUME NEW j \in ClassIdx
        PROVE  Distinct(g.free_list[j])
               /\ \A q \in Listed(g, j) : g.header[q - HeaderSize].class = j
    BY <1>1, <1>4, <1>5, <1>6, ListsTrueIs DEF Replaced
  <2> QED BY <2>1, ListsTrueIs
<1>8. FreeIn(g) \subseteq FreeIn(s) /\ p \notin FreeIn(g) /\ p \in FreeIn(s)
  <2>1. ASSUME NEW j \in ClassIdx, NEW q \in Listed(g, j) PROVE q \in Listed(s, j) /\ q # p
    BY <1>4, <1>5, <1>6
  <2> QED BY <1>4, <2>1 DEF FreeIn
<1>9. PageMemory(g) = PageMemory(s)
  BY DEF PageMemory
<1>10. Sound(g, U \cup {p})
  <2>1. p \notin U /\ FreeIn(g) \cap (U \cup {p}) = {}
    BY <1>8, SoundFacts
  <2>2. FreeIn(g) \cup (U \cup {p}) \subseteq (FreeIn(s) \cup U) \cup {}
    BY <1>8
  <2>3. \A q \in (FreeIn(g) \cup (U \cup {p})) \ {} :
           /\ g.header[q - HeaderSize] = s.header[q - HeaderSize]
           /\ ChunkOf(s, q) \cap PageMemory(g) = {}
    BY <1>9, <2>2, SoundFacts
  <2>4. Follows(g, U \cup {p}, s, U, {})
    BY <1>7, <2>1, <2>2, <2>3 DEF Follows
  <2> QED BY <2>4, SoundFrom
<1>11. p \notin U
  BY <1>8, SoundFacts
<1> QED BY <1>4, <1>10, <1>11

-----------------------------------------------------------------------------
(* refill_class().                                                         *)

\* The words of the block at a with s usable words.
Words(a, s) == a - HeaderSize .. a + s - 1

\* As many chunks as fit.
LEMMA Entries ==
  ASSUME NEW k \in ClassIdx
  PROVE  /\ EntrySize(k) \in Nat \ {0} /\ EntriesPerPage(k) \in Nat
         /\ EntrySize(k) * EntriesPerPage(k) \in Int
         /\ EntrySize(k) * EntriesPerPage(k) <= PageWords
         /\ EntrySize(k) <= PageWords => EntriesPerPage(k) # 0
<1>1. EntrySize(k) \in Nat \ {0} /\ PageWords \in Int /\ PageWords >= 1
  BY Sizes DEF EntrySize
<1>2. PICK s \in Nat \ {0} : s = EntrySize(k)
  BY <1>1
<1>3. PageWords \div s \in Int /\ PageWords % s \in 0 .. s - 1
      /\ PageWords = s * (PageWords \div s) + (PageWords % s)
  BY <1>1, <1>2, IntDivMod, Zenon
<1>4. PICK q \in Int : q = PageWords \div s
  BY <1>3
<1>5. PICK r \in 0 .. s - 1 : r = PageWords % s
  BY <1>3
<1>6. PageWords = s * q + r /\ s * q \in Int /\ s * 0 = 0
  <2>1. PageWords = s * q + r
    BY <1>3, <1>4, <1>5, Zenon
  <2>2. s * q \in Int /\ s * 0 = 0
    OBVIOUS
  <2> QED BY <2>1, <2>2
<1>7. q < 0 => s * q + s <= s * 0
  BY <1>2, <1>4, TimesOrder
<1>8. q \in Nat
  <2>1. PICK x \in Int : x = s * q /\ PageWords = x + r
    BY <1>6
  <2>2. q < 0 => x + s <= 0
    BY <1>6, <1>7, <2>1
  <2>3. ~(q < 0)
    BY <1>1, <2>1, <2>2
  <2> QED BY <2>3
<1>9. s <= PageWords => q # 0
  BY <1>1, <1>2, <1>5, <1>6
<1>10. s * q <= PageWords
  BY <1>1, <1>2, <1>5, <1>6
<1>11. EntriesPerPage(k) = q
  BY <1>2, <1>4 DEF EntriesPerPage
<1> QED BY <1>1, <1>2, <1>6, <1>8, <1>9, <1>10, <1>11

\* The chunks of a page lie in it, apart from each other, those of two words
\* or more at even addresses.
LEMMA ChunkPlace ==
  ASSUME NEW p \in HeapPage, NEW k \in ClassIdx, NEW e \in 1 .. EntriesPerPage(k),
         NEW a, a = Chunks(p, k)[e]
  PROVE  /\ a \in Addr /\ a - HeaderSize \in Addr
         /\ \A w \in Words(a, Class[k]) : w \in Addr /\ PageOf(w) = p
         /\ Class[k] >= 2 => a % 2 = 0
<1> DEFINE S == EntrySize(k)
           n == EntriesPerPage(k)
           i0 == n - e
<1>1. /\ p \in Int /\ Class[k] \in Nat /\ Class[k] >= 1 /\ HeaderSize \in Nat
      /\ PageWords \in Nat \ {0} /\ S \in Nat \ {0} /\ S = Class[k] + HeaderSize
  BY Sizes, AddrInt DEF EntrySize
<1>2. n \in Int /\ i0 \in Int /\ S * n <= PageWords /\ S * n \in Int
  BY Entries
<1>3. a = p * PageWords + i0 * S + HeaderSize
  BY DEF Chunks
<1> HIDE DEF S, n, i0
<1>5. S * i0 + S <= S * n /\ S * i0 \in Int
  <2>1. i0 < n
    BY <1>2 DEF i0, n
  <2> QED BY <1>1, <1>2, <2>1, TimesOrder
<1>6. 0 <= S * i0
  <2>1. 0 <= i0 /\ i0 \in Nat
    BY <1>2 DEF i0, n
  <2>2. S * i0 \in Nat
    BY <1>1, <2>1
  <2> QED BY <2>2
<1>7. PICK b \in Int, x \in Int : b = p * PageWords /\ x = S * i0 /\ i0 * S = x
  <2>1. i0 * S = S * i0
    BY <1>1, <1>2
  <2> QED BY <1>1, <1>5, <2>1
<1>8. a = b + x + HeaderSize /\ 0 <= x /\ x + S <= PageWords
  BY <1>1, <1>2, <1>3, <1>5, <1>6, <1>7
<1>9. ASSUME NEW w \in Words(a, Class[k]) PROVE w \in Addr /\ PageOf(w) = p
  <2>1. w \in Int /\ w \in b .. b + PageWords - 1
    BY <1>1, <1>8, <1>9 DEF Words
  <2>2. PageOf(w) = p
    BY <1>1, <1>7, <2>1, PageOfIs DEF Span
  <2> QED BY <2>1, <2>2, AddrPage
<1>10. a \in Words(a, Class[k]) /\ a - HeaderSize \in Words(a, Class[k])
  BY <1>1, <1>8 DEF Words
<1>11. ASSUME Class[k] >= 2 PROVE a % 2 = 0
  <2>1. Class[k] % 2 = 0 /\ HeaderSize % 2 = 0 /\ PageWords % 2 = 0
    BY <1>11, SlabHeapAssumption
  <2>2. S % 2 = 0
    BY <1>1, <2>1, EvenSum
  <2>3. b % 2 = 0 /\ x % 2 = 0
    <3>1. (p * PageWords) % 2 = 0 /\ (i0 * S) % 2 = 0
      <4>1. p \in Int /\ PageWords \in Int /\ i0 \in Int /\ S \in Int
        BY <1>1, <1>2
      <4> QED BY <2>1, <2>2, <4>1, EvenTimes
    <3> QED BY <1>7, <3>1
  <2>4. (b + x) % 2 = 0 /\ b + x \in Int
    BY <1>7, <2>3, EvenSum
  <2>5. (b + x + HeaderSize) % 2 = 0
    <3>1. HeaderSize \in Int
      BY <1>1
    <3> QED BY <2>1, <2>4, <3>1, EvenSum
  <2> QED BY <1>8, <2>5
<1> QED BY <1>9, <1>10, <1>11

LEMMA ChunksApart ==
  ASSUME NEW p \in HeapPage, NEW k \in ClassIdx,
         NEW e \in 1 .. EntriesPerPage(k), NEW f \in 1 .. EntriesPerPage(k), e < f
  PROVE  Words(Chunks(p, k)[e], Class[k]) \cap Words(Chunks(p, k)[f], Class[k]) = {}
<1> DEFINE S == EntrySize(k)
           n == EntriesPerPage(k)
<1>1. /\ p \in Int /\ Class[k] \in Nat /\ Class[k] >= 1 /\ HeaderSize \in Nat
      /\ PageWords \in Nat \ {0} /\ S \in Nat \ {0} /\ S = Class[k] + HeaderSize
  BY Sizes, AddrInt DEF EntrySize
<1>2. n \in Int
  BY Entries
<1>3. /\ Chunks(p, k)[e] = p * PageWords + (n - e) * S + HeaderSize
      /\ Chunks(p, k)[f] = p * PageWords + (n - f) * S + HeaderSize
  BY DEF Chunks
<1> HIDE DEF S, n
<1>4. PICK b \in Int, x \in Int, y \in Int : b = p * PageWords /\ x = S * (n - e) /\ y = S * (n - f)
  BY <1>1, <1>2
<1>5. y + S <= x
  <2>1. n - f < n - e /\ n - f \in Int /\ n - e \in Int
    BY <1>2
  <2> QED BY <1>1, <1>4, <2>1, TimesOrder
<1>6. (n - e) * S = x /\ (n - f) * S = y
  BY <1>1, <1>2, <1>4
<1>7. Chunks(p, k)[e] = b + x + HeaderSize /\ Chunks(p, k)[f] = b + y + HeaderSize
  BY <1>3, <1>4, <1>6
<1> QED BY <1>1, <1>4, <1>5, <1>7 DEF Words

\* The list of the chunks of a page.
LEMMA ChunksList ==
  ASSUME NEW p \in HeapPage, NEW k \in ClassIdx
  PROVE  /\ Chunks(p, k) \in Seq(Addr) /\ Len(Chunks(p, k)) = EntriesPerPage(k)
         /\ EntriesPerPage(k) \in Nat /\ Distinct(Chunks(p, k))
         /\ \A a, b \in Elems(Chunks(p, k)) : a # b => Words(a, Class[k]) \cap Words(b, Class[k]) = {}
<1>1. EntriesPerPage(k) \in Nat
  BY Entries
<1>2. \A e \in 1 .. EntriesPerPage(k) : Chunks(p, k)[e] \in Addr
  BY ChunkPlace
<1>3. DOMAIN Chunks(p, k) = 1 .. EntriesPerPage(k)
      /\ Chunks(p, k) = [e \in 1 .. EntriesPerPage(k) |-> Chunks(p, k)[e]]
  BY DEF Chunks
<1>4. Chunks(p, k) \in Seq(Addr) /\ Len(Chunks(p, k)) = EntriesPerPage(k)
  BY <1>1, <1>2, <1>3, SeqDef
<1>5. ASSUME NEW e \in 1 .. EntriesPerPage(k), NEW f \in 1 .. EntriesPerPage(k), e # f
      PROVE  Words(Chunks(p, k)[e], Class[k]) \cap Words(Chunks(p, k)[f], Class[k]) = {}
  <2>1. CASE e < f
    BY <2>1, ChunksApart
  <2>2. CASE f < e
    BY <2>2, ChunksApart
  <2> QED BY <1>1, <1>5, <2>1, <2>2
<1>6. ASSUME NEW e \in 1 .. EntriesPerPage(k) PROVE Chunks(p, k)[e] \in Words(Chunks(p, k)[e], Class[k])
  <2>1. Chunks(p, k)[e] \in Int
    BY <1>2, AddrInt
  <2> QED BY <2>1, Sizes DEF Words
<1>7. Distinct(Chunks(p, k))
  BY <1>4, <1>5, <1>6 DEF Distinct
<1>8. \A a, b \in Elems(Chunks(p, k)) : a # b => Words(a, Class[k]) \cap Words(b, Class[k]) = {}
  BY <1>4, <1>5 DEF Elems
<1> QED BY <1>1, <1>4, <1>7, <1>8

LEMMA ClobberedFacts ==
  ASSUME NEW m \in [Addr -> Client \cup {Nobody}], NEW at
  PROVE  /\ Clobbered(m, at) \in [Addr -> Client \cup {Nobody}]
         /\ \A w \in Addr : w \notin at => Clobbered(m, at)[w] = m[w]
  BY DEF Clobbered

\* What refill_class() makes of the parts of the heap.
LEMMA RefilledFields ==
  ASSUME NEW h, HeapType(h), NEW k \in ClassIdx, NEW p \in h.pages, h.free_list[k] = << >>,
         NEW g, g = Refilled(h, p, k), NEW N, N = Elems(Chunks(p, k))
  PROVE  /\ HeapType(g) /\ g.pages = h.pages \ {p} /\ Replaced(g, h, k, Chunks(p, k))
         /\ \A a \in Addr : g.header[a] = IF a + HeaderSize \in N
                                            THEN [size |-> Class[k], class |-> k] ELSE h.header[a]
         /\ \A w \in Addr : PageOf(w) # p => g.memory[w] = h.memory[w]
<1>0. /\ h.pages \subseteq HeapPage /\ h.free_list \in [ClassIdx -> Seq(Addr)]
      /\ h.header \in [Addr -> [size : Nat, class : ClassIdx \cup {Large}]]
      /\ h.memory \in [Addr -> Client \cup {Nobody}]
  BY HeapFields
<1>1. /\ p \in HeapPage /\ Chunks(p, k) \in Seq(Addr) /\ Len(Chunks(p, k)) = EntriesPerPage(k)
  BY <1>0, ChunksList
<1>2. Chunks(p, k) \o << >> = Chunks(p, k)
  BY <1>1, ConcatEmptySeq
<1> DEFINE at == UNION {Span(a - HeaderSize, HeaderSize + 1) : a \in N}
           P == h.pages \ {p}
           L == [h.free_list EXCEPT ![k] = Chunks(p, k) \o @]
           H == [a \in Addr |-> IF a + HeaderSize \in N
                                  THEN [size |-> Class[k], class |-> k] ELSE h.header[a]]
           M == Clobbered(h.memory, at)
<1>3. {Chunks(p, k)[e] : e \in 1 .. EntriesPerPage(k)} = N
  BY <1>1 DEF Elems
<1>4. g = [pages |-> P, free_list |-> L, header |-> H, memory |-> M]
  BY <1>3 DEF Refilled
<1>5. P \in SUBSET HeapPage
  BY <1>0
<1>6. L \in [ClassIdx -> Seq(Addr)] /\ L[k] = Chunks(p, k)
      /\ \A j \in ClassIdx \ {k} : L[j] = h.free_list[j]
  BY <1>0, <1>1, <1>2
<1>7. H \in [Addr -> [size : Nat, class : ClassIdx \cup {Large}]]
  <2>1. [size |-> Class[k], class |-> k] \in [size : Nat, class : ClassIdx \cup {Large}]
    BY Sizes
  <2> QED BY <1>0, <2>1
<1>8. M \in [Addr -> Client \cup {Nobody}] /\ \A w \in Addr : w \notin at => M[w] = h.memory[w]
  BY <1>0, ClobberedFacts, ZenonT(40)
<1>9. ASSUME NEW w \in at PROVE PageOf(w) = p
  <2>1. PICK e \in 1 .. EntriesPerPage(k) : w \in Span(Chunks(p, k)[e] - HeaderSize, HeaderSize + 1)
    BY <1>3
  <2>2. PICK a \in Int : a = Chunks(p, k)[e] /\ \A v \in Words(a, Class[k]) : PageOf(v) = p
    BY <1>1, ChunkPlace, AddrInt
  <2>3. w \in Words(a, Class[k])
    BY <2>1, <2>2, Sizes DEF Words, Span
  <2> QED BY <2>2, <2>3
<1> HIDE DEF at, P, L, H, M
<1>10. HeapType(g) /\ g.pages = P /\ g.free_list = L /\ g.header = H /\ g.memory = M
  <2>1. g \in [pages : SUBSET HeapPage, free_list : [ClassIdx -> Seq(Addr)],
               header : [Addr -> [size : Nat, class : ClassIdx \cup {Large}]],
               memory : [Addr -> Client \cup {Nobody}]]
    BY <1>4, <1>5, <1>6, <1>7, <1>8
  <2>2. g.pages = P /\ g.free_list = L /\ g.header = H /\ g.memory = M
    BY <1>4
  <2> QED BY <2>1, <2>2 DEF HeapType
<1>11. Replaced(g, h, k, Chunks(p, k))
  BY <1>6, <1>10 DEF Replaced
<1>12. \A a \in Addr : g.header[a] = IF a + HeaderSize \in N
                                       THEN [size |-> Class[k], class |-> k] ELSE h.header[a]
  BY <1>10 DEF H
<1>13. \A w \in Addr : PageOf(w) # p => g.memory[w] = h.memory[w]
  BY <1>8, <1>9, <1>10
<1> QED BY <1>10, <1>11, <1>12, <1>13 DEF P

\* The memory of the pages when some are taken.
LEMMA PagesTaken ==
  ASSUME NEW h, HeapType(h), NEW g, HeapType(g), g.pages \subseteq h.pages, NEW w \in Addr
  PROVE  /\ w \in PageMemory(g) => w \in PageMemory(h)
         /\ w \in PageMemory(h) <=> PageOf(w) \in h.pages
         /\ w \in PageMemory(g) <=> PageOf(w) \in g.pages
  BY PageMemoryIs, AddrInt, HeapFields

\* A block in use or on a list has its first word, and no chunk of a page.
LEMMA RefillSound ==
  ASSUME NEW h, NEW U, Sound(h, U), NEW k \in ClassIdx, NEW p \in h.pages, h.free_list[k] = << >>,
         NEW g, g = Refilled(h, p, k)
  PROVE  Sound(g, U) /\ Keeps(g, h, U) /\ g.free_list[k] = Chunks(p, k)
<1>0. PICK N : N = Elems(Chunks(p, k))
  OBVIOUS
<1>1. HeapType(h) /\ ListsTrue(h) /\ p \in HeapPage
  BY SoundFacts, HeapFields
<1>2. /\ HeapType(g) /\ g.pages = h.pages \ {p} /\ Replaced(g, h, k, Chunks(p, k))
      /\ \A a \in Addr : g.header[a] = IF a + HeaderSize \in N
                                         THEN [size |-> Class[k], class |-> k] ELSE h.header[a]
      /\ \A w \in Addr : PageOf(w) # p => g.memory[w] = h.memory[w]
  BY <1>0, <1>1, RefilledFields
<1>3. ASSUME NEW a \in N
      PROVE  /\ a \in Addr /\ a - HeaderSize \in Addr
             /\ \A w \in Words(a, Class[k]) : w \in Addr /\ PageOf(w) = p
             /\ Class[k] >= 2 => a % 2 = 0
  <2>1. PICK e \in 1 .. EntriesPerPage(k) : a = Chunks(p, k)[e]
    BY <1>0, <1>1, ChunksList DEF Elems
  <2> QED BY <1>1, <2>1, ChunkPlace
<1>4. ASSUME NEW a \in N
      PROVE  /\ g.header[a - HeaderSize].size = Class[k] /\ g.header[a - HeaderSize].class = k
             /\ ChunkOf(g, a) = Words(a, Class[k]) /\ HeaderTrue(g, a)
  <2>1. a \in Addr /\ a - HeaderSize \in Addr /\ a \in Int /\ HeaderSize \in Nat
    BY <1>3, AddrInt, Sizes
  <2>2. (a - HeaderSize) + HeaderSize = a
    BY <2>1
  <2>3. g.header[a - HeaderSize] = [size |-> Class[k], class |-> k]
    BY <1>2, <2>1, <2>2
  <2>4. g.header[a - HeaderSize].size = Class[k] /\ g.header[a - HeaderSize].class = k
    BY <2>3
  <2>5. HeaderTrue(g, a)
    BY <1>3, <2>1, <2>4 DEF HeaderTrue
  <2>6. UsableSize(g, a) = Class[k]
    BY <2>4 DEF UsableSize
  <2> QED BY <1>2, <2>4, <2>5, <2>6, ChunkFacts DEF Words
<1>5. ASSUME NEW q \in FreeIn(h) \cup U
      PROVE  /\ q \notin N /\ g.header[q - HeaderSize] = h.header[q - HeaderSize]
             /\ ChunkOf(h, q) \cap PageMemory(g) = {}
             /\ \A w \in ChunkOf(h, q) : w \in Addr /\ PageOf(w) # p
  <2>1. HeaderTrue(h, q) /\ ChunkOf(h, q) \subseteq Addr /\ ChunkOf(h, q) \cap PageMemory(h) = {}
    BY SoundFacts
  <2>2. \A w \in ChunkOf(h, q) : w \in Addr /\ PageOf(w) # p /\ w \notin PageMemory(g)
    BY <1>1, <1>2, <2>1, PagesTaken
  <2>3. q - HeaderSize \in ChunkOf(h, q) /\ q - HeaderSize \in Addr /\ q \in Int
    BY <1>1, <2>1, <2>2, FirstWord, ChunkFacts
  <2>4. q \notin N
    <3>1. SUFFICES ASSUME q \in N PROVE FALSE
      OBVIOUS
    <3>2. q - HeaderSize \in Words(q, Class[k])
      BY <2>3, Sizes DEF Words
    <3> QED BY <1>3, <2>2, <2>3, <3>1, <3>2
  <2>5. (q - HeaderSize) + HeaderSize = q
    BY <2>3, Sizes
  <2> QED BY <1>2, <2>2, <2>3, <2>4, <2>5
<1>6. Listed(g, k) = N /\ \A j \in ClassIdx \ {k} : Listed(g, j) = Listed(h, j)
  BY <1>0, <1>2, ListReplaced
<1>7. FreeIn(g) \subseteq FreeIn(h) \cup N
  BY <1>6 DEF FreeIn
<1>8. ListsTrue(g)
  <2>1. ASSUME NEW j \in ClassIdx
        PROVE  Distinct(g.free_list[j])
               /\ \A q \in Listed(g, j) : g.header[q - HeaderSize].class = j
    <3>1. CASE j = k
      BY <1>1, <1>2, <1>4, <1>6, <3>1, ChunksList DEF Replaced
    <3>2. CASE j # k
      <4>1. Listed(g, j) = Listed(h, j) /\ g.free_list[j] = h.free_list[j]
        BY <1>2, <1>6, <3>2 DEF Replaced
      <4>2. \A q \in Listed(h, j) : g.header[q - HeaderSize] = h.header[q - HeaderSize]
        BY <1>5, ListedIsFree
      <4> QED BY <1>1, <4>1, <4>2, ListsTrueIs
    <3> QED BY <3>1, <3>2
  <2> QED BY <2>1, ListsTrueIs
<1>9. FreeIn(g) \cap U = {} /\ FreeIn(g) \cup U \subseteq (FreeIn(h) \cup U) \cup N
  <2>1. FreeIn(h) \cap U = {}
    BY SoundFacts
  <2> QED BY <1>5, <1>7, <2>1
<1>10. \A q \in N : /\ HeaderTrue(g, q) /\ ChunkOf(g, q) \subseteq PageMemory(h)
                    /\ ChunkOf(g, q) \subseteq Addr \ PageMemory(g)
  BY <1>1, <1>2, <1>3, <1>4, PagesTaken
<1>11. \A a, b \in N : a # b => ChunkOf(g, a) \cap ChunkOf(g, b) = {}
  <2>1. \A a, b \in N : a # b => Words(a, Class[k]) \cap Words(b, Class[k]) = {}
    BY <1>0, <1>1, ChunksList
  <2> QED BY <1>4, <2>1, Zenon
<1>12. Follows(g, U, h, U, N)
  BY <1>2, <1>5, <1>8, <1>9, <1>10, <1>11 DEF Follows
<1>13. Keeps(g, h, U)
  BY <1>2, <1>5 DEF Keeps
<1> QED BY <1>2, <1>12, <1>13, SoundFrom DEF Replaced

-----------------------------------------------------------------------------
(* alloc() of whole pages.                                                 *)

\* Rounding up to pages.
LEMMA RoundedUp ==
  ASSUME NEW x \in Nat, x >= 1, NEW m, m = (x + PageWords - 1) \div PageWords
  PROVE  m \in Nat /\ m >= 1 /\ m * PageWords >= x /\ m * PageWords \in Nat
<1>1. PageWords \in Nat \ {0} /\ x + PageWords - 1 \in Int
  BY Sizes
<1>2. /\ (x + PageWords - 1) \div PageWords \in Int
      /\ (x + PageWords - 1) % PageWords \in 0 .. PageWords - 1
      /\ x + PageWords - 1 = PageWords * ((x + PageWords - 1) \div PageWords)
                             + ((x + PageWords - 1) % PageWords)
  BY <1>1, IntDivMod, Zenon
<1>3. PICK r \in 0 .. PageWords - 1 : r = (x + PageWords - 1) % PageWords
  BY <1>2
<1>4. m \in Int /\ x + PageWords - 1 = PageWords * m + r
  BY <1>2, <1>3, Zenon
<1>5. PICK z \in Int : z = PageWords * m /\ m * PageWords = z /\ PageWords * 0 = 0
  BY <1>1, <1>4
<1>6. z >= x
  BY <1>1, <1>3, <1>4, <1>5
<1>7. m < 0 => z + PageWords <= 0
  <2>1. 0 \in Int /\ (m < 0 => PageWords * m + PageWords <= PageWords * 0)
    BY <1>1, <1>4, TimesOrder
  <2> QED BY <1>5, <2>1
<1>8. m = 0 => z = 0
  BY <1>5
<1> QED BY <1>1, <1>4, <1>5, <1>6, <1>7, <1>8

\* What a large allocation makes of the parts of the heap.
LEMMA CarvedFields ==
  ASSUME NEW h, HeapType(h), NEW n \in Nat, n >= 1, NEW m, m = LargePages(n),
         NEW p \in FreeRuns(h, m), NEW g, g = Carved(h, p, n)
  PROVE  /\ HeapType(g) /\ g.pages = h.pages \ Span(p, m) /\ g.free_list = h.free_list
         /\ p * PageWords \in Addr /\ p \in HeapPage /\ m \in 1 .. PageCount
         /\ m * PageWords \in Nat /\ m * PageWords >= n + HeaderSize
         /\ g.header[p * PageWords].size = m * PageWords - HeaderSize
         /\ g.header[p * PageWords].class = Large
         /\ \A a \in Addr : a # p * PageWords => g.header[a] = h.header[a]
         /\ \A w \in Addr : w \notin Span(p * PageWords, HeaderSize) => g.memory[w] = h.memory[w]
<1>0. /\ h.pages \subseteq HeapPage /\ h.free_list \in [ClassIdx -> Seq(Addr)]
      /\ h.header \in [Addr -> [size : Nat, class : ClassIdx \cup {Large}]]
      /\ h.memory \in [Addr -> Client \cup {Nobody}]
  BY HeapFields
<1>1. p \in HeapPage /\ Span(p, m) \subseteq h.pages /\ p \in Int
  BY AddrInt DEF FreeRuns
<1>2. m \in Nat /\ m >= 1 /\ m * PageWords >= n + HeaderSize /\ m * PageWords \in Nat
  <2>1. n + HeaderSize \in Nat /\ n + HeaderSize >= 1
    BY Sizes
  <2> QED BY <2>1, RoundedUp DEF LargePages
<1>3. m <= PageCount
  <2>1. p + m - 1 \in Span(p, m)
    BY <1>1, <1>2 DEF Span
  <2>2. p + m - 1 \in HeapPage
    BY <1>0, <1>1, <2>1
  <2> QED BY <1>1, <1>2, <2>2, Sizes DEF HeapPage
<1>4. PICK b \in Int : b = p * PageWords
  BY <1>1, Sizes
<1>5. PageOf(b) = p /\ b \in Addr
  <2>1. b \in Span(p * PageWords, PageWords)
    BY <1>4, Sizes DEF Span
  <2>2. PageOf(b) = p
    BY <1>1, <2>1, PageOfIs
  <2> QED BY <1>1, <2>2, AddrPage
<1>6. PICK s \in Nat : s = m * PageWords - HeaderSize
  BY <1>2, Sizes
<1> DEFINE P == h.pages \ Span(p, m)
           H == [h.header EXCEPT ![b] = [size |-> s, class |-> Large]]
           M == Clobbered(h.memory, Span(b, HeaderSize))
<1>7. g = [pages |-> P, free_list |-> h.free_list, header |-> H, memory |-> M]
  BY <1>4, <1>6 DEF Carved
<1>8. P \in SUBSET HeapPage
  BY <1>0
<1>9. H \in [Addr -> [size : Nat, class : ClassIdx \cup {Large}]]
      /\ H[b] = [size |-> s, class |-> Large] /\ \A a \in Addr : a # b => H[a] = h.header[a]
  <2>1. [size |-> s, class |-> Large] \in [size : Nat, class : ClassIdx \cup {Large}]
    OBVIOUS
  <2> QED BY <1>0, <1>5, <2>1
<1>10. M \in [Addr -> Client \cup {Nobody}]
       /\ \A w \in Addr : w \notin Span(b, HeaderSize) => M[w] = h.memory[w]
  BY <1>0, ClobberedFacts
<1> HIDE DEF P, H, M
<1>11. HeapType(g) /\ g.pages = P /\ g.free_list = h.free_list /\ g.header = H /\ g.memory = M
  <2>1. g \in [pages : SUBSET HeapPage, free_list : [ClassIdx -> Seq(Addr)],
               header : [Addr -> [size : Nat, class : ClassIdx \cup {Large}]],
               memory : [Addr -> Client \cup {Nobody}]]
    BY <1>0, <1>7, <1>8, <1>9, <1>10
  <2>2. g.pages = P /\ g.free_list = h.free_list /\ g.header = H /\ g.memory = M
    BY <1>7
  <2> QED BY <2>1, <2>2 DEF HeapType
<1>12. H[b].size = s /\ H[b].class = Large
  BY <1>9
<1> QED
  BY <1>1, <1>2, <1>3, <1>4, <1>5, <1>6, <1>9, <1>10, <1>11, <1>12 DEF P

\* The run becomes a block; what is in use keeps its words.
LEMMA CarvedSound ==
  ASSUME NEW h, NEW U, Sound(h, U), NEW n \in Nat, n >= 1,
         NEW p \in FreeRuns(h, LargePages(n)), NEW g, g = Carved(h, p, n),
         NEW a, a = p * PageWords + HeaderSize
  PROVE  Sound(g, U \cup {a}) /\ Keeps(g, h, U) /\ a \notin U /\ UsableSize(g, a) >= n
<1>0. PICK m : m = LargePages(n)
  OBVIOUS
<1>1. HeapType(h) /\ ListsTrue(h) /\ p \in FreeRuns(h, m)
  BY <1>0, SoundFacts
<1>2. /\ HeapType(g) /\ g.pages = h.pages \ Span(p, m) /\ g.free_list = h.free_list
      /\ p * PageWords \in Addr /\ p \in HeapPage /\ m \in 1 .. PageCount
      /\ m * PageWords \in Nat /\ m * PageWords >= n + HeaderSize
      /\ g.header[p * PageWords].size = m * PageWords - HeaderSize
      /\ g.header[p * PageWords].class = Large
      /\ \A q \in Addr : q # p * PageWords => g.header[q] = h.header[q]
      /\ \A w \in Addr : w \notin Span(p * PageWords, HeaderSize) => g.memory[w] = h.memory[w]
  BY <1>0, <1>1, CarvedFields
<1>3. PICK b \in Int : b = p * PageWords
  BY <1>2, AddrInt
<1>4. a = b + HeaderSize /\ a \in Int /\ a - HeaderSize = b
  BY <1>3, Sizes
<1>5. PICK t \in Nat : t = m * PageWords /\ t >= n + HeaderSize
  BY <1>2
<1>6. UsableSize(g, a) = t - HeaderSize /\ g.header[a - HeaderSize].class = Large
  BY <1>2, <1>3, <1>4, <1>5 DEF UsableSize
<1>7. ChunkOf(g, a) = Span(p * PageWords, m * PageWords)
  <2>1. HeaderSize + (t - HeaderSize) = t
    BY Sizes
  <2> QED BY <1>3, <1>4, <1>5, <1>6, <2>1 DEF ChunkOf
<1>8. ASSUME NEW w \in Int PROVE w \in ChunkOf(g, a) <=> PageOf(w) \in Span(p, m)
  BY <1>2, <1>7, PagesOfRun, AddrInt
<1>9. ChunkOf(g, a) \subseteq Int /\ a \in ChunkOf(g, a) /\ Span(p * PageWords, HeaderSize) \subseteq ChunkOf(g, a)
  <2>1. ChunkOf(g, a) = b .. b + t - 1 /\ Span(p * PageWords, HeaderSize) = b .. b + HeaderSize - 1
    BY <1>3, <1>5, <1>7 DEF Span
  <2>2. a = b + HeaderSize /\ HeaderSize \in Nat /\ t >= n + HeaderSize
    BY <1>4, <1>5, Sizes
  <2>3. a \in b .. b + t - 1 /\ b .. b + HeaderSize - 1 \subseteq b .. b + t - 1
        /\ b .. b + t - 1 \subseteq Int
    BY <2>2
  <2> QED BY <2>1, <2>3, Zenon
<1>10. Span(p, m) \subseteq h.pages /\ h.pages \subseteq HeapPage
  BY <1>1, HeapFields DEF FreeRuns
<1>11. ChunkOf(g, a) \subseteq PageMemory(h) /\ ChunkOf(g, a) \subseteq Addr \ PageMemory(g)
  <2>1. ASSUME NEW w \in ChunkOf(g, a) PROVE w \in PageMemory(h) /\ w \in Addr /\ w \notin PageMemory(g)
    <3>1. w \in Int /\ PageOf(w) \in Span(p, m)
      BY <1>8, <1>9
    <3>2. w \in Addr
      BY <1>10, <3>1, AddrPage
    <3> QED BY <1>1, <1>2, <1>10, <3>1, <3>2, PagesTaken
  <2> QED BY <2>1
<1>12. HeaderTrue(g, a)
  <2>1. a \in Addr /\ a - HeaderSize \in Addr
    BY <1>2, <1>3, <1>4, <1>9, <1>11
  <2>2. g.header[a - HeaderSize].size + HeaderSize = m * PageWords
    BY <1>5, <1>6, Sizes DEF UsableSize
  <2>3. a - HeaderSize = p * PageWords
    BY <1>3, <1>4
  <2> QED BY <1>2, <1>6, <2>1, <2>2, <2>3 DEF HeaderTrue
<1>13. ASSUME NEW q \in FreeIn(h) \cup U
       PROVE  /\ q # a /\ g.header[q - HeaderSize] = h.header[q - HeaderSize]
              /\ ChunkOf(h, q) \cap PageMemory(g) = {}
              /\ \A w \in ChunkOf(h, q) : w \in Addr /\ w \notin ChunkOf(g, a)
  <2>1. HeaderTrue(h, q) /\ ChunkOf(h, q) \subseteq Addr /\ ChunkOf(h, q) \cap PageMemory(h) = {}
    BY SoundFacts
  <2>2. q - HeaderSize \in ChunkOf(h, q) /\ q - HeaderSize \in Addr
    BY <1>1, <2>1, FirstWord
  <2>3. \A w \in ChunkOf(h, q) : w \in Addr /\ w \notin ChunkOf(g, a) /\ w \notin PageMemory(g)
    BY <1>1, <1>2, <1>11, <2>1, PagesTaken
  <2>4. a - HeaderSize \in ChunkOf(g, a)
    BY <1>2, <1>12, FirstWord
  <2>5. q - HeaderSize # a - HeaderSize
    BY <2>2, <2>3, <2>4
  <2>6. q - HeaderSize # p * PageWords
    BY <1>3, <1>4, <2>5
  <2> QED BY <1>2, <2>2, <2>3, <2>5, <2>6
<1>14. FreeIn(g) = FreeIn(h) /\ \A j \in ClassIdx : Listed(g, j) = Listed(h, j)
  BY <1>2 DEF FreeIn, Listed
<1>15. ListsTrue(g)
  <2>1. ASSUME NEW j \in ClassIdx
        PROVE  Distinct(g.free_list[j])
               /\ \A q \in Listed(g, j) : g.header[q - HeaderSize].class = j
    <3>1. \A q \in Listed(h, j) : g.header[q - HeaderSize] = h.header[q - HeaderSize]
      BY <1>13, ListedIsFree
    <3> QED BY <1>1, <1>2, <1>14, <3>1, ListsTrueIs
  <2> QED BY <2>1, ListsTrueIs
<1>16. FreeIn(g) \cap (U \cup {a}) = {} /\ a \notin U
  <2>1. FreeIn(h) \cap U = {}
    BY SoundFacts
  <2> QED BY <1>13, <1>14, <2>1
<1>17. Follows(g, U \cup {a}, h, U, {a})
  BY <1>2, <1>11, <1>12, <1>13, <1>14, <1>15, <1>16 DEF Follows
<1>18. Keeps(g, h, U)
  BY <1>2, <1>9, <1>13 DEF Keeps
<1>19. UsableSize(g, a) >= n
  BY <1>5, <1>6, Sizes
<1> QED BY <1>16, <1>17, <1>18, <1>19, SoundFrom

-----------------------------------------------------------------------------
(* alloc() and dealloc().                                                  *)

\* What alloc() returns: a block as large as was asked that was not in use,
\* and what is in use keeps its words.
Granted(h, U, n, g, p) ==
  /\ Sound(g, U \cup {p}) /\ p \notin U /\ Keeps(g, h, U) /\ n <= UsableSize(g, p)

LEMMA SlabAllocFacts ==
  ASSUME NEW h, NEW U, Sound(h, U), NEW n \in Nat, n >= 1, NEW k \in ClassFor(n),
         NEW s \in Stocked(h, k)
  PROVE  Granted(h, U, n, [s EXCEPT !.free_list[k] = Tail(@)], Head(s.free_list[k]))
<1> DEFINE p == Head(s.free_list[k])
<1>0. PICK g : g = [s EXCEPT !.free_list[k] = Tail(@)]
  OBVIOUS
<1>1. k \in ClassIdx /\ Class[k] >= n
  BY DEF ClassFor
<1>2. Sound(s, U) /\ Keeps(s, h, U) /\ s.free_list[k] # << >>
  <2>1. CASE h.free_list[k] # << >>
    <3>1. s = h
      BY <2>1 DEF Stocked
    <3> QED BY <2>1, <3>1 DEF Keeps
  <2>2. CASE h.free_list[k] = << >>
    <3>1. EntriesPerPage(k) # 0
      BY <2>2 DEF Stocked
    <3>2. PICK f \in h.pages : s = Refilled(h, f, k)
      BY <2>2, <3>1 DEF Stocked
    <3>3. Sound(s, U) /\ Keeps(s, h, U) /\ s.free_list[k] = Chunks(f, k)
      BY <1>1, <2>2, <3>2, RefillSound
    <3>4. f \in HeapPage
      BY SoundFacts, HeapFields
    <3>5. Chunks(f, k) \in Seq(Addr) /\ Len(Chunks(f, k)) # 0
      BY <1>1, <3>1, <3>4, ChunksList
    <3> QED BY <3>3, <3>5, EmptySeq
  <2> QED BY <2>1, <2>2
<1>3. HeapType(s) /\ ListsTrue(s)
  BY <1>2, SoundFacts
<1>4. /\ HeapType(g) /\ Replaced(g, s, k, Tail(s.free_list[k]))
      /\ g.pages = s.pages /\ g.header = s.header /\ g.memory = s.memory
  BY <1>0, <1>1, <1>2, <1>3, PopType
<1>5. Sound(g, U \cup {p}) /\ p \in Listed(s, k) /\ p \notin U
  BY <1>1, <1>2, <1>4, PopChunk, ZenonT(40)
<1>6. n <= UsableSize(g, p)
  <2>1. HeaderTrue(s, p) /\ s.header[p - HeaderSize].class = k
    BY <1>1, <1>2, <1>3, <1>5, ListedIsFree, ListsTrueIs, SoundFacts
  <2>2. s.header[p - HeaderSize].size = Class[k]
    BY <1>1, <2>1, AddrInt DEF HeaderTrue
  <2> QED BY <1>1, <1>4, <2>2 DEF UsableSize
<1>7. Keeps(g, h, U)
  BY <1>2, <1>4 DEF Keeps
<1>8. Granted(h, U, n, g, p)
  BY <1>5, <1>6, <1>7 DEF Granted
<1> QED BY <1>0, <1>8, Zenon

LEMMA AllocFacts ==
  ASSUME NEW h, NEW U, Sound(h, U), NEW n \in Nat, n >= 1, NEW a \in Alloc(h, n)
  PROVE  Granted(h, U, n, a.heap, a.ptr)
<1>1. CASE ClassFor(n) # {}
  <2>1. PICK k \in ClassFor(n) : a \in SlabAlloc(h, k)
    BY <1>1 DEF Alloc
  <2>2. PICK s \in Stocked(h, k) :
          a = [heap |-> [s EXCEPT !.free_list[k] = Tail(@)], ptr |-> Head(s.free_list[k])]
    BY <2>1 DEF SlabAlloc
  <2>3. PICK g : g = [s EXCEPT !.free_list[k] = Tail(@)]
    OBVIOUS
  <2>4. Granted(h, U, n, g, Head(s.free_list[k]))
    <3>1. Granted(h, U, n, [s EXCEPT !.free_list[k] = Tail(@)], Head(s.free_list[k]))
      BY SlabAllocFacts
    <3> QED BY <2>3, <3>1, Zenon
  <2>5. a = [heap |-> g, ptr |-> Head(s.free_list[k])]
    BY <2>2, <2>3, Zenon
  <2>6. a.heap = g /\ a.ptr = Head(s.free_list[k])
    BY <2>5
  <2> QED BY <2>4, <2>6
<1>2. CASE ClassFor(n) = {}
  <2>1. a \in LargeAlloc(h, n)
    BY <1>2 DEF Alloc
  <2>2. PICK p \in FreeRuns(h, LargePages(n)) :
          a = [heap |-> Carved(h, p, n), ptr |-> p * PageWords + HeaderSize]
    BY <2>1 DEF LargeAlloc
  <2>3. a.heap = Carved(h, p, n) /\ a.ptr = p * PageWords + HeaderSize
    BY <2>2
  <2>4. PICK g, x : g = Carved(h, p, n) /\ x = p * PageWords + HeaderSize
    OBVIOUS
  <2>5. Sound(g, U \cup {x}) /\ Keeps(g, h, U) /\ x \notin U /\ UsableSize(g, x) >= n
    BY <2>4, CarvedSound
  <2>6. UsableSize(g, x) \in Nat
    <3>1. HeapType(g) /\ HeaderTrue(g, x)
      BY <2>5, SoundFacts
    <3> QED BY <3>1, ChunkFacts
  <2>7. Granted(h, U, n, g, x)
    BY <2>5, <2>6 DEF Granted
  <2> QED BY <2>3, <2>4, <2>7, Zenon
<1> QED BY <1>1, <1>2

\* alloc() of a size with a class fails for want of a page, or in a class that
\* has no chunk in a page.
LEMMA AllocFails ==
  ASSUME NEW h, HeapType(h), NEW n \in Nat, Alloc(h, n) = {}, ClassFor(n) # {}
  PROVE  h.pages = {} \/ n > PageWords \div 2
<1>1. PICK k \in ClassFor(n) : TRUE
  OBVIOUS
<1>2. k \in ClassIdx /\ Class[k] >= n /\ \A j \in 1 .. k - 1 : Class[j] < n
  BY DEF ClassFor
<1>3. Stocked(h, k) = {}
  <2>1. SlabAlloc(h, k) = {}
    BY <1>1 DEF Alloc
  <2>2. ASSUME NEW s \in Stocked(h, k) PROVE FALSE
    <3>1. [heap |-> [s EXCEPT !.free_list[k] = Tail(@)], ptr |-> Head(s.free_list[k])] \in SlabAlloc(h, k)
      BY Zenon DEF SlabAlloc
    <3> QED BY <2>1, <3>1, Zenon
  <2> QED BY <2>2
<1>4. CASE EntriesPerPage(k) = 0
  <2>1. EntrySize(k) > PageWords
    BY <1>2, <1>4, Entries, Sizes
  <2>2. PICK j \in 1 .. k - 1 : Class[j] >= PageWords \div 2
    BY <1>2, <2>1, SlabHeapAssumption DEF EntrySize
  <2>3. Class[j] < n /\ Class[j] \in Nat /\ PageWords \div 2 \in Int
    <3>1. j \in ClassIdx /\ PageWords \in Int /\ 2 \in Nat \ {0}
      BY <1>2, Sizes DEF ClassIdx
    <3> QED BY <1>2, <3>1, Sizes, IntDivMod
  <2>4. PICK y \in Int : y = PageWords \div 2
    BY <2>3
  <2> QED BY <2>2, <2>3, <2>4
<1>5. CASE EntriesPerPage(k) # 0
  BY <1>3, <1>5 DEF Stocked
<1> QED BY <1>4, <1>5

\* A step that makes no block and takes no page.
LEMMA NothingNew ==
  ASSUME NEW h, NEW U, Sound(h, U), NEW g, HeapType(g), NEW V, ListsTrue(g),
         FreeIn(g) \cap V = {}, FreeIn(g) \cup V \subseteq FreeIn(h) \cup U, g.header = h.header,
         \A q \in FreeIn(g) \cup V : ChunkOf(h, q) \cap PageMemory(g) = {}
  PROVE  Sound(g, V)
<1>1. Follows(g, V, h, U, {})
  BY DEF Follows
<1> QED BY <1>1, SoundFrom

\* dealloc() of a chunk: it becomes the first of its list.
LEMMA ChunkFreed ==
  ASSUME NEW h, NEW U, Sound(h, U), NEW p \in U, NEW k \in ClassIdx,
         h.header[p - HeaderSize].class = k,
         NEW g, HeapType(g), g.pages = h.pages, g.header = h.header,
         NEW t, t = <<p>> \o h.free_list[k], Replaced(g, h, k, t),
         \A w \in Addr : w # p => g.memory[w] = h.memory[w]
  PROVE  Sound(g, U \ {p}) /\ Keeps(g, h, U \ {p})
<1>1. /\ HeapType(h) /\ ListsTrue(h) /\ FreeIn(h) \cap U = {}
      /\ HeaderTrue(h, p) /\ p \in Addr
  BY SoundFacts DEF HeaderTrue
<1>2. p \notin FreeIn(h) /\ p \notin Listed(h, k)
  BY <1>1, ListedIsFree
<1>3. h.free_list[k] \in Seq(Addr) /\ Distinct(h.free_list[k]) /\ Listed(h, k) = Elems(h.free_list[k])
  BY <1>1, ListFacts, ListsTrueIs
<1>4. Distinct(t) /\ Elems(t) = Listed(h, k) \cup {p}
  BY <1>1, <1>2, <1>3, ConsList
<1>5. Listed(g, k) = Elems(t) /\ \A j \in ClassIdx \ {k} : Listed(g, j) = Listed(h, j)
  BY ListReplaced
<1>6. ListsTrue(g)
  <2>1. ASSUME NEW j \in ClassIdx
        PROVE  Distinct(g.free_list[j])
               /\ \A q \in Listed(g, j) : g.header[q - HeaderSize].class = j
    <3>1. CASE j = k
      <4>1. g.free_list[j] = t /\ Listed(g, j) = Listed(h, k) \cup {p}
        BY <1>4, <1>5, <3>1 DEF Replaced
      <4>2. \A q \in Listed(h, k) : h.header[q - HeaderSize].class = k
        BY <1>1, ListsTrueIs
      <4> QED BY <1>4, <3>1, <4>1, <4>2
    <3>2. CASE j # k
      <4>1. g.free_list[j] = h.free_list[j] /\ Listed(g, j) = Listed(h, j)
        BY <1>5, <3>2 DEF Replaced
      <4> QED BY <1>1, <4>1, ListsTrueIs
    <3> QED BY <3>1, <3>2
  <2> QED BY <2>1, ListsTrueIs
<1>7. FreeIn(g) = FreeIn(h) \cup {p}
  BY <1>4, <1>5 DEF FreeIn
<1>8. PageMemory(g) = PageMemory(h)
  BY DEF PageMemory
<1>9. Sound(g, U \ {p})
  <2>1. FreeIn(g) \cap (U \ {p}) = {} /\ FreeIn(g) \cup (U \ {p}) \subseteq FreeIn(h) \cup U
    BY <1>1, <1>7
  <2>2. \A q \in FreeIn(g) \cup (U \ {p}) : ChunkOf(h, q) \cap PageMemory(g) = {}
    BY <1>8, <2>1, SoundFacts
  <2> QED BY <1>6, <2>1, <2>2, NothingNew
<1>10. Keeps(g, h, U \ {p})
  <2>1. ASSUME NEW q \in U \ {p}, NEW w \in ChunkOf(h, q) PROVE g.memory[w] = h.memory[w]
    <3>1. p \in ChunkOf(h, p)
      BY <1>1, HasWord
    <3>2. ChunkOf(h, p) \cap ChunkOf(h, q) = {} /\ w \in Addr
      BY SoundFacts
    <3> QED BY <3>1, <3>2
  <2> QED BY <2>1 DEF Keeps
<1> QED BY <1>9, <1>10

\* dealloc() of whole pages: they go back to the page allocator.
Returns(g, h, S) == g = [h EXCEPT !.pages = @ \cup S]

LEMMA PagesFreed ==
  ASSUME NEW h, NEW U, Sound(h, U), NEW p \in U, h.header[p - HeaderSize].class = Large,
         NEW f, f = (p - HeaderSize) \div PageWords, NEW n, n = PagesOf(h.header[p - HeaderSize]),
         NEW g, Returns(g, h, Span(f, n))
  PROVE  Sound(g, U \ {p}) /\ Keeps(g, h, U \ {p}) /\ HeapType(g) /\ g.memory = h.memory
<1>1. HeapType(h) /\ ListsTrue(h) /\ FreeIn(h) \cap U = {} /\ HeaderTrue(h, p)
  BY SoundFacts
<1>2. PICK f1 \in HeapPage, n1 \in 1 .. PageCount :
        p - HeaderSize = f1 * PageWords /\ h.header[p - HeaderSize].size + HeaderSize = n1 * PageWords
  BY <1>1, AddrInt DEF HeaderTrue
<1>3. PageWords \in Nat \ {0} /\ f1 \in Int /\ n1 \in Nat
  BY Sizes, AddrInt
<1>4. PICK x \in Int, y \in Int : x = f1 * PageWords /\ y = n1 * PageWords
  BY <1>3
<1>5. f = f1
  <2>1. x = PageWords * f1 + 0 /\ 0 \in 0 .. PageWords - 1
    BY <1>3, <1>4
  <2>2. x \div PageWords = f1
    BY <1>3, <2>1, DivModUnique
  <2> QED BY <1>2, <1>4, <2>2
<1>6. n = n1
  <2>1. y + PageWords - 1 = PageWords * n1 + (PageWords - 1) /\ PageWords - 1 \in 0 .. PageWords - 1
    BY <1>3, <1>4
  <2>2. (y + PageWords - 1) \div PageWords = n1
    <3>1. y + PageWords - 1 \in Int /\ n1 \in Int
      BY <1>3
    <3> QED BY <1>3, <2>1, <3>1, DivModUnique
  <2> QED BY <1>2, <1>4, <2>2 DEF PagesOf
<1>7. ChunkOf(h, p) = Span(f1 * PageWords, n1 * PageWords)
  <2>1. PICK s \in Int : s = h.header[p - HeaderSize].size /\ HeaderSize + s = y
    <3>1. UsableSize(h, p) \in Nat /\ HeaderSize \in Nat
      BY <1>1, ChunkFacts, Sizes
    <3>2. PICK s \in Nat : s = h.header[p - HeaderSize].size
      BY <3>1 DEF UsableSize
    <3>3. s + HeaderSize = y
      BY <1>2, <1>4, <3>2
    <3> QED BY <3>1, <3>2, <3>3
  <2> QED BY <1>2, <1>4, <2>1 DEF ChunkOf, UsableSize
<1>8. \A w \in Int : w \in ChunkOf(h, p) <=> PageOf(w) \in Span(f, n)
  BY <1>3, <1>5, <1>6, <1>7, PagesOfRun
<1>9. ASSUME NEW i0 \in Span(f, n) PROVE i0 \in HeapPage
  <2>1. i0 \in Int
    BY <1>3, <1>5, <1>6 DEF Span
  <2>2. PICK w \in Int : w = i0 * PageWords
    BY <1>3, <2>1
  <2>3. w \in Span(i0 * PageWords, PageWords)
    BY <1>3, <2>2 DEF Span
  <2>4. PageOf(w) = i0
    BY <2>1, <2>3, PageOfIs
  <2>5. w \in ChunkOf(h, p)
    BY <1>8, <2>4
  <2>6. w \in Addr
    BY <2>5, SoundFacts
  <2> QED BY <2>4, <2>6, AddrPage
<1>10. /\ HeapType(g) /\ g.pages = h.pages \cup Span(f, n) /\ g.free_list = h.free_list
       /\ g.header = h.header /\ g.memory = h.memory
  <2>1. h \in [pages : SUBSET HeapPage, free_list : [ClassIdx -> Seq(Addr)],
               header : [Addr -> [size : Nat, class : ClassIdx \cup {Large}]],
               memory : [Addr -> Client \cup {Nobody}]]
    BY <1>1 DEF HeapType
  <2>2. h.pages \cup Span(f, n) \in SUBSET HeapPage
    BY <1>9, <2>1
  <2>3. g \in [pages : SUBSET HeapPage, free_list : [ClassIdx -> Seq(Addr)],
               header : [Addr -> [size : Nat, class : ClassIdx \cup {Large}]],
               memory : [Addr -> Client \cup {Nobody}]]
    BY <2>1, <2>2 DEF Returns
  <2>4. /\ g.pages = h.pages \cup Span(f, n) /\ g.free_list = h.free_list
        /\ g.header = h.header /\ g.memory = h.memory
    BY <2>1 DEF Returns
  <2> QED BY <2>3, <2>4 DEF HeapType
<1>11. FreeIn(g) = FreeIn(h) /\ ListsTrue(g)
  BY <1>1, <1>10, SMTT(30) DEF FreeIn, Listed, ListsTrue
<1>12. ASSUME NEW q \in FreeIn(h) \cup (U \ {p}) PROVE ChunkOf(h, q) \cap PageMemory(g) = {}
  <2>1. ASSUME NEW w \in ChunkOf(h, q) PROVE w \notin PageMemory(g)
    <3>1. p \in FreeIn(h) \cup U /\ q \in FreeIn(h) \cup U /\ p # q
      BY <1>1
    <3>2. w \in Addr /\ w \notin PageMemory(h) /\ w \notin ChunkOf(h, p)
      BY <3>1, SoundFacts
    <3>3. PageOf(w) \notin h.pages /\ PageOf(w) \notin Span(f, n)
      BY <1>1, <1>8, <3>2, AddrInt, PageMemoryIs, HeapFields
    <3> QED BY <1>10, <3>2, <3>3, AddrInt, PageMemoryIs, HeapFields
  <2> QED BY <2>1
<1>13. Sound(g, U \ {p})
  <2>1. FreeIn(g) \cap (U \ {p}) = {} /\ FreeIn(g) \cup (U \ {p}) \subseteq FreeIn(h) \cup U
    BY <1>1, <1>11
  <2>2. \A q \in FreeIn(g) \cup (U \ {p}) : ChunkOf(h, q) \cap PageMemory(g) = {}
    BY <1>11, <1>12
  <2>3. HeapType(g) /\ ListsTrue(g) /\ g.header = h.header
    BY <1>10, <1>11
  <2> QED BY <2>1, <2>2, <2>3, NothingNew
<1>14. Keeps(g, h, U \ {p})
  BY <1>10 DEF Keeps
<1> QED BY <1>10, <1>13, <1>14

LEMMA DeallocFacts ==
  ASSUME NEW h, NEW U, Sound(h, U), NEW p \in U, NEW g, g = Dealloc(h, p)
  PROVE  Sound(g, U \ {p}) /\ Keeps(g, h, U \ {p})
<1>1. HeapType(h) /\ HeaderTrue(h, p) /\ p \in Addr /\ p - HeaderSize \in Addr
  BY SoundFacts DEF HeaderTrue
<1>2. /\ h.pages \subseteq HeapPage /\ h.free_list \in [ClassIdx -> Seq(Addr)]
      /\ h.header \in [Addr -> [size : Nat, class : ClassIdx \cup {Large}]]
      /\ h.memory \in [Addr -> Client \cup {Nobody}]
      /\ h.header[p - HeaderSize].class \in ClassIdx \cup {Large}
  BY <1>1, HeapFields
<1>3. CASE h.header[p - HeaderSize].class = Large
  <2>1. PICK f, n : f = (p - HeaderSize) \div PageWords /\ n = PagesOf(h.header[p - HeaderSize])
    OBVIOUS
  <2>2. Returns(g, h, Span(f, n))
    BY <1>3, <2>1 DEF Dealloc, Returns
  <2> QED BY <1>3, <2>1, <2>2, PagesFreed
<1>4. CASE h.header[p - HeaderSize].class \in ClassIdx
  <2>1. PICK k \in ClassIdx : k = h.header[p - HeaderSize].class /\ k # Large
    BY <1>4, AddrInt
  <2>2. PICK t : t = <<p>> \o h.free_list[k]
    OBVIOUS
  <2>3. t \in Seq(Addr)
    <3>1. <<p>> \in Seq(Addr) /\ h.free_list[k] \in Seq(Addr)
      BY <1>1, <1>2
    <3> QED BY <2>2, <3>1, ConcatProperties
  <2> DEFINE L == [h.free_list EXCEPT ![k] = t]
             M == Clobbered(h.memory, {p})
  <2>4. g = [pages |-> h.pages, free_list |-> L, header |-> h.header, memory |-> M]
    BY <2>1, <2>2 DEF Dealloc
  <2>5. L \in [ClassIdx -> Seq(Addr)] /\ L[k] = t /\ \A j \in ClassIdx \ {k} : L[j] = h.free_list[j]
    BY <1>2, <2>3
  <2>6. M \in [Addr -> Client \cup {Nobody}] /\ \A w \in Addr : w \notin {p} => M[w] = h.memory[w]
    BY <1>2, ClobberedFacts
  <2> HIDE DEF L, M
  <2>7. g \in [pages : SUBSET HeapPage, free_list : [ClassIdx -> Seq(Addr)],
               header : [Addr -> [size : Nat, class : ClassIdx \cup {Large}]],
               memory : [Addr -> Client \cup {Nobody}]]
    BY <1>2, <2>4, <2>5, <2>6
  <2>8. g.pages = h.pages /\ g.free_list = L /\ g.header = h.header /\ g.memory = M
    BY <2>4
  <2>9. HeapType(g) /\ Replaced(g, h, k, t) /\ \A w \in Addr : w # p => g.memory[w] = h.memory[w]
    BY <2>5, <2>6, <2>7, <2>8 DEF HeapType, Replaced
  <2> QED BY <2>1, <2>2, <2>8, <2>9, ChunkFreed
<1> QED BY <1>2, <1>3, <1>4

-----------------------------------------------------------------------------
(* What clients write.                                                     *)

\* g is h with other contents of the memory.
SameBlocks(g, h) ==
  HeapType(g) /\ g.pages = h.pages /\ g.free_list = h.free_list /\ g.header = h.header

LEMMA MemoryWritten ==
  ASSUME NEW h, NEW U, Sound(h, U), NEW g, SameBlocks(g, h)
  PROVE  Sound(g, U)
<1>1. FreeIn(g) = FreeIn(h) /\ ListsTrue(g) /\ PageMemory(g) = PageMemory(h)
  BY SoundFacts DEF SameBlocks, FreeIn, Listed, ListsTrue, PageMemory
<1>2. \A q \in FreeIn(g) \cup U : ChunkOf(h, q) \cap PageMemory(g) = {}
  BY <1>1, SoundFacts
<1>3. FreeIn(g) \cap U = {} /\ FreeIn(g) \cup U \subseteq FreeIn(h) \cup U
  BY <1>1, SoundFacts
<1> QED BY <1>1, <1>2, <1>3, NothingNew DEF SameBlocks

\* Writing in the words of one block changes no other.
LEMMA OthersKeep ==
  ASSUME NEW h, NEW U, NEW p, Sound(h, U \cup {p}), p \notin U, NEW g, SameBlocks(g, h),
         \A w \in Addr : w \notin ChunkOf(h, p) => g.memory[w] = h.memory[w]
  PROVE  Keeps(g, h, U)
<1>1. ASSUME NEW q \in U, NEW w \in ChunkOf(h, q) PROVE g.memory[w] = h.memory[w]
  <2>1. ChunkOf(h, p) \cap ChunkOf(h, q) = {} /\ w \in Addr
    BY SoundFacts
  <2> QED BY <2>1
<1> QED BY <1>1 DEF Keeps, SameBlocks

LEMMA KeepsOn ==
  ASSUME NEW f, NEW g, NEW h, NEW U, Keeps(g, h, U), NEW V, Keeps(f, g, V)
  PROVE  Keeps(f, h, U \cap V)
<1>1. ASSUME NEW q \in U \cap V
      PROVE  /\ f.header[q - HeaderSize] = h.header[q - HeaderSize]
             /\ \A w \in ChunkOf(h, q) : f.memory[w] = h.memory[w]
  <2>1. g.header[q - HeaderSize] = h.header[q - HeaderSize]
        /\ \A w \in ChunkOf(h, q) : g.memory[w] = h.memory[w]
    BY DEF Keeps
  <2>2. f.header[q - HeaderSize] = g.header[q - HeaderSize]
        /\ \A w \in ChunkOf(g, q) : f.memory[w] = g.memory[w]
    BY DEF Keeps
  <2>3. ChunkOf(g, q) = ChunkOf(h, q)
    BY <2>1, SameChunk
  <2> QED BY <2>1, <2>2, <2>3
<1> QED BY <1>1 DEF Keeps

\* A heap whose memory is replaced.
LEMMA MemoryReplaced ==
  ASSUME NEW h, HeapType(h), NEW M \in [Addr -> Client \cup {Nobody}],
         NEW g, g = [h EXCEPT !.memory = M]
  PROVE  SameBlocks(g, h) /\ g.memory = M
<1>1. h \in [pages : SUBSET HeapPage, free_list : [ClassIdx -> Seq(Addr)],
             header : [Addr -> [size : Nat, class : ClassIdx \cup {Large}]],
             memory : [Addr -> Client \cup {Nobody}]]
  BY DEF HeapType
<1>2. g \in [pages : SUBSET HeapPage, free_list : [ClassIdx -> Seq(Addr)],
             header : [Addr -> [size : Nat, class : ClassIdx \cup {Large}]],
             memory : [Addr -> Client \cup {Nobody}]]
  BY <1>1
<1>3. /\ g.pages = h.pages /\ g.free_list = h.free_list /\ g.header = h.header /\ g.memory = M
  BY <1>1
<1> QED BY <1>2, <1>3 DEF HeapType, SameBlocks

LEMMA FillFacts ==
  ASSUME NEW h, HeapType(h), NEW a, NEW b, NEW c \in Client
  PROVE  /\ SameBlocks(Fill(h, a, b, c), h)
         /\ \A w \in Addr : w \in a .. b - 1 => Fill(h, a, b, c).memory[w] = c
         /\ \A w \in Addr : w \notin a .. b - 1 => Fill(h, a, b, c).memory[w] = h.memory[w]
<1>1. PICK M : M = [w \in Addr |-> IF w \in a .. b - 1 THEN c ELSE h.memory[w]]
  OBVIOUS
<1>2. M \in [Addr -> Client \cup {Nobody}]
  BY <1>1, HeapFields
<1>3. PICK g : g = [h EXCEPT !.memory = M]
  OBVIOUS
<1>4. Fill(h, a, b, c) = g
  BY <1>1, <1>3, Zenon DEF Fill
<1>5. SameBlocks(g, h) /\ g.memory = M
  BY <1>2, <1>3, MemoryReplaced
<1> QED BY <1>1, <1>4, <1>5

-----------------------------------------------------------------------------
(* The blocks of the clients.                                              *)

\* The pointers in use, all and those of the clients other than c.
InUse(b) == {b[d].ptr : d \in {d \in Client : b[d] # NoBlock}}
Others(b, c) == {b[d].ptr : d \in {d \in Client \ {c} : b[d] # NoBlock}}

\* Heap and blocks fit: the invariant, as a predicate on values.
Agrees(h, b) ==
  /\ b \in [Client -> [ptr : Addr, size : Nat]]
  /\ Sound(h, InUse(b))
  /\ \A c, d \in Client : c # d /\ b[c] # NoBlock => b[c].ptr # b[d].ptr
  /\ \A c \in Client : b[c] # NoBlock => b[c].size <= UsableSize(h, b[c].ptr)
  /\ \A c \in Client : \A w \in Span(b[c].ptr, b[c].size) : h.memory[w] = c

LEMMA BlockFields ==
  ASSUME NEW b \in [Client -> [ptr : Addr, size : Nat]], NEW c \in Client
  PROVE  b[c].ptr \in Addr /\ b[c].size \in Nat /\ b[c].ptr \in Int
<1>1. b[c] \in [ptr : Addr, size : Nat]
  OBVIOUS
<1> QED BY <1>1, AddrInt

\* Client c has a block among those in use, and no other has the same.
LEMMA NoOwnBlock ==
  ASSUME NEW h, NEW b, Agrees(h, b), NEW c \in Client, b[c] = NoBlock, NEW U, U = Others(b, c)
  PROVE  Sound(h, U)
<1>1. InUse(b) = U
  BY DEF InUse, Others
<1> QED BY <1>1 DEF Agrees

LEMMA OwnBlock ==
  ASSUME NEW h, NEW b, Agrees(h, b), NEW c \in Client, b[c] # NoBlock,
         NEW p, p = b[c].ptr, NEW U, U = Others(b, c)
  PROVE  Sound(h, U \cup {p}) /\ p \notin U /\ p \in Addr /\ p \in Int
<1>1. InUse(b) = U \cup {p}
  BY DEF InUse, Others
<1>2. Sound(h, InUse(b))
  BY DEF Agrees
<1>3. \A d \in Client : d # c => b[d].ptr # p
  BY DEF Agrees
<1>4. p \notin U
  BY <1>3 DEF Others
<1>5. p \in Addr /\ p \in Int
  BY BlockFields DEF Agrees
<1> QED BY <1>1, <1>2, <1>4, <1>5

\* The words that the client has asked for are words of the block.
LEMMA WordsOfBlock ==
  ASSUME NEW h, HeapType(h), NEW p, HeaderTrue(h, p), NEW n \in Int, n <= UsableSize(h, p)
  PROVE  Span(p, n) \subseteq ChunkOf(h, p)
<1>1. /\ p \in Int /\ UsableSize(h, p) \in Nat /\ HeaderSize \in Nat
      /\ ChunkOf(h, p) = p - HeaderSize .. p + UsableSize(h, p) - 1
  BY ChunkFacts, Sizes
<1>2. PICK u \in Nat : u = UsableSize(h, p)
  BY <1>1
<1> QED BY <1>1, <1>2 DEF Span

\* The blocks of the others when c's is replaced.
LEMMA OthersFit ==
  ASSUME NEW h, NEW b, Agrees(h, b), NEW c \in Client, NEW g, Keeps(g, h, Others(b, c)),
         NEW d \in Client \ {c}, b[d] # NoBlock
  PROVE  /\ b[d].ptr \in Others(b, c) /\ b[d].size <= UsableSize(g, b[d].ptr)
         /\ \A w \in Span(b[d].ptr, b[d].size) : g.memory[w] = d
<1>1. b[d].ptr \in Others(b, c) /\ b[d].ptr \in InUse(b)
  BY DEF Others, InUse
<1>2. b[d].size \in Nat /\ b[d].size <= UsableSize(h, b[d].ptr)
  BY BlockFields DEF Agrees
<1>3. HeapType(h) /\ HeaderTrue(h, b[d].ptr)
  BY <1>1, SoundFacts DEF Agrees
<1>4. Span(b[d].ptr, b[d].size) \subseteq ChunkOf(h, b[d].ptr)
  BY <1>2, <1>3, WordsOfBlock
<1>5. /\ g.header[b[d].ptr - HeaderSize] = h.header[b[d].ptr - HeaderSize]
      /\ \A w \in ChunkOf(h, b[d].ptr) : g.memory[w] = h.memory[w]
  BY <1>1 DEF Keeps
<1>6. UsableSize(g, b[d].ptr) = UsableSize(h, b[d].ptr)
  BY <1>5, SameChunk
<1>7. \A w \in Span(b[d].ptr, b[d].size) : h.memory[w] = d
  BY DEF Agrees
<1> QED BY <1>1, <1>2, <1>4, <1>5, <1>6, <1>7

\* c gets a block of n words at p.
LEMMA BlockGiven ==
  ASSUME NEW h, NEW b, Agrees(h, b), NEW c \in Client, NEW p, NEW n \in Nat, n >= 1,
         NEW f \in [Client -> [ptr : Addr, size : Nat]],
         f[c].ptr = p, f[c].size = n, \A d \in Client \ {c} : f[d] = b[d],
         NEW g, Sound(g, Others(b, c) \cup {p}), p \notin Others(b, c),
         Keeps(g, h, Others(b, c)), n <= UsableSize(g, p),
         \A w \in Span(p, n) : g.memory[w] = c
  PROVE  Agrees(g, f)
<1>1. f[c] # NoBlock
  <2>1. NoBlock.size = 0
    BY DEF NoBlock
  <2> QED BY <2>1
<1>2. InUse(f) = Others(b, c) \cup {p}
  BY <1>1 DEF InUse, Others
<1>3. ASSUME NEW d \in Client \ {c}, b[d] # NoBlock
      PROVE  /\ b[d].ptr \in Others(b, c) /\ b[d].size <= UsableSize(g, b[d].ptr)
             /\ \A w \in Span(b[d].ptr, b[d].size) : g.memory[w] = d
  BY <1>3, OthersFit
<1>4. ASSUME NEW d \in Client \ {c}, b[d] = NoBlock
      PROVE  Span(b[d].ptr, b[d].size) = {}
  BY <1>4 DEF NoBlock, Span
<1>5. ASSUME NEW d \in Client, NEW e \in Client, d # e, f[d] # NoBlock PROVE f[d].ptr # f[e].ptr
  <2>1. CASE d = c
    <3>1. CASE f[e] # NoBlock
      BY <1>3, <1>5, <2>1, <3>1
    <3>2. CASE f[e] = NoBlock
      <4>1. f[e].ptr = 0
        BY <3>2 DEF NoBlock
      <4>2. p - HeaderSize \in Addr /\ p \in Int
        <5>1. HeaderTrue(g, p)
          BY SoundFacts
        <5> QED BY <5>1, AddrInt DEF HeaderTrue
      <4>3. p # 0
        BY <4>2, SlabHeapAssumption DEF Addr
      <4> QED BY <2>1, <4>1, <4>3
    <3> QED BY <3>1, <3>2
  <2>2. CASE e = c
    BY <1>3, <1>5, <2>2
  <2>3. CASE d # c /\ e # c
    BY <1>5, <2>3 DEF Agrees
  <2> QED BY <2>1, <2>2, <2>3
<1>6. \A d \in Client : f[d] # NoBlock => f[d].size <= UsableSize(g, f[d].ptr)
  BY <1>3
<1>7. ASSUME NEW d \in Client, NEW w \in Span(f[d].ptr, f[d].size) PROVE g.memory[w] = d
  BY <1>3, <1>4
<1> QED BY <1>2, <1>5, <1>6, <1>7 DEF Agrees

\* c's block is freed.
LEMMA BlockTaken ==
  ASSUME NEW h, NEW b, Agrees(h, b), NEW c \in Client,
         NEW f \in [Client -> [ptr : Addr, size : Nat]],
         f[c] = NoBlock, \A d \in Client \ {c} : f[d] = b[d],
         NEW g, Sound(g, Others(b, c)), Keeps(g, h, Others(b, c))
  PROVE  Agrees(g, f)
<1>1. InUse(f) = Others(b, c)
  BY DEF InUse, Others
<1>2. ASSUME NEW d \in Client, f[d] # NoBlock
      PROVE  /\ d # c /\ f[d].ptr \in Others(b, c) /\ f[d].size <= UsableSize(g, f[d].ptr)
             /\ \A w \in Span(f[d].ptr, f[d].size) : g.memory[w] = d
  BY <1>2, OthersFit
<1>3. ASSUME NEW d \in Client, f[d] = NoBlock PROVE Span(f[d].ptr, f[d].size) = {} /\ f[d].ptr = 0
  BY <1>3 DEF NoBlock, Span
<1>4. ASSUME NEW d \in Client, NEW e \in Client, d # e, f[d] # NoBlock PROVE f[d].ptr # f[e].ptr
  <2>1. CASE e = c
    <3>1. f[d].ptr - HeaderSize \in Addr /\ f[d].ptr \in Int
      BY <1>2, <1>4, SoundFacts, AddrInt DEF HeaderTrue
    <3>2. f[d].ptr # 0
      BY <3>1, SlabHeapAssumption DEF Addr
    <3> QED BY <1>3, <2>1, <3>2
  <2>2. CASE e # c
    BY <1>2, <1>4, <2>2 DEF Agrees
  <2> QED BY <2>1, <2>2
<1>5. ASSUME NEW d \in Client, NEW w \in Span(f[d].ptr, f[d].size) PROVE g.memory[w] = d
  BY <1>2, <1>3
<1> QED BY <1>1, <1>2, <1>4, <1>5 DEF Agrees

\* What the invariant says, from heap and blocks that fit.
LEMMA FitsGives ==
  ASSUME Agrees(heap, block), result \in [size : Nat, null : BOOLEAN], RefusedOnlyWhenOut
  PROVE  HeapInv
<1>1. InUse(block) = Taken
  BY DEF InUse, Taken, Holds
<1>2. HeapTypeOK
  BY SoundFacts DEF HeapTypeOK, Agrees
<1>3. NoOverlap
  <2>1. /\ FreeChunks \cap Taken = {}
        /\ \A p, q \in FreeChunks \cup Taken : p # q => Chunk(p) \cap Chunk(q) = {}
        /\ \A p \in FreeChunks \cup Taken : Chunk(p) \subseteq Addr \ FreeMemory
    BY <1>1 DEF Agrees, Sound, Chunk, FreeChunks, FreeMemory
  <2> QED BY <2>1 DEF Agrees, NoOverlap, Holds
<1>4. ASSUME NEW c \in Client, block[c].size >= 2 PROVE block[c].ptr % 2 = 0
  <2>1. block[c] # NoBlock
    BY <1>4 DEF NoBlock
  <2>2. block[c].ptr \in InUse(block)
    BY <2>1 DEF InUse
  <2>3. PICK p \in Int : p = block[c].ptr /\ HeaderTrue(heap, p) /\ UsableSize(heap, p) >= block[c].size
    <3>1. block[c].ptr \in Int /\ block[c].size \in Nat
      BY BlockFields DEF Agrees
    <3>2. HeapType(heap) /\ HeaderTrue(heap, block[c].ptr)
      BY <2>2, SoundFacts DEF Agrees
    <3>3. UsableSize(heap, block[c].ptr) \in Nat
      BY <3>2, ChunkFacts
    <3> QED BY <2>1, <3>1, <3>2, <3>3 DEF Agrees
  <2>4. UsableSize(heap, p) >= 2
    <3>1. UsableSize(heap, p) \in Nat /\ block[c].size \in Nat
      BY <2>2, <2>3, SoundFacts, ChunkFacts, BlockFields DEF Agrees
    <3> QED BY <1>4, <2>3, <3>1
  <2>5. CASE heap.header[p - HeaderSize].class \in ClassIdx
    BY <2>3, <2>4, <2>5, AddrInt DEF HeaderTrue, UsableSize
  <2>6. CASE heap.header[p - HeaderSize].class \notin ClassIdx
    <3>1. PICK f \in HeapPage : p - HeaderSize = f * PageWords
      BY <2>3, <2>6 DEF HeaderTrue
    <3>2. f \in Int /\ PageWords \in Int /\ HeaderSize \in Int
      BY AddrInt, Sizes
    <3>3. PICK x \in Int : x = f * PageWords /\ x % 2 = 0
      <4>1. PageWords % 2 = 0
        BY SlabHeapAssumption
      <4>2. (f * PageWords) % 2 = 0
        BY <3>2, <4>1, EvenTimes
      <4>3. f * PageWords \in Int
        BY <3>2
      <4> QED BY <4>2, <4>3
    <3>4. (x + HeaderSize) % 2 = 0
      BY <3>2, <3>3, SlabHeapAssumption, EvenSum
    <3>5. p = x + HeaderSize
      BY <3>1, <3>2, <3>3
    <3> QED BY <2>3, <3>4, <3>5
  <2> QED BY <2>5, <2>6
<1>5. DataIntact
  BY DEF Agrees, DataIntact
<1> QED BY <1>1, <1>2, <1>3, <1>4, <1>5 DEF HeapInv, BlocksConsistent, SixteenByteAligned, Agrees

LEMMA GivesFits ==
  ASSUME HeapInv
  PROVE  Agrees(heap, block) /\ result \in [size : Nat, null : BOOLEAN] /\ RefusedOnlyWhenOut
<1>1. InUse(block) = Taken
  BY DEF InUse, Taken, Holds
<1> QED BY <1>1 DEF HeapInv, BlocksConsistent, HeapTypeOK, NoOverlap, DataIntact, Agrees, Holds

-----------------------------------------------------------------------------
(* The operations.                                                         *)

\* The blocks after c's has become the one of n words at p.
Updated(f, b, c, p, n) ==
  /\ f \in [Client -> [ptr : Addr, size : Nat]] /\ \A d \in Client \ {c} : f[d] = b[d]
  /\ f[c].ptr = p /\ f[c].size = n

\* malloc().
LEMMA MallocFits ==
  ASSUME NEW h, NEW b, Agrees(h, b), NEW c \in Client, b[c] = NoBlock, NEW n \in Nat, n >= 1,
         NEW a \in Alloc(h, n), NEW s, s = a.heap, NEW p, p = a.ptr,
         NEW g, g = Fill(s, p, p + n, c),
         NEW f, Updated(f, b, c, p, n)
  PROVE  Agrees(g, f)
<1>0. PICK U : U = Others(b, c)
  OBVIOUS
<1>1. Sound(h, U)
  BY <1>0, NoOwnBlock
<1>2. Sound(s, U \cup {p}) /\ p \notin U /\ Keeps(s, h, U) /\ n <= UsableSize(s, p)
  BY <1>1, AllocFacts DEF Granted
<1>3. HeapType(s) /\ HeaderTrue(s, p)
  BY <1>2, SoundFacts
<1>4. Span(p, n) \subseteq ChunkOf(s, p) /\ ChunkOf(s, p) \subseteq Addr
  BY <1>2, <1>3, WordsOfBlock, SoundFacts
<1>5. /\ SameBlocks(g, s)
      /\ \A w \in Addr : w \in Span(p, n) => g.memory[w] = c
      /\ \A w \in Addr : w \notin Span(p, n) => g.memory[w] = s.memory[w]
  <2>1. Span(p, n) = p .. (p + n) - 1
    BY <1>3, ChunkFacts DEF Span
  <2> QED BY <1>3, <2>1, FillFacts
<1>6. Sound(g, U \cup {p}) /\ Keeps(g, s, U)
  BY <1>2, <1>4, <1>5, MemoryWritten, OthersKeep
<1>7. Keeps(g, h, U)
  BY <1>2, <1>6, KeepsOn
<1>8. n <= UsableSize(g, p)
  BY <1>2, <1>5 DEF SameBlocks, UsableSize
<1>9. \A w \in Span(p, n) : g.memory[w] = c
  BY <1>4, <1>5
<1> QED BY <1>0, <1>2, <1>6, <1>7, <1>8, <1>9, BlockGiven DEF Updated

\* free().
LEMMA FreeFits ==
  ASSUME NEW h, NEW b, Agrees(h, b), NEW c \in Client, b[c] # NoBlock,
         NEW p, p = b[c].ptr, NEW g, g = Dealloc(h, p), NEW f, f = [b EXCEPT ![c] = NoBlock]
  PROVE  Agrees(g, f)
<1>0. PICK U : U = Others(b, c)
  OBVIOUS
<1>1. Sound(h, U \cup {p}) /\ p \notin U /\ p \in Addr
  BY <1>0, OwnBlock
<1>2. Sound(g, (U \cup {p}) \ {p}) /\ Keeps(g, h, (U \cup {p}) \ {p})
  BY <1>1, DeallocFacts
<1>3. (U \cup {p}) \ {p} = U
  BY <1>1
<1>4. NoBlock \in [ptr : Addr, size : Nat]
  <2>1. 0 \in Addr
    BY <1>1, Sizes DEF Addr
  <2> QED BY <2>1 DEF NoBlock
<1>5. f \in [Client -> [ptr : Addr, size : Nat]] /\ f[c] = NoBlock /\ \A d \in Client \ {c} : f[d] = b[d]
  <2>1. b \in [Client -> [ptr : Addr, size : Nat]]
    BY DEF Agrees
  <2> QED BY <1>4, <2>1
<1>6. Sound(g, U) /\ Keeps(g, h, U)
  BY <1>2, <1>3
<1> QED BY <1>0, <1>5, <1>6, BlockTaken

\* realloc() in place.
LEMMA InPlaceFits ==
  ASSUME NEW h, NEW b, Agrees(h, b), NEW c \in Client, b[c] # NoBlock, NEW n \in Nat, n >= 1,
         NEW p, p = b[c].ptr, NEW m, m = b[c].size, n <= UsableSize(h, p),
         NEW g, g = Fill(h, p + m, p + n, c),
         NEW f, Updated(f, b, c, p, n)
  PROVE  Agrees(g, f)
<1>0. PICK U : U = Others(b, c)
  OBVIOUS
<1>1. Sound(h, U \cup {p}) /\ p \notin U /\ p \in Int
  BY <1>0, OwnBlock
<1>2. HeapType(h) /\ HeaderTrue(h, p) /\ ChunkOf(h, p) \subseteq Addr
  BY <1>1, SoundFacts
<1>3. Span(p, n) \subseteq ChunkOf(h, p) /\ m \in Nat
  BY <1>2, WordsOfBlock, BlockFields DEF Agrees
<1>4. /\ SameBlocks(g, h)
      /\ \A w \in Addr : w \in p + m .. (p + n) - 1 => g.memory[w] = c
      /\ \A w \in Addr : w \notin p + m .. (p + n) - 1 => g.memory[w] = h.memory[w]
  BY <1>2, FillFacts
<1>5. p + m .. (p + n) - 1 \subseteq Span(p, n)
  BY <1>1, <1>3 DEF Span
<1>6. Sound(g, U \cup {p}) /\ Keeps(g, h, U)
  BY <1>1, <1>3, <1>4, <1>5, MemoryWritten, OthersKeep
<1>7. n <= UsableSize(g, p)
  BY <1>4 DEF SameBlocks, UsableSize
<1>8. \A w \in Span(p, m) : h.memory[w] = c
  BY DEF Agrees
<1>9. ASSUME NEW w \in Span(p, n) PROVE g.memory[w] = c
  <2>1. w \in Addr
    BY <1>2, <1>3
  <2>2. CASE w \in p + m .. (p + n) - 1
    BY <1>4, <2>1, <2>2
  <2>3. CASE w \notin p + m .. (p + n) - 1
    <3>1. w \in Span(p, m)
      BY <1>1, <1>3, <1>9, <2>3 DEF Span
    <3> QED BY <1>4, <1>8, <2>1, <2>3, <3>1
  <2> QED BY <2>2, <2>3
<1> QED BY <1>0, <1>1, <1>6, <1>7, <1>9, BlockGiven DEF Updated

\* The memory of s with l words copied from x to p, and s with this memory.
Copied(M, s, p, l, x) ==
  M = [w \in Addr |-> IF w \in Span(p, l) THEN s.memory[x + (w - p)] ELSE s.memory[w]]
Rewritten(k, s, M) == k = [s EXCEPT !.memory = M]

\* realloc() to a larger block.  x and p are the old and the new block, h, s,
\* k and d the heap before, with the new block, with the copy, and without the
\* old block.
LEMMA MoveFits ==
  ASSUME NEW h, NEW b, Agrees(h, b), NEW c \in Client, b[c] # NoBlock, NEW n \in Nat, n >= 1,
         NEW x, x = b[c].ptr, NEW m, m = b[c].size, n > UsableSize(h, x),
         NEW a \in Alloc(h, n), NEW s, s = a.heap, NEW p, p = a.ptr,
         NEW l, l = CopyLength(UsableSize(h, x), n),
         NEW M, Copied(M, s, p, l, x), NEW k, Rewritten(k, s, M),
         NEW d, d = Dealloc(k, x), NEW g, g = Fill(d, p + m, p + n, c),
         NEW f, Updated(f, b, c, p, n)
  PROVE  Agrees(g, f)
<1>0. PICK U : U = Others(b, c)
  OBVIOUS
<1>1. Sound(h, U \cup {x}) /\ x \notin U /\ x \in Int
  BY <1>0, OwnBlock
<1>2. HeapType(h) /\ HeaderTrue(h, x) /\ ChunkOf(h, x) \subseteq Addr
  BY <1>1, SoundFacts
<1>3. PICK u \in Nat : u = UsableSize(h, x)
  BY <1>2, ChunkFacts
<1>4. l = u /\ m \in Nat /\ m <= u /\ u < n
  BY <1>3, BlockFields DEF CopyLength, Agrees
\* The new block.
<1>5. /\ Sound(s, (U \cup {x}) \cup {p}) /\ p \notin U \cup {x} /\ Keeps(s, h, U \cup {x})
      /\ n <= UsableSize(s, p)
  BY <1>1, AllocFacts DEF Granted
<1>6. HeapType(s) /\ HeaderTrue(s, p) /\ p \in Int /\ ChunkOf(s, p) \subseteq Addr
  BY <1>5, SoundFacts, ChunkFacts
<1>7. Span(p, n) \subseteq ChunkOf(s, p)
  BY <1>5, <1>6, WordsOfBlock
\* The copy.
<1>8. ASSUME NEW w \in Span(p, l) PROVE w \in Span(p, n) /\ x + (w - p) \in ChunkOf(h, x)
  <2>1. ChunkOf(h, x) = x - HeaderSize .. x + u - 1 /\ HeaderSize \in Nat
    BY <1>2, <1>3, ChunkFacts, Sizes
  <2>2. Span(p, l) = p .. p + u - 1 /\ Span(p, n) = p .. p + n - 1
    BY <1>4 DEF Span
  <2>3. w \in p .. p + u - 1 /\ w \in Int
    BY <1>6, <2>2
  <2>4. w \in p .. p + n - 1 /\ x + (w - p) \in x - HeaderSize .. x + u - 1
    <3>1. /\ x \in Int /\ p \in Int /\ w \in Int /\ HeaderSize \in Nat /\ u < n
          /\ p <= w /\ w <= p + u - 1
      BY <1>1, <1>4, <1>6, <2>1, <2>3
    <3>2. PICK y \in Int : y = x + (w - p)
      BY <3>1
    <3>3. x <= y /\ y <= x + u - 1 /\ w <= p + n - 1
      BY <3>1, <3>2
    <3> QED BY <3>1, <3>2, <3>3
  <2> QED BY <2>1, <2>2, <2>4
<1>9. ASSUME NEW w \in ChunkOf(h, x) PROVE s.memory[w] = h.memory[w] /\ w \in Addr
  BY <1>2, <1>5 DEF Keeps
<1>10. M \in [Addr -> Client \cup {Nobody}]
  <2>1. s.memory \in [Addr -> Client \cup {Nobody}]
    BY <1>6, HeapFields
  <2> QED BY <1>8, <1>9, <2>1 DEF Copied
<1>11. SameBlocks(k, s) /\ k.memory = M
  BY <1>6, <1>10, MemoryReplaced DEF Rewritten
<1>12. ASSUME NEW w \in Span(p, m) PROVE M[w] = c
  <2>1. w \in Span(p, l) /\ w \in Int
    BY <1>4, <1>6 DEF Span
  <2>2. w \in Addr /\ M[w] = s.memory[x + (w - p)]
    BY <1>6, <1>7, <1>8, <2>1 DEF Copied
  <2>3. s.memory[x + (w - p)] = h.memory[x + (w - p)]
    BY <1>8, <1>9, <2>1
  <2>4. x + (w - p) \in Span(x, m)
    BY <1>1, <1>4, <1>6 DEF Span
  <2>5. \A v \in Span(x, m) : h.memory[v] = c
    BY DEF Agrees
  <2> QED BY <2>2, <2>3, <2>4, <2>5
<1>13. \A w \in Addr : w \notin ChunkOf(s, p) => M[w] = s.memory[w]
  BY <1>7, <1>8 DEF Copied
<1>14. Sound(k, (U \cup {x}) \cup {p}) /\ Keeps(k, s, U \cup {x})
  BY <1>5, <1>11, <1>13, MemoryWritten, OthersKeep
\* The old block goes.
<1>15. ((U \cup {x}) \cup {p}) \ {x} = U \cup {p} /\ p \notin U /\ p # x
  BY <1>1, <1>5
<1>16. Sound(d, U \cup {p}) /\ Keeps(d, k, U \cup {p})
  <2>1. Sound(d, ((U \cup {x}) \cup {p}) \ {x}) /\ Keeps(d, k, ((U \cup {x}) \cup {p}) \ {x})
    <3>1. x \in (U \cup {x}) \cup {p}
      OBVIOUS
    <3> QED BY <1>14, <3>1, DeallocFacts
  <2> QED BY <1>15, <2>1
<1>17. /\ HeapType(d) /\ ChunkOf(d, p) = ChunkOf(s, p) /\ UsableSize(d, p) = UsableSize(s, p)
       /\ \A w \in ChunkOf(s, p) : d.memory[w] = M[w]
  <2>1. d.header[p - HeaderSize] = k.header[p - HeaderSize] /\ \A w \in ChunkOf(k, p) : d.memory[w] = k.memory[w]
    BY <1>16 DEF Keeps
  <2>2. k.header[p - HeaderSize] = s.header[p - HeaderSize]
    BY <1>11 DEF SameBlocks
  <2>3. ChunkOf(k, p) = ChunkOf(s, p) /\ UsableSize(k, p) = UsableSize(s, p)
    BY <2>2, SameChunk
  <2>4. ChunkOf(d, p) = ChunkOf(k, p) /\ UsableSize(d, p) = UsableSize(k, p)
    BY <2>1, SameChunk
  <2> QED BY <1>11, <1>16, <2>1, <2>3, <2>4, SoundFacts
\* What the client writes after it.
<1>18. /\ SameBlocks(g, d)
       /\ \A w \in Addr : w \in p + m .. (p + n) - 1 => g.memory[w] = c
       /\ \A w \in Addr : w \notin p + m .. (p + n) - 1 => g.memory[w] = d.memory[w]
  BY <1>17, FillFacts
<1>19. p + m .. (p + n) - 1 \subseteq Span(p, n)
  BY <1>4, <1>6 DEF Span
<1>20. Sound(g, U \cup {p}) /\ Keeps(g, d, U)
  BY <1>7, <1>15, <1>16, <1>17, <1>18, <1>19, MemoryWritten, OthersKeep
<1>21. Keeps(g, h, U)
  <2>1. Keeps(k, h, (U \cup {x}) \cap (U \cup {x}))
    BY <1>5, <1>14, KeepsOn
  <2>2. Keeps(d, h, ((U \cup {x}) \cap (U \cup {x})) \cap (U \cup {p}))
    BY <1>16, <2>1, KeepsOn
  <2>3. Keeps(g, h, (((U \cup {x}) \cap (U \cup {x})) \cap (U \cup {p})) \cap U)
    BY <1>20, <2>2, KeepsOn
  <2>4. (((U \cup {x}) \cap (U \cup {x})) \cap (U \cup {p})) \cap U = U
    OBVIOUS
  <2> QED BY <2>3, <2>4
<1>22. n <= UsableSize(g, p)
  BY <1>5, <1>17, <1>18 DEF SameBlocks, UsableSize
<1>23. ASSUME NEW w \in Span(p, n) PROVE g.memory[w] = c
  <2>1. w \in Addr /\ w \in ChunkOf(s, p)
    BY <1>6, <1>7
  <2>2. CASE w \in p + m .. (p + n) - 1
    BY <1>18, <2>1, <2>2
  <2>3. CASE w \notin p + m .. (p + n) - 1
    <3>1. w \in Span(p, m)
      BY <1>4, <1>6, <1>23, <2>3 DEF Span
    <3> QED BY <1>12, <1>17, <1>18, <2>1, <2>3, <3>1
  <2> QED BY <2>2, <2>3
<1> QED BY <1>0, <1>15, <1>20, <1>21, <1>22, <1>23, BlockGiven DEF Updated

-----------------------------------------------------------------------------

\* Every state.
LEMMA FitsGivesInv ==
  Agrees(heap, block) /\ result \in [size : Nat, null : BOOLEAN] /\ RefusedOnlyWhenOut => HeapInv
BY FitsGives

LEMMA FitsGivesNext ==
  ASSUME Agrees(heap', block'), result' \in [size : Nat, null : BOOLEAN], RefusedOnlyWhenOut'
  PROVE  HeapInv'
<1>1. (Agrees(heap, block) /\ result \in [size : Nat, null : BOOLEAN] /\ RefusedOnlyWhenOut => HeapInv)'
  BY FitsGivesInv, PTL
<1> QED BY <1>1

\* The first heap: all pages are free.
LEMMA HeapInitInv == HeapInit => HeapInv
<1> SUFFICES ASSUME HeapInit PROVE HeapInv
  OBVIOUS
<1>1. HeapType(heap) /\ \A k \in ClassIdx : heap.free_list[k] = << >>
  <2>1. << >> \in Seq(Addr)
    OBVIOUS
  <2>2. [size |-> 0, class |-> Large] \in [size : Nat, class : ClassIdx \cup {Large}]
    OBVIOUS
  <2>3. heap \in [pages : SUBSET HeapPage, free_list : [ClassIdx -> Seq(Addr)],
                  header : [Addr -> [size : Nat, class : ClassIdx \cup {Large}]],
                  memory : [Addr -> Client \cup {Nobody}]]
    BY <2>1, <2>2 DEF HeapInit
  <2> QED BY <2>3 DEF HeapInit, HeapType
<1>2. 0 \in Addr
  <2>1. PageCount * PageWords >= 1 /\ PageCount * PageWords \in Nat
    BY SlabHeapAssumption, Z3T(30)
  <2> QED BY <2>1 DEF Addr
<1>3. block \in [Client -> [ptr : Addr, size : Nat]] /\ \A c \in Client : block[c] = NoBlock
  BY <1>2 DEF HeapInit, NoBlock
<1>4. FreeIn(heap) = {} /\ InUse(block) = {} /\ ListsTrue(heap)
  BY <1>1, <1>3 DEF FreeIn, Listed, InUse, ListsTrue
<1>5. Sound(heap, InUse(block))
  BY <1>1, <1>4 DEF Sound
<1>6. \A c \in Client : \A w \in Span(block[c].ptr, block[c].size) : heap.memory[w] = c
  <2>1. ASSUME NEW c \in Client PROVE Span(block[c].ptr, block[c].size) = {}
    BY <1>3 DEF NoBlock, Span
  <2> QED BY <2>1
<1>7. Agrees(heap, block)
  BY <1>3, <1>5, <1>6 DEF Agrees
<1>8. result \in [size : Nat, null : BOOLEAN] /\ RefusedOnlyWhenOut
  <2>1. result = [size |-> 0, null |-> FALSE] /\ result.null = FALSE
    BY DEF HeapInit
  <2> QED BY <2>1 DEF RefusedOnlyWhenOut
<1> QED BY <1>7, <1>8, FitsGives

\* A call that does not return null.
LEMMA NotRefused ==
  ASSUME NEW n \in Nat, Returned(n, FALSE)
  PROVE  result' \in [size : Nat, null : BOOLEAN] /\ RefusedOnlyWhenOut'
<1>1. result' = [size |-> n, null |-> FALSE]
  BY DEF Returned
<1>2. result'.null = FALSE
  BY <1>1
<1> QED BY <1>1, <1>2 DEF RefusedOnlyWhenOut

LEMMA UpdatedBlocks ==
  ASSUME NEW b \in [Client -> [ptr : Addr, size : Nat]], NEW c \in Client, NEW p \in Addr, NEW n \in Nat
  PROVE  /\ Updated([b EXCEPT ![c] = [ptr |-> p, size |-> n]], b, c, p, n)
         /\ Updated([b EXCEPT ![c].size = n], b, c, b[c].ptr, n)
<1>1. Updated([b EXCEPT ![c] = [ptr |-> p, size |-> n]], b, c, p, n)
  BY DEF Updated
<1>2. Updated([b EXCEPT ![c].size = n], b, c, b[c].ptr, n)
  BY DEF Updated
<1> QED BY <1>1, <1>2

LEMMA AllocInMemory ==
  ASSUME NEW h, NEW U, Sound(h, U), NEW n \in Nat, n >= 1, NEW a \in Alloc(h, n)
  PROVE  a.ptr \in Addr
<1>1. Sound(a.heap, U \cup {a.ptr})
  BY AllocFacts DEF Granted
<1>2. HeaderTrue(a.heap, a.ptr)
  BY <1>1, SoundFacts
<1> QED BY <1>2 DEF HeaderTrue

LEMMA MallocInv ==
  ASSUME HeapInv, NEW c \in Client, NEW n \in Request, Malloc(c, n)
  PROVE  HeapInv'
<1>1. n \in Nat /\ n >= 1 /\ Agrees(heap, block)
  BY Sizes, GivesFits
<1>2. block[c] = NoBlock /\ block \in [Client -> [ptr : Addr, size : Nat]] /\ Sound(heap, InUse(block))
  BY <1>1 DEF Malloc, Holds, Agrees
<1>3. PICK a \in Alloc(heap, n) : /\ heap' = Fill(a.heap, a.ptr, a.ptr + n, c)
                                  /\ block' = [block EXCEPT ![c] = [ptr |-> a.ptr, size |-> n]]
  BY DEF Malloc
<1>4. a.ptr \in Addr
  BY <1>1, <1>2, AllocInMemory
<1>5. Updated(block', block, c, a.ptr, n)
  BY <1>1, <1>2, <1>3, <1>4, UpdatedBlocks
<1>6. Agrees(heap', block')
  BY <1>1, <1>2, <1>3, <1>5, MallocFits
<1>7. Returned(n, FALSE)
  BY DEF Malloc
<1> QED BY <1>1, <1>6, <1>7, NotRefused, FitsGivesNext

LEMMA AllocNullInv ==
  ASSUME HeapInv, NEW c \in Client, NEW n \in Request, AllocNull(c, n)
  PROVE  HeapInv'
<1>1. n \in Nat /\ Agrees(heap, block) /\ Agrees(heap', block')
  BY Sizes, GivesFits DEF AllocNull
<1>2. HeapType(heap) /\ Alloc(heap, n) = {} /\ heap' = heap
  BY <1>1, SoundFacts DEF Agrees, AllocNull
<1>3. ClassFor(n) # {} => heap.pages = {} \/ n > PageWords \div 2
  BY <1>1, <1>2, AllocFails
<1>4. result' = [size |-> n, null |-> TRUE]
  BY DEF AllocNull, Returned
<1>5. result' \in [size : Nat, null : BOOLEAN] /\ result'.size = n
  BY <1>1, <1>4
<1>6. RefusedOnlyWhenOut'
  BY <1>2, <1>3, <1>5 DEF RefusedOnlyWhenOut
<1> QED BY <1>1, <1>5, <1>6, FitsGivesNext

LEMMA FreeInv ==
  ASSUME HeapInv, NEW c \in Client, Free(c)
  PROVE  HeapInv'
<1>1. Agrees(heap, block)
  BY GivesFits
<1>2. /\ block[c] # NoBlock /\ heap' = Dealloc(heap, block[c].ptr)
      /\ block' = [block EXCEPT ![c] = NoBlock] /\ Returned(0, FALSE)
  BY DEF Free, Holds
<1>3. Agrees(heap', block')
  BY <1>1, <1>2, FreeFits
<1> QED BY <1>2, <1>3, NotRefused, FitsGivesNext

LEMMA ReallocInPlaceInv ==
  ASSUME HeapInv, NEW c \in Client, NEW n \in Request, ReallocInPlace(c, n)
  PROVE  HeapInv'
<1>1. n \in Nat /\ n >= 1 /\ Agrees(heap, block)
  BY Sizes, GivesFits
<1>2. /\ block[c] # NoBlock /\ n <= UsableSize(heap, block[c].ptr)
      /\ heap' = Fill(heap, block[c].ptr + block[c].size, block[c].ptr + n, c)
      /\ block' = [block EXCEPT ![c].size = n] /\ Returned(n, FALSE)
  BY DEF ReallocInPlace, Holds
<1>3. block \in [Client -> [ptr : Addr, size : Nat]] /\ block[c].ptr \in Addr
  BY <1>1, BlockFields DEF Agrees
<1>4. Updated(block', block, c, block[c].ptr, n)
  BY <1>1, <1>2, <1>3, UpdatedBlocks
<1>5. Agrees(heap', block')
  BY <1>1, <1>2, <1>4, InPlaceFits
<1> QED BY <1>1, <1>2, <1>5, NotRefused, FitsGivesNext

LEMMA ReallocMoveInv ==
  ASSUME HeapInv, NEW c \in Client, NEW n \in Request, ReallocMove(c, n)
  PROVE  HeapInv'
<1>1. n \in Nat /\ n >= 1 /\ Agrees(heap, block)
  BY Sizes, GivesFits
<1>2. PICK x, m, l : x = block[c].ptr /\ m = block[c].size /\ l = CopyLength(UsableSize(heap, x), n)
  OBVIOUS
<1>3. block[c] # NoBlock /\ n > UsableSize(heap, x) /\ Returned(n, FALSE)
  BY <1>2 DEF ReallocMove, Holds
<1>4. block \in [Client -> [ptr : Addr, size : Nat]] /\ Sound(heap, InUse(block))
  BY <1>1 DEF Agrees
<1>5. PICK a \in Alloc(heap, n) :
        /\ heap' = Fill(Dealloc([a.heap EXCEPT !.memory =
                             [w \in Addr |-> IF w \in Span(a.ptr, l)
                                               THEN @[x + (w - a.ptr)] ELSE @[w]]], x),
                        a.ptr + m, a.ptr + n, c)
        /\ block' = [block EXCEPT ![c] = [ptr |-> a.ptr, size |-> n]]
  BY <1>2, Zenon DEF ReallocMove
<1>6. PICK s, p : s = a.heap /\ p = a.ptr
  OBVIOUS
<1>7. PICK M : M = [w \in Addr |-> IF w \in Span(p, l) THEN s.memory[x + (w - p)] ELSE s.memory[w]]
  OBVIOUS
<1>8. PICK k : k = [s EXCEPT !.memory = M]
  OBVIOUS
<1>9. PICK d : d = Dealloc(k, x)
  OBVIOUS
<1>10. heap' = Fill(d, p + m, p + n, c) /\ block' = [block EXCEPT ![c] = [ptr |-> p, size |-> n]]
  BY <1>5, <1>6, <1>7, <1>8, <1>9, Zenon
<1>11. Copied(M, s, p, l, x) /\ Rewritten(k, s, M)
  BY <1>7, <1>8, Zenon DEF Copied, Rewritten
<1>12. p \in Addr
  BY <1>1, <1>4, <1>6, AllocInMemory
<1>13. Updated(block', block, c, p, n)
  BY <1>1, <1>4, <1>10, <1>12, UpdatedBlocks
<1>14. Agrees(heap', block')
  BY <1>1, <1>2, <1>3, <1>6, <1>9, <1>10, <1>11, <1>13, MoveFits
<1> QED BY <1>1, <1>3, <1>14, NotRefused, FitsGivesNext

\* The heap and the blocks of the clients agree in every state: the inductive
\* invariant of SlabHeap.
THEOREM HeapInvariance == HeapSpec => []HeapInv
<1>1. HeapInv /\ [HeapNext]_heapVars => HeapInv'
  <2> SUFFICES ASSUME HeapInv, [HeapNext]_heapVars PROVE HeapInv'
    OBVIOUS
  <2>1. CASE UNCHANGED heapVars
    <3>1. Agrees(heap', block') /\ result' \in [size : Nat, null : BOOLEAN] /\ RefusedOnlyWhenOut'
      BY <2>1, GivesFits DEF heapVars, RefusedOnlyWhenOut
    <3> QED BY <3>1, FitsGivesNext
  <2>2. CASE HeapNext
    <3>1. PICK c \in Client :
            \/ Free(c)
            \/ \E n \in Request :
                 Malloc(c, n) \/ AllocNull(c, n) \/ ReallocInPlace(c, n) \/ ReallocMove(c, n)
      BY <2>2 DEF HeapNext
    <3> QED BY <3>1, FreeInv, MallocInv, AllocNullInv, ReallocInPlaceInv, ReallocMoveInv
  <2> QED BY <2>1, <2>2
<1> QED BY <1>1, HeapInitInv, PTL DEF HeapSpec

\* The blocks of the heap never overlap, reach into a free page or are smaller
\* than asked, whatever the classes, the sizes and the clients: the header that
\* free() and realloc() believe is always the one that alloc() wrote.
THEOREM HeapBlocksCorrect == HeapSpec => []BlocksConsistent
<1>1. HeapInv => BlocksConsistent
  BY DEF HeapInv
<1> QED BY <1>1, HeapInvariance, PTL

\* A client always finds in its block what it wrote there: refill_class(),
\* headers and list nodes of others and the copy of realloc() spare it.
THEOREM HeapDataCorrect == HeapSpec => []DataIntact
<1>1. HeapInv => DataIntact
  BY DEF HeapInv
<1> QED BY <1>1, HeapInvariance, PTL

\* malloc() returns null for a size that has a class only when no page is left,
\* except beyond half a page.
THEOREM HeapRefusalsCorrect == HeapSpec => []RefusedOnlyWhenOut
<1>1. HeapInv => RefusedOnlyWhenOut
  BY DEF HeapInv
<1> QED BY <1>1, HeapInvariance, PTL

-----------------------------------------------------------------------------
(* The page allocator.                                                     *)

USE PhysAllocatorAssumption


-----------------------------------------------------------------------------
(* Arithmetic.                                                             *)

\* Division with remainder.
LEMMA DivMod ==
  ASSUME NEW a \in Nat, NEW n \in Nat \ {0}
  PROVE  /\ a \div n \in Nat /\ a % n \in 0 .. n - 1
         /\ a = n * (a \div n) + (a % n)
  BY Z3T(30)

\* Division is monotonic.
LEMMA DivMonotonic ==
  ASSUME NEW a \in Nat, NEW b \in Nat, NEW n \in Nat \ {0}, a <= b
  PROVE  a \div n <= b \div n
  BY Z3T(30)

\* Multiplication is monotonic, and strictly so in its quotient.
LEMMA TimesMonotonic ==
  ASSUME NEW a \in Nat, NEW b \in Nat, NEW n \in Nat
  PROVE  /\ a <= b => a * n <= b * n
         /\ a < b => a * n + n <= b * n
  BY Z3T(30)

\* A multiple is the multiple of its quotient.
LEMMA MultipleOf ==
  ASSUME NEW s \in Nat, NEW a \in Nat \ {0}
  PROVE  s % a = 0 => s = (s \div a) * a
  BY DivMod, Z3T(30)

\* AlignUp() is the first multiple not below its argument.
LEMMA AlignUpFacts ==
  ASSUME NEW c \in Nat, NEW a \in Nat \ {0}
  PROVE  /\ AlignUp(c, a) \in Nat /\ AlignUp(c, a) >= c
         /\ AlignUp(c, a) % a = 0
         /\ \A s \in Nat : s >= c /\ s % a = 0 => s >= AlignUp(c, a)
<1> DEFINE q == (c + a - 1) \div a
<1>1. q \in Nat /\ (c + a - 1) % a \in 0 .. a - 1
      /\ c + a - 1 = a * q + ((c + a - 1) % a)
  BY DivMod, c + a - 1 \in Nat
<1>2. AlignUp(c, a) = q * a
  BY DEF AlignUp
<1>3. q * a \in Nat /\ q * a = a * q
  BY <1>1
<1> HIDE DEF q
<1>4. q * a >= c /\ q * a < c + a
  BY <1>1, <1>3
<1>5. (q * a) % a = 0
  <2> DEFINE p == (q * a) \div a
  <2>1. p \in Nat /\ (q * a) % a \in 0 .. a - 1 /\ q * a = a * p + ((q * a) % a)
    BY DivMod, <1>3
  <2>2. p * a \in Nat /\ a * p = p * a
    BY <2>1
  <2> HIDE DEF p
  <2>3. ~(p < q)
    BY <1>1, <2>1, <2>2, <1>3, TimesMonotonic
  <2>4. ~(q < p)
    BY <1>1, <2>1, <2>2, <1>3, TimesMonotonic
  <2>5. p = q
    BY <1>1, <2>1, <2>3, <2>4
  <2> QED BY <2>1, <2>2, <2>5, <1>3
<1>6. ASSUME NEW s \in Nat, s >= c, s % a = 0 PROVE s >= q * a
  <2>1. s \div a \in Nat /\ s = (s \div a) * a
    BY <1>6, MultipleOf, DivMod
  <2>2. CASE s \div a < q
    <3>1. (s \div a) * a + a <= q * a
      BY <2>1, <2>2, <1>1, TimesMonotonic
    <3> QED BY <3>1, <2>1, <1>3, <1>4, <1>6
  <2>3. CASE q <= s \div a
    BY <2>1, <2>3, <1>1, TimesMonotonic
  <2> QED BY <2>1, <2>2, <2>3, <1>1
<1> QED BY <1>2, <1>3, <1>4, <1>5, <1>6

-----------------------------------------------------------------------------
(* Finite sets of naturals.                                                *)

\* A set of naturals has a least element.
LEMMA LeastOf ==
  ASSUME NEW T \in SUBSET Nat, T # {}
  PROVE  \E x \in T : \A y \in T : x <= y
<1> DEFINE R == OpToRel(<, Nat)
<1>1. IsWellFoundedOn(R, Nat)
  BY NatLessThanWellFounded
<1>2. \A x, y \in Nat : <<y, x>> \in R <=> y < x
  BY DEF OpToRel
<1> HIDE DEF R
<1>3. PICK x \in T : \A y \in T : ~(<<y, x>> \in R)
  BY <1>1, WFMin
<1>4. ASSUME NEW y \in T PROVE x <= y
  <2>1. x \in Nat /\ y \in Nat /\ ~(y < x)
    BY <1>2, <1>3
  <2> QED BY <2>1
<1> QED BY <1>4

\* A finite set of naturals has a greatest one: a smallest set without one
\* would have it as soon as an element is put back.
LEMMA GreatestOf ==
  ASSUME NEW S \in SUBSET Nat, IsFiniteSet(S), S # {}
  PROVE  \E x \in S : \A y \in S : y <= x
<1> DEFINE Top(U) == \E x \in U : \A y \in U : y <= x
           Bad == {n \in Nat : \E U \in SUBSET S : U # {} /\ Cardinality(U) = n /\ ~Top(U)}
<1>1. SUFFICES ASSUME Bad # {} PROVE FALSE
  <2>1. Cardinality(S) \in Nat
    BY FS_CardinalityType
  <2> QED BY <2>1, <1>1
<1>2. PICK n \in Bad : \A m \in Bad : n <= m
  BY <1>1, LeastOf
<1>3. PICK U \in SUBSET S : U # {} /\ Cardinality(U) = n /\ ~Top(U)
  BY <1>2
<1>4. PICK u \in U : TRUE
  BY <1>3
<1>5. IsFiniteSet(U)
  BY FS_Subset
<1>6. Cardinality(U \ {u}) = n - 1 /\ n - 1 \in Nat
  <2>1. Cardinality(U) \in Nat /\ Cardinality(U) # 0
    BY <1>3, <1>5, FS_CardinalityType, FS_EmptySet
  <2>2. Cardinality(U \ {u}) = Cardinality(U) - 1
    BY <1>5, FS_RemoveElement
  <2> QED BY <2>1, <2>2, <1>3
<1>7. CASE U \ {u} = {}
  BY <1>3, <1>7
<1>8. CASE U \ {u} # {}
  <2>1. Top(U \ {u})
    BY <1>2, <1>6, <1>8
  <2>2. PICK t \in U \ {u} : \A y \in U \ {u} : y <= t
    BY <2>1
  <2>3. CASE t <= u
    BY <2>2, <2>3, <1>3
  <2>4. CASE u <= t
    BY <2>2, <2>4, <1>3
  <2> QED BY <2>3, <2>4
<1> QED BY <1>7, <1>8
-----------------------------------------------------------------------------
(* Pages.                                                                  *)

\* The pages are MaxPages many, and so any set of them is finite.
LEMMA PageFacts ==
  /\ IsFiniteSet(Page)
  /\ Cardinality(Page) = MaxPages
  /\ \A S \in SUBSET Page : IsFiniteSet(S) /\ Cardinality(S) \in 0 .. MaxPages
<1>1. IsFiniteSet(Page) /\ Cardinality(Page) = MaxPages
  BY FS_Interval, 0 \in Int, MaxPages - 1 \in Int DEF Page
<1>2. ASSUME NEW S \in SUBSET Page
      PROVE  IsFiniteSet(S) /\ Cardinality(S) \in 0 .. MaxPages
  BY <1>1, FS_Subset, FS_CardinalityType
<1> QED BY <1>1, <1>2

\* A run has as many pages as it says.
LEMMA RunFacts ==
  ASSUME NEW s \in Nat, NEW n \in Nat
  PROVE  IsFiniteSet(Run(s, n)) /\ Cardinality(Run(s, n)) = n
<1>1. s \in Int /\ s + n - 1 \in Int
  OBVIOUS
<1> QED BY <1>1, FS_Interval DEF Run

\* A set of pages in two parts.
LEMMA CardinalityOfParts ==
  ASSUME NEW B \in SUBSET Page, NEW C \in SUBSET Page, B \cap C = {}
  PROVE  Cardinality(B \cup C) = Cardinality(B) + Cardinality(C)
<1>1. /\ IsFiniteSet(B) /\ Cardinality(B) \in Nat
      /\ IsFiniteSet(C) /\ Cardinality(C) \in Nat
  BY PageFacts
<1>2. Cardinality(B \cup C) = Cardinality(B) + Cardinality(C) - Cardinality(B \cap C)
  BY <1>1, FS_Union
<1>3. Cardinality(B \cap C) = 0
  BY FS_EmptySet
<1> QED BY <1>1, <1>2, <1>3

\* init() counts the pages up to the end of the highest region, so that every
\* usable page is among them.
LEMMA TotalPagesFacts ==
  /\ TotalPages \in 0 .. MaxPages
  /\ UsablePages \subseteq 0 .. TotalPages - 1
<1> DEFINE ends == {r.base + r.length : r \in Region} \cup {0}
           top == CHOOSE e \in ends : \A d \in ends : d <= e
<1>1. ends \in SUBSET Nat /\ ends # {}
  OBVIOUS
<1>2. IsFiniteSet(ends)
  <2> DEFINE T == {r.base + r.length : r \in Region}
             f == [r \in Region |-> r.base + r.length]
  <2>1. IsFiniteSet(T)
    <3>1. f \in Surjection(Region, T)
      BY DEF Surjection
    <3> QED BY <3>1, FS_Surjection
  <2> QED BY <2>1, FS_AddElement
<1>3. \E e \in ends : \A d \in ends : d <= e
  BY <1>1, <1>2, GreatestOf
<1>4. top \in ends /\ \A d \in ends : d <= top
  BY <1>3
<1>5. TotalPages = Least(top \div PageSize, MaxPages)
  BY DEF TotalPages
<1> HIDE DEF top
<1>6. top \in Nat
  BY <1>1, <1>4
<1>7. TotalPages \in 0 .. MaxPages
  BY <1>5, <1>6, DivMod DEF Least
<1>8. ASSUME NEW r \in Region, NEW p \in Usable(r) PROVE p \in 0 .. TotalPages - 1
  <2>1. r.base \in Nat /\ r.length \in Nat
    OBVIOUS
  <2>2. (r.base + r.length) \div PageSize <= top \div PageSize
    <3>1. r.base + r.length \in ends
      OBVIOUS
    <3>2. r.base + r.length <= top /\ r.base + r.length \in Nat
      BY <2>1, <3>1, <1>4
    <3> QED BY <3>2, <1>6, DivMonotonic
  <2>3. /\ (r.base + PageSize - 1) \div PageSize \in Nat
        /\ (r.base + r.length) \div PageSize \in Nat
        /\ top \div PageSize \in Nat
    BY <2>1, <1>6, DivMod, r.base + PageSize - 1 \in Nat, r.base + r.length \in Nat
  <2> QED BY <2>2, <2>3, <1>5 DEF Usable, Least
<1> QED BY <1>7, <1>8 DEF UsablePages

\* Every byte of a page that init() frees is in the region.
LEMMA UsableFacts ==
  ASSUME NEW r \in Region, NEW p \in Usable(r)
  PROVE  /\ p \in Page
         /\ r.base <= p * PageSize /\ (p + 1) * PageSize <= r.base + r.length
<1> DEFINE lo == (r.base + PageSize - 1) \div PageSize
           hi == (r.base + r.length) \div PageSize
<1>1. r.base \in Nat /\ r.length \in Nat
  OBVIOUS
<1>2. /\ lo \in Nat /\ (r.base + PageSize - 1) % PageSize \in 0 .. PageSize - 1
      /\ r.base + PageSize - 1 = PageSize * lo + ((r.base + PageSize - 1) % PageSize)
  BY <1>1, DivMod, r.base + PageSize - 1 \in Nat
<1>3. /\ hi \in Nat /\ (r.base + r.length) % PageSize \in 0 .. PageSize - 1
      /\ r.base + r.length = PageSize * hi + ((r.base + r.length) % PageSize)
  BY <1>1, DivMod, r.base + r.length \in Nat
<1>4. p \in lo .. Least(hi, MaxPages) - 1
  BY DEF Usable
<1> HIDE DEF lo, hi
<1>5. p \in Nat /\ lo <= p /\ p + 1 <= hi /\ p < MaxPages
  BY <1>2, <1>3, <1>4 DEF Least
<1>6. lo * PageSize <= p * PageSize /\ (p + 1) * PageSize <= hi * PageSize
  BY <1>2, <1>3, <1>5, TimesMonotonic
<1>7. /\ lo * PageSize = PageSize * lo /\ lo * PageSize \in Nat
      /\ hi * PageSize = PageSize * hi /\ hi * PageSize \in Nat
      /\ p * PageSize \in Nat /\ (p + 1) * PageSize \in Nat
  BY <1>2, <1>3, <1>5
<1> QED BY <1>1, <1>2, <1>3, <1>5, <1>6, <1>7 DEF Page
-----------------------------------------------------------------------------
(* The invariant.                                                          *)

\* A run of n pages that fits is n free pages: when fewer are free none fits.
LEMMA FitsCounts ==
  ASSUME TypeOK, FreeCountExact, NEW s \in Page, NEW n \in Nat, NEW a, Fits(s, n, a)
  PROVE  n <= free_pages
<1>1. s \in Nat /\ Run(s, n) \in SUBSET (Page \ bitmap)
  BY DEF Fits, Run, Page, TypeOK
<1>2. IsFiniteSet(Page \ bitmap)
  BY PageFacts, Page \ bitmap \in SUBSET Page
<1>3. Cardinality(Run(s, n)) <= Cardinality(Page \ bitmap)
  BY <1>1, <1>2, FS_Subset
<1> QED BY <1>1, <1>3, RunFacts DEF FreeCountExact

\* init() frees the usable pages and no other.
LEMMA InitIInv == Init => IInv
<1> SUFFICES ASSUME Init PROVE IInv
  OBVIOUS
<1>1. UsablePages \subseteq Page
  BY UsableFacts DEF UsablePages
<1>2. Page \ bitmap = UsablePages
  BY <1>1 DEF Init
<1>3. Cardinality(UsablePages) \in 0 .. MaxPages
  BY <1>1, PageFacts
<1>4. TypeOK
  BY <1>3, TotalPagesFacts DEF Init, TypeOK
<1>5. FreeCountExact
  BY <1>2, TotalPagesFacts DEF Init, FreeCountExact
<1>6. OnlyUsableMemory
  <2>1. UNION {Run(g.start, g.count) : g \in grants} = {} /\ reserved = {}
    BY DEF Init
  <2> QED BY <2>1, <1>2, UsableFacts DEF OnlyUsableMemory, UsablePages
<1> QED BY <1>4, <1>5, <1>6
      DEF Init, IInv, PagesConsistent, GrantsDisjoint, GrantsInRange, IdleInv, ScanInv

\* mark_used() takes pages away before any is handed out.
LEMMA MarkUsedIInv ==
  ASSUME IInv, NEW s \in Page, NEW n \in 0 .. MaxCount, MarkUsed(s, n)
  PROVE  IInv'
<1> USE DEF IInv, PagesConsistent
<1> DEFINE R == Run(s, n) \cap Page
<1>1. bitmap' = bitmap \cup R /\ bitmap' \subseteq Page
  BY DEF MarkUsed, TypeOK
<1>2. FreeCountExact'
  <2>1. Page \ bitmap = (Page \ bitmap') \cup (R \ bitmap)
    BY <1>1
  <2>2. Cardinality(Page \ bitmap) = Cardinality(Page \ bitmap') + Cardinality(R \ bitmap)
    <3>1. /\ Page \ bitmap' \in SUBSET Page /\ R \ bitmap \in SUBSET Page
          /\ (Page \ bitmap') \cap (R \ bitmap) = {}
      BY <1>1
    <3> QED BY <2>1, <3>1, CardinalityOfParts
  <2>3. Cardinality(Page \ bitmap') \in Nat /\ Cardinality(R \ bitmap) \in Nat
    BY PageFacts, Page \ bitmap' \in SUBSET Page, R \ bitmap \in SUBSET Page
  <2>4. free_pages' = free_pages - Cardinality(R \ bitmap)
    BY DEF MarkUsed, FreeAfterMark
  <2> QED BY <2>2, <2>3, <2>4, <1>1 DEF FreeCountExact, MarkUsed
<1>3. TypeOK'
  <2>1. free_pages' \in 0 .. MaxPages
    BY <1>2, PageFacts, Page \ bitmap' \in SUBSET Page DEF FreeCountExact
  <2> QED BY <2>1, <1>1 DEF MarkUsed, TypeOK
<1>4. OnlyUsableMemory'
  BY <1>1 DEF OnlyUsableMemory, MarkUsed
<1>5. GrantsDisjoint' /\ GrantsInRange'
  BY DEF MarkUsed, GrantsDisjoint, GrantsInRange
<1>6. IdleInv' /\ ScanInv'
  BY <1>1 DEF MarkUsed, IdleInv, ScanInv, Fits
<1> QED BY <1>2, <1>3, <1>4, <1>5, <1>6

\* A call that is refused at once: when fewer pages are free than asked for,
\* no run of them is.
LEMMA AllocRefusedIInv ==
  ASSUME IInv, NEW n \in 0 .. MaxCount, NEW a \in Alignment, AllocRefused(n, a)
  PROVE  IInv'
<1> USE DEF IInv, PagesConsistent
<1>1. TypeOK'
  BY DEF AllocRefused, TypeOK, IdleInv
<1>2. FreeCountExact' /\ OnlyUsableMemory' /\ GrantsDisjoint' /\ GrantsInRange'
  BY DEF AllocRefused, FreeCountExact, OnlyUsableMemory, GrantsDisjoint, GrantsInRange
<1>3. IdleInv'
  <2>1. ASSUME ret'.tag = "OutOfMemory", NEW s \in Page PROVE ~Fits(s, n, a)
    <3>1. free_pages < n
      BY <2>1 DEF AllocRefused
    <3> QED BY <3>1, FitsCounts DEF TypeOK
  <2>2. ASSUME ret'.tag = "OutOfMemory", NEW s \in Page PROVE ~Fits(s, count, align)'
    BY <2>1, <2>2 DEF AllocRefused, Fits
  <2> QED BY <2>2 DEF AllocRefused, IdleInv
<1>4. ScanInv'
  BY DEF AllocRefused, ScanInv
<1> QED BY <1>1, <1>2, <1>3, <1>4

\* The scan begins at page 0 with nothing seen.
LEMMA AllocCallIInv ==
  ASSUME IInv, NEW n \in 0 .. MaxCount, NEW a \in Alignment, AllocCall(n, a)
  PROVE  IInv'
<1> USE DEF IInv, PagesConsistent
<1>1. n \in Nat \ {0} /\ a \in Nat \ {0}
  BY DEF AllocCall, IsPowerOfTwo
<1>2. TypeOK'
  BY <1>1 DEF AllocCall, TypeOK
<1>3. FreeCountExact' /\ OnlyUsableMemory' /\ GrantsDisjoint' /\ GrantsInRange'
  BY DEF AllocCall, FreeCountExact, OnlyUsableMemory, GrantsDisjoint, GrantsInRange
<1>4. IdleInv'
  BY DEF AllocCall, IdleInv
<1>5. ScanInv'
  <2>1. AlignUp(0, a) \in Nat /\ Aligned' = AlignUp(0, a)
    BY <1>1, AlignUpFacts DEF AllocCall, Aligned
  <2>2. Run(AlignUp(0, a), 0) = {}
    BY <2>1 DEF Run
  <2>3. Run(Aligned, i)' = {}
    BY <2>1, <2>2 DEF AllocCall, Run
  <2> QED BY <1>1, <2>3 DEF AllocCall, ScanInv, Page
<1> QED BY <1>2, <1>3, <1>4, <1>5

\* What the scan knows about its candidate.
LEMMA AlignedFacts ==
  ASSUME TypeOK, ScanInv, pc = "scan"
  PROVE  /\ align \in Nat \ {0} /\ count \in Nat \ {0} /\ i \in Nat
         /\ candidate \in Nat /\ total_pages \in Nat /\ total_pages <= MaxPages
         /\ Aligned \in Nat /\ Aligned >= candidate /\ Aligned % align = 0
         /\ \A s \in Page : s < Aligned => ~Fits(s, count, align)
<1>1. /\ align \in Nat \ {0} /\ count \in Nat \ {0} /\ i \in Nat
      /\ candidate \in Nat /\ total_pages \in Nat /\ total_pages <= MaxPages
  BY DEF TypeOK, ScanInv
<1>2. /\ Aligned \in Nat /\ Aligned >= candidate /\ Aligned % align = 0
      /\ \A s \in Nat : s >= candidate /\ s % align = 0 => s >= Aligned
  BY <1>1, AlignUpFacts DEF Aligned
<1>3. ASSUME NEW s \in Page, s < Aligned PROVE ~Fits(s, count, align)
  <2>1. CASE s < candidate
    BY <2>1 DEF ScanInv
  <2>2. CASE ~(s < candidate)
    <3>1. s \in Nat /\ s >= candidate
      BY <2>2, <1>1 DEF Page
    <3>2. ~(s >= Aligned)
      BY <3>1, <1>2, <1>3
    <3>3. s % align # 0
      BY <3>1, <3>2, <1>2
    <3> QED BY <3>3 DEF Fits
  <2> QED BY <2>1, <2>2
<1> QED BY <1>1, <1>2, <1>3

\* A used page ends the candidate: every run up to it that is long enough
\* contains it.  A free one makes the candidate longer.
LEMMA ScanPageIInv ==
  ASSUME IInv, ScanPage
  PROVE  IInv'
<1> USE DEF IInv, PagesConsistent
<1>1. /\ pc = "scan" /\ pc' = "scan" /\ i < count
      /\ Aligned + count <= total_pages
      /\ UNCHANGED <<bitmap, free_pages, total_pages, count, align, ret, grants, reserved>>
  BY DEF ScanPage, Room
<1>2. /\ align \in Nat \ {0} /\ count \in Nat \ {0} /\ i \in Nat
      /\ candidate \in Nat /\ total_pages \in Nat /\ total_pages <= MaxPages
      /\ Aligned \in Nat /\ Aligned >= candidate
      /\ \A s \in Page : s < Aligned => ~Fits(s, count, align)
  BY <1>1, AlignedFacts
<1>3. FreeCountExact' /\ OnlyUsableMemory' /\ GrantsDisjoint' /\ GrantsInRange'
  BY <1>1 DEF FreeCountExact, OnlyUsableMemory, GrantsDisjoint, GrantsInRange
<1>4. IdleInv'
  BY <1>1 DEF IdleInv
<1>5. CASE Aligned + i \in bitmap
  <2>1. candidate' = Aligned + i + 1 /\ i' = 0
    BY <1>5 DEF ScanPage, Resume
  <2>2. TypeOK'
    BY <1>1, <1>2, <2>1 DEF TypeOK
  <2>3. ASSUME NEW s \in Page, s < candidate' PROVE ~Fits(s, count, align)
    <3>1. CASE s < Aligned
      BY <3>1, <1>2
    <3>2. CASE ~(s < Aligned)
      <4>1. Aligned + i \in Run(s, count)
        BY <3>2, <2>1, <2>3, <1>1, <1>2 DEF Run, Page
      <4> QED BY <4>1, <1>5 DEF Fits
    <3> QED BY <3>1, <3>2
  <2>4. \A s \in Page : Fits(s, count, align)' = Fits(s, count, align)
    BY <1>1 DEF Fits
  <2>5. Run(Aligned, i)' = {}
    <3>1. Aligned' \in Nat
      <4>1. candidate' \in Nat /\ align' \in Nat \ {0}
        BY <1>1, <1>2, <2>1
      <4> QED BY <4>1, AlignUpFacts DEF Aligned
    <3>2. \A q \in Nat : Run(q, 0) = {}
      BY DEF Run
    <3>3. Run(Aligned, i)' = Run(Aligned', i')
      BY DEF Run
    <3> QED BY <3>1, <3>2, <3>3, <2>1
  <2>6. ScanInv'
    BY <1>1, <1>2, <2>3, <2>4, <2>5 DEF ScanInv
  <2> QED BY <1>3, <1>4, <2>2, <2>6
<1>6. CASE Aligned + i \notin bitmap
  <2>1. candidate' = candidate /\ i' = i + 1 /\ Aligned' = Aligned
    BY <1>1, <1>6 DEF ScanPage, ScanStep, Aligned
  <2>2. TypeOK'
    BY <1>1, <1>2, <2>1 DEF TypeOK
  <2>3. Run(Aligned, i + 1) = Run(Aligned, i) \cup {Aligned + i}
    BY <1>2 DEF Run
  <2>4. Run(Aligned, i)' = Run(Aligned, i + 1)
    BY <2>1 DEF Run
  <2>5. ScanInv'
    BY <1>1, <1>2, <1>6, <2>1, <2>3, <2>4 DEF ScanInv, Fits
  <2> QED BY <1>3, <1>4, <2>2, <2>5
<1> QED BY <1>5, <1>6

\* The run is free and of usable pages: it belongs to nobody else.
LEMMA AllocFoundIInv ==
  ASSUME IInv, AllocFound
  PROVE  IInv'
<1> USE DEF IInv, PagesConsistent
<1> DEFINE R == Run(Aligned, count)
           g == [start |-> Aligned, count |-> count]
<1>1. pc = "scan" /\ i = count /\ Aligned + count <= total_pages
  BY DEF AllocFound, Room
<1>2. /\ count \in Nat \ {0} /\ total_pages \in Nat /\ total_pages <= MaxPages
      /\ Aligned \in Nat
  BY <1>1, AlignedFacts
<1>3. R \subseteq Page /\ R \cap bitmap = {}
  BY <1>1, <1>2 DEF ScanInv, Run, Page
<1>4. bitmap' = bitmap \cup R /\ bitmap' \subseteq Page /\ total_pages' = total_pages
  BY <1>3 DEF AllocFound, TypeOK
<1>5. FreeCountExact'
  <2>1. Page \ bitmap = (Page \ bitmap') \cup R /\ (Page \ bitmap') \cap R = {}
    BY <1>3, <1>4
  <2>2. Cardinality(Page \ bitmap) = Cardinality(Page \ bitmap') + Cardinality(R)
    BY <1>3, <2>1, CardinalityOfParts, Page \ bitmap' \in SUBSET Page
  <2>3. Cardinality(R) = count /\ Cardinality(Page \ bitmap') \in Nat
    BY <1>2, RunFacts, PageFacts, Page \ bitmap' \in SUBSET Page
  <2> QED BY <1>2, <1>4, <2>2, <2>3 DEF FreeCountExact, AllocFound
<1>6. TypeOK'
  <2>1. free_pages' \in 0 .. MaxPages
    BY <1>5, PageFacts, Page \ bitmap' \in SUBSET Page DEF FreeCountExact
  <2>2. g \in [start : Page, count : 1 .. MaxCount]
    BY <1>1, <1>2 DEF TypeOK, Page
  <2>3. ret' \in [tag : {"None", "Ok", "OutOfMemory", "InvalidSize", "InvalidAlignment"},
                  start : 0 .. MaxPages]
    BY <1>1, <1>2 DEF AllocFound
  <2> QED BY <1>2, <1>4, <2>1, <2>2, <2>3 DEF AllocFound, TypeOK
<1>7. grants' = grants \cup {g} /\ Run(g.start, g.count) = R
  BY DEF AllocFound
<1>8. OnlyUsableMemory'
  <2>1. ASSUME NEW p \in ((Page \ bitmap) \cup UNION {Run(h.start, h.count) : h \in grants})'
        PROVE  p \in (Page \ bitmap) \cup UNION {Run(h.start, h.count) : h \in grants}
    BY <1>3, <1>4, <1>7
  <2>2. reserved' = reserved
    BY DEF AllocFound
  <2> QED BY <2>1, <2>2 DEF OnlyUsableMemory
<1>9. GrantsDisjoint'
  <2>1. \A h \in grants : Run(h.start, h.count) \cap R = {}
    BY <1>3 DEF GrantsDisjoint
  <2> QED BY <2>1, <1>4, <1>7 DEF GrantsDisjoint
<1>10. GrantsInRange'
  BY <1>1, <1>4, <1>7 DEF GrantsInRange
<1>11. IdleInv' /\ ScanInv'
  BY DEF AllocFound, IdleInv, ScanInv
<1> QED BY <1>5, <1>6, <1>8, <1>9, <1>10, <1>11

\* The scan has passed every page without finding a run: none is free.
LEMMA ExhaustedMeansNone ==
  ASSUME IInv, AllocExhausted, NEW s \in Page
  PROVE  ~Fits(s, count, align)
<1> USE DEF IInv, PagesConsistent
<1>1. pc = "scan" /\ ~(candidate + count <= total_pages /\ Aligned + count <= total_pages)
  BY DEF AllocExhausted, Room
<1>2. /\ count \in Nat \ {0} /\ total_pages \in Nat
      /\ candidate \in Nat /\ Aligned \in Nat /\ Aligned >= candidate
      /\ s < Aligned => ~Fits(s, count, align)
  BY <1>1, AlignedFacts
<1>3. CASE ~(s < Aligned)
  <2>1. s \in Nat /\ s + count > total_pages
    BY <1>1, <1>2, <1>3 DEF Page
  <2> QED BY <2>1, <1>2 DEF Fits
<1> QED BY <1>2, <1>3

\* The call gives up, and rightly so.
LEMMA AllocExhaustedIInv ==
  ASSUME IInv, AllocExhausted
  PROVE  IInv'
<1> USE DEF IInv, PagesConsistent
<1>1. TypeOK'
  BY DEF AllocExhausted, TypeOK
<1>2. FreeCountExact' /\ OnlyUsableMemory' /\ GrantsDisjoint' /\ GrantsInRange'
  BY DEF AllocExhausted, FreeCountExact, OnlyUsableMemory, GrantsDisjoint, GrantsInRange
<1>3. \A s \in Page : ~Fits(s, count, align)'
  BY ExhaustedMeansNone DEF AllocExhausted, Fits
<1>4. IdleInv' /\ ScanInv'
  BY <1>3 DEF AllocExhausted, IdleInv, ScanInv
<1> QED BY <1>1, <1>2, <1>4

\* What a client gives back is marked used, below total_pages and nobody
\* else's.
LEMMA FreePagesIInv ==
  ASSUME IInv, NEW g \in grants, FreePages(g)
  PROVE  IInv'
<1> USE DEF IInv, PagesConsistent
<1> DEFINE R == Run(g.start, g.count)
<1>1. /\ g.start \in Nat /\ g.count \in Nat \ {0} /\ g.start + g.count <= total_pages
      /\ total_pages \in Nat /\ total_pages <= MaxPages
  BY DEF TypeOK, GrantsInRange, Page
<1>2. R \subseteq bitmap /\ R \subseteq Page /\ R \subseteq 0 .. total_pages - 1
  BY <1>1 DEF GrantsDisjoint, TypeOK, Run
<1>3. bitmap' = bitmap \ R /\ bitmap' \subseteq Page /\ total_pages' = total_pages
  BY DEF FreePages, TypeOK
<1>4. FreeCountExact'
  <2>1. Page \ bitmap' = (Page \ bitmap) \cup R /\ (Page \ bitmap) \cap R = {}
    BY <1>2, <1>3
  <2>2. Cardinality(Page \ bitmap') = Cardinality(Page \ bitmap) + Cardinality(R)
    BY <1>2, <2>1, CardinalityOfParts, Page \ bitmap \in SUBSET Page
  <2>3. bitmap \cap R = R
    BY <1>2
  <2> QED BY <1>2, <1>3, <2>1, <2>2, <2>3 DEF FreeCountExact, FreePages
<1>5. TypeOK'
  <2>1. free_pages' \in 0 .. MaxPages
    BY <1>4, PageFacts, Page \ bitmap' \in SUBSET Page DEF FreeCountExact
  <2> QED BY <2>1, <1>3 DEF FreePages, TypeOK, IdleInv
<1>6. grants' = grants \ {g}
  BY DEF FreePages
<1>7. OnlyUsableMemory'
  <2>1. ASSUME NEW p \in ((Page \ bitmap) \cup UNION {Run(h.start, h.count) : h \in grants})'
        PROVE  p \in (Page \ bitmap) \cup UNION {Run(h.start, h.count) : h \in grants}
    BY <1>3, <1>6
  <2>2. reserved' = reserved
    BY DEF FreePages
  <2> QED BY <2>1, <2>2 DEF OnlyUsableMemory
<1>8. GrantsDisjoint' /\ GrantsInRange'
  BY <1>3, <1>6 DEF GrantsDisjoint, GrantsInRange
<1>9. IdleInv' /\ ScanInv'
  BY DEF FreePages, IdleInv, ScanInv
<1> QED BY <1>4, <1>5, <1>7, <1>8, <1>9

-----------------------------------------------------------------------------

\* Every step preserves the invariant.
LEMMA NextIInv == IInv /\ [Next]_vars => IInv'
<1> SUFFICES ASSUME IInv, [Next]_vars PROVE IInv'
  OBVIOUS
<1>1. ASSUME NEW s \in Page, NEW n \in 0 .. MaxCount, MarkUsed(s, n) PROVE IInv'
  BY <1>1, MarkUsedIInv
<1>2. ASSUME NEW n \in 0 .. MaxCount, NEW a \in Alignment, AllocRefused(n, a) PROVE IInv'
  BY <1>2, AllocRefusedIInv
<1>3. ASSUME NEW n \in 0 .. MaxCount, NEW a \in Alignment, AllocCall(n, a) PROVE IInv'
  BY <1>3, AllocCallIInv
<1>4. ASSUME Scan PROVE IInv'
  BY <1>4, ScanPageIInv, AllocFoundIInv, AllocExhaustedIInv DEF Scan
<1>5. ASSUME NEW g \in grants, FreePages(g) PROVE IInv'
  BY <1>5, FreePagesIInv
<1>6. ASSUME UNCHANGED vars PROVE IInv'
  BY <1>6 DEF vars, IInv, PagesConsistent, TypeOK, FreeCountExact, OnlyUsableMemory,
              GrantsDisjoint, GrantsInRange, IdleInv, ScanInv, Fits, Aligned
<1> QED BY <1>1, <1>2, <1>3, <1>4, <1>5, <1>6 DEF Next

\* The inductive invariant of the page allocator and its clients.
THEOREM Invariance == Spec => []IInv
<1> QED BY InitIInv, NextIInv, PTL DEF Spec

\* For every memory map, however its regions overlap or are cut, and after any
\* sequence of calls: free_pages is exact, only usable memory is handed out,
\* and no page to two clients.
THEOREM PagesCorrect == Spec => []PagesConsistent
<1> QED BY Invariance, PTL DEF IInv

\* A step of the scan that ends the call answers it rightly.
LEMMA FitSteps == IInv /\ [Next]_vars => [FitStep]_vars
<1> SUFFICES ASSUME IInv, Next PROVE FitStep
  OBVIOUS
<1> USE DEF IInv, PagesConsistent
<1>1. ASSUME NEW s \in Page, NEW n \in 0 .. MaxCount, MarkUsed(s, n) PROVE FitStep
  BY <1>1 DEF MarkUsed, FitStep, IdleInv
<1>2. ASSUME NEW n \in 0 .. MaxCount, NEW a \in Alignment, AllocRefused(n, a)
      PROVE  FitStep
  <2>1. ASSUME ret'.tag = "OutOfMemory", NEW s \in Page PROVE ~Fits(s, n, a)
    <3>1. free_pages < n
      BY <1>2, <2>1 DEF AllocRefused
    <3> QED BY <3>1, FitsCounts DEF TypeOK
  <2> QED BY <1>2, <2>1 DEF AllocRefused, FitStep
<1>3. ASSUME NEW n \in 0 .. MaxCount, NEW a \in Alignment, AllocCall(n, a) PROVE FitStep
  BY <1>3 DEF AllocCall, FitStep
<1>4. ASSUME ScanPage PROVE FitStep
  BY <1>4 DEF ScanPage, FitStep
<1>5. ASSUME AllocFound PROVE FitStep
  <2>1. pc = "scan" /\ i = count /\ Aligned + count <= total_pages
    BY <1>5 DEF AllocFound, Room
  <2>2. /\ Aligned % align = 0
        /\ \A s \in Page : s < Aligned => ~Fits(s, count, align)
    BY <2>1, AlignedFacts
  <2>3. Fits(Aligned, count, align)
    BY <2>1, <2>2 DEF Fits, ScanInv
  <2> QED BY <1>5, <2>2, <2>3 DEF AllocFound, FitStep
<1>6. ASSUME AllocExhausted PROVE FitStep
  BY <1>6, ExhaustedMeansNone DEF AllocExhausted, FitStep
<1>7. ASSUME NEW g \in grants, FreePages(g) PROVE FitStep
  BY <1>7 DEF FreePages, FitStep
<1> QED BY <1>1, <1>2, <1>3, <1>4, <1>5, <1>6, <1>7 DEF Next, Scan

\* alloc_pages_contiguous() returns the lowest aligned run that is free and
\* refuses only when there is none, for every alignment and length.
THEOREM ScanIsFirstFit == Spec => FirstAlignedFit
<1> QED BY Invariance, FitSteps, PTL DEF Spec, FirstAlignedFit
=============================================================================
