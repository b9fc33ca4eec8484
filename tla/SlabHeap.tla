------------------------------ MODULE SlabHeap ------------------------------
(***************************************************************************)
(* The kernel heap, mem/heap.rs: one free list of chunks per size class,   *)
(* refilled by cutting up a page, and whole pages for what is larger than  *)
(* every class.  A header before each block says where it came from, and   *)
(* free() and realloc() believe it.                                        *)
(*                                                                         *)
(* Addresses and sizes are in words of 8 bytes, and PageWords and Class are *)
(* scaled down.  A page allocation returns any run of free pages           *)
(* (PhysAllocator says which).  Each client has at most one block, which   *)
(* it fills with its own name.                                             *)
(***************************************************************************)
EXTENDS Integers, Sequences, FiniteSets

CONSTANTS
  Client,      \* users of the heap
  Nobody,      \* the content of a word that no client has written
  PageWords,   \* PAGE_SIZE
  PageCount,   \* pages of memory
  HeaderSize,  \* HEADER_SIZE
  Class,       \* SLAB_CLASSES
  Request      \* sizes that are asked for

HeapPage == 0 .. PageCount - 1
Addr == 0 .. PageCount * PageWords - 1
ClassIdx == 1 .. Len(Class)
Large == 0     \* LARGE_ALLOC, the class of a block of whole pages

ASSUME SlabHeapAssumption ==
  /\ PageWords \in Nat \ {0} /\ PageCount \in Nat \ {0} /\ HeaderSize \in Nat \ {0}
  /\ Class \in Seq(Nat \ {0}) /\ Len(Class) > 0
  \* Everything but the class of one word is a multiple of 16 bytes, and a
  \* class that does not fit in a page with its header comes after one of
  \* half a page.
  /\ PageWords % 2 = 0 /\ HeaderSize % 2 = 0
  /\ \A k \in ClassIdx : Class[k] = 1 \/ Class[k] % 2 = 0
  /\ \A k \in ClassIdx : Class[k] + HeaderSize > PageWords =>
       \E j \in 1 .. k - 1 : Class[j] >= PageWords \div 2
  /\ Request \subseteq Nat \ {0}
  /\ Nobody \notin Client

VARIABLES
  heap,   \* pages: those the page allocator has; free_list: the chunks of
          \* each class, last freed first; header: the header at each address;
          \* memory: the content of each word
  block,  \* the pointer and the size asked for of each client's block
  result  \* the last call: the size asked for, and whether it returned null

heapVars == <<heap, block, result>>

NoBlock  == [ptr |-> 0, size |-> 0]
Holds(c) == block[c] # NoBlock
Span(a, n) == a .. a + n - 1

-----------------------------------------------------------------------------
(* Plausible mistakes in the code, each the body of one definition.        *)

EntrySize_NoHeader(k) == Class[k]
EntriesPerPage_Doubled(k) == PageWords \div (2 * Class[k] + HeaderSize)
CopyLength_Short(old, new) == old - HeaderSize
-----------------------------------------------------------------------------

HeapInit ==
  /\ heap = [pages |-> HeapPage,
             free_list |-> [k \in ClassIdx |-> <<>>],
             header |-> [a \in Addr |-> [size |-> 0, class |-> Large]],
             memory |-> [a \in Addr |-> Nobody]]
  /\ block = [c \in Client |-> NoBlock]
  /\ result = [size |-> 0, null |-> FALSE]

\* class_for_size(): the first class that is large enough.
ClassFor(n) == {k \in ClassIdx : Class[k] >= n /\ \A j \in 1 .. k - 1 : Class[j] < n}

\* A chunk with its header, and how many of them a page has.
EntrySize(k) == Class[k] + HeaderSize
EntriesPerPage(k) == PageWords \div EntrySize(k)

\* memory after something other than a client's data was written to `at'.
Clobbered(memory, at) == [w \in Addr |-> IF w \in at THEN Nobody ELSE memory[w]]

\* The chunks of page p for class k: the last one is pushed last.
Chunks(p, k) ==
  LET n == EntriesPerPage(k)
  IN [e \in 1 .. n |-> p * PageWords + (n - e) * EntrySize(k) + HeaderSize]

\* refill_class(k) with page p: headers and free list nodes are written.
Refilled(h, p, k) ==
  LET chunks == {Chunks(p, k)[e] : e \in 1 .. EntriesPerPage(k)}
  IN [pages |-> h.pages \ {p},
      free_list |-> [h.free_list EXCEPT ![k] = Chunks(p, k) \o @],
      header |-> [a \in Addr |-> IF a + HeaderSize \in chunks
                                   THEN [size |-> Class[k], class |-> k]
                                   ELSE h.header[a]],
      memory |-> Clobbered(h.memory,
                           UNION {Span(a - HeaderSize, HeaderSize + 1) : a \in chunks})]

\* The heaps with a chunk of class k: h itself, or h with a page for it.
Stocked(h, k) ==
  IF h.free_list[k] # <<>> THEN {h}
  ELSE IF EntriesPerPage(k) = 0 THEN {}
  ELSE {Refilled(h, p, k) : p \in h.pages}

\* Pages of a large block of n words, and the runs of n free pages.
LargePages(n) == (n + HeaderSize + PageWords - 1) \div PageWords
FreeRuns(h, n) == {p \in HeapPage : Span(p, n) \subseteq h.pages}

\* A large block of n words in the pages from p on.
Carved(h, p, n) ==
  [pages |-> h.pages \ Span(p, LargePages(n)),
   free_list |-> h.free_list,
   header |-> [h.header EXCEPT ![p * PageWords] =
                 [size |-> LargePages(n) * PageWords - HeaderSize, class |-> Large]],
   memory |-> Clobbered(h.memory, Span(p * PageWords, HeaderSize))]

\* alloc(n): the heaps and pointers it can return; none if it returns null.
SlabAlloc(h, k) ==
  {[heap |-> [s EXCEPT !.free_list[k] = Tail(@)], ptr |-> Head(s.free_list[k])] :
     s \in Stocked(h, k)}
LargeAlloc(h, n) ==
  {[heap |-> Carved(h, p, n), ptr |-> p * PageWords + HeaderSize] :
     p \in FreeRuns(h, LargePages(n))}
Alloc(h, n) ==
  IF ClassFor(n) # {} THEN UNION {SlabAlloc(h, k) : k \in ClassFor(n)}
                      ELSE LargeAlloc(h, n)

\* Pages of the large block with header hd.
PagesOf(hd) == (hd.size + HeaderSize + PageWords - 1) \div PageWords

\* dealloc(p): the header says where the block goes.
Dealloc(h, p) ==
  LET hd == h.header[p - HeaderSize]
  IN IF hd.class = Large
       THEN [h EXCEPT !.pages = @ \cup Span((p - HeaderSize) \div PageWords, PagesOf(hd))]
       ELSE [pages |-> h.pages,
             free_list |-> [h.free_list EXCEPT ![hd.class] = <<p>> \o @],
             header |-> h.header,
             memory |-> Clobbered(h.memory, {p})]

\* heavenos_malloc_size().
UsableSize(h, p) == h.header[p - HeaderSize].size

\* The words that realloc() copies from a block of old usable words.
CopyLength(old, new) == IF old < new THEN old ELSE new

-----------------------------------------------------------------------------
(* The operations, and the client's use of what it gets.                   *)

\* memory after client c has filled the words from a to b - 1.
Fill(h, a, b, c) ==
  [h EXCEPT !.memory = [w \in Addr |-> IF w \in a .. b - 1 THEN c ELSE @[w]]]

Returned(n, null) == result' = [size |-> n, null |-> null]

\* heavenos_malloc(n), or an allocation by Rust code.
Malloc(c, n) ==
  /\ ~Holds(c)
  /\ \E a \in Alloc(heap, n) :
       /\ heap' = Fill(a.heap, a.ptr, a.ptr + n, c)
       /\ block' = [block EXCEPT ![c] = [ptr |-> a.ptr, size |-> n]]
  /\ Returned(n, FALSE)

\* malloc() or a growing realloc() returns null; an old block stays.
AllocNull(c, n) ==
  /\ Holds(c) => n > UsableSize(heap, block[c].ptr)
  /\ Alloc(heap, n) = {}
  /\ Returned(n, TRUE)
  /\ UNCHANGED <<heap, block>>

\* heavenos_free(), and realloc() to size 0.
Free(c) ==
  /\ Holds(c)
  /\ heap' = Dealloc(heap, block[c].ptr)
  /\ block' = [block EXCEPT ![c] = NoBlock]
  /\ Returned(0, FALSE)

\* realloc() within the usable size: the same pointer.
ReallocInPlace(c, n) ==
  /\ Holds(c) /\ n <= UsableSize(heap, block[c].ptr)
  /\ heap' = Fill(heap, block[c].ptr + block[c].size, block[c].ptr + n, c)
  /\ block' = [block EXCEPT ![c].size = n]
  /\ Returned(n, FALSE)

\* realloc() to a larger block: allocate, copy, free.
ReallocMove(c, n) ==
  /\ Holds(c) /\ n > UsableSize(heap, block[c].ptr)
  /\ LET old == block[c]
         len == CopyLength(UsableSize(heap, old.ptr), n)
     IN \E a \in Alloc(heap, n) :
          LET copied == [a.heap EXCEPT !.memory =
                           [w \in Addr |-> IF w \in Span(a.ptr, len)
                                             THEN @[old.ptr + (w - a.ptr)] ELSE @[w]]]
          IN /\ heap' = Fill(Dealloc(copied, old.ptr), a.ptr + old.size, a.ptr + n, c)
             /\ block' = [block EXCEPT ![c] = [ptr |-> a.ptr, size |-> n]]
  /\ Returned(n, FALSE)

HeapNext ==
  \E c \in Client :
    \/ Free(c)
    \/ \E n \in Request :
         Malloc(c, n) \/ AllocNull(c, n) \/ ReallocInPlace(c, n) \/ ReallocMove(c, n)

HeapSpec == HeapInit /\ [][HeapNext]_heapVars

-----------------------------------------------------------------------------
(* Properties.                                                             *)

\* The types of a heap.
HeapType(h) ==
  h \in [pages : SUBSET HeapPage,
         free_list : [ClassIdx -> Seq(Addr)],
         header : [Addr -> [size : Nat, class : ClassIdx \cup {Large}]],
         memory : [Addr -> Client \cup {Nobody}]]

\* Every variable has its type.
HeapTypeOK ==
  /\ HeapType(heap)
  /\ block \in [Client -> [ptr : Addr, size : Nat]]
  /\ result \in [size : Nat, null : BOOLEAN]

\* Blocks, as the heap sees them: the free chunks and the clients' blocks,
\* each with its header and its usable size.
ChunkOf(h, p) == Span(p - HeaderSize, HeaderSize + UsableSize(h, p))
Chunk(p) == ChunkOf(heap, p)
Listed(h, k) == {h.free_list[k][j] : j \in 1 .. Len(h.free_list[k])}
FreeIn(h) == UNION {Listed(h, k) : k \in ClassIdx}
FreeChunks == FreeIn(heap)
Taken == {block[c].ptr : c \in {c \in Client : Holds(c)}}
PageMemory(h) == UNION {Span(p * PageWords, PageWords) : p \in h.pages}
FreeMemory == PageMemory(heap)

\* No two blocks overlap, free or not, nor does one reach into a free page,
\* and every block is as large as was asked: through splits, frees into the
\* list the header names, pages that come back and are cut up anew, and moves.
NoOverlap ==
  /\ FreeChunks \cap Taken = {}
  /\ \A p, q \in FreeChunks \cup Taken : p # q => Chunk(p) \cap Chunk(q) = {}
  /\ \A p \in FreeChunks \cup Taken : Chunk(p) \subseteq Addr \ FreeMemory
  /\ \A c, d \in Client : c # d /\ Holds(c) => block[c].ptr # block[d].ptr
  /\ \A c \in Client : Holds(c) => block[c].size <= UsableSize(heap, block[c].ptr)

\* A client finds in its block what it wrote there, whatever the others do
\* and however often its own block has moved.
DataIntact ==
  \A c \in Client : \A w \in Span(block[c].ptr, block[c].size) : heap.memory[w] = c

\* A block of two words (16 bytes) or more is aligned to two words, although
\* alloc() only turns an alignment into a size: chunks of such sizes, with
\* their headers, follow each other at even distances.
SixteenByteAligned ==
  \A c \in Client : block[c].size >= 2 => block[c].ptr % 2 = 0

\* Free lists, headers and the clients' blocks agree about the memory.
BlocksConsistent == HeapTypeOK /\ NoOverlap /\ SixteenByteAligned

\* A size that has a class is refused only when no page is left, except in
\* the largest class, whose chunks do not fit in a page with their header.
RefusedOnlyWhenOut ==
  result.null /\ ClassFor(result.size) # {} => heap.pages = {} \/ result.size > PageWords \div 2

-----------------------------------------------------------------------------
(* Why these hold: the inductive invariant.                                *)

\* The header of p says the truth: a chunk of its class, or whole pages.
HeaderTrue(h, p) ==
  /\ p \in Addr /\ p - HeaderSize \in Addr
  /\ LET hd == h.header[p - HeaderSize]
     IN  \/ /\ hd.class \in ClassIdx /\ hd.size = Class[hd.class]
            /\ hd.size >= 2 => p % 2 = 0
         \/ /\ hd.class = Large
            /\ \E f \in HeapPage, n \in 1 .. PageCount :
                 p - HeaderSize = f * PageWords /\ hd.size + HeaderSize = n * PageWords

\* No list has a chunk twice, and each has those of its own class.
ListsTrue(h) ==
  \A k \in ClassIdx :
    /\ \A i, j \in 1 .. Len(h.free_list[k]) : h.free_list[k][i] = h.free_list[k][j] => i = j
    /\ \A p \in Listed(h, k) : h.header[p - HeaderSize].class = k

\* The heap h is sound when the blocks of U are in use.
Sound(h, U) ==
  /\ HeapType(h) /\ ListsTrue(h)
  /\ FreeIn(h) \cap U = {}
  /\ \A p \in FreeIn(h) \cup U :
       HeaderTrue(h, p) /\ ChunkOf(h, p) \subseteq Addr \ PageMemory(h)
  /\ \A p, q \in FreeIn(h) \cup U : p # q => ChunkOf(h, p) \cap ChunkOf(h, q) = {}

HeapInv == BlocksConsistent /\ DataIntact /\ RefusedOnlyWhenOut /\ Sound(heap, Taken)
=============================================================================
