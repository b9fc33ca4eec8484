--------------------------- MODULE PhysAllocator ----------------------------
(***************************************************************************)
(* The page allocator, mem/phys.rs: a bitmap of pages, scanned for a run   *)
(* of free pages that starts at an aligned page.  Its clients are DmaBuf   *)
(* (mem/dma.rs), the heap and the stacks of the kernel, and each gives     *)
(* back exactly what it was given.                                         *)
(*                                                                         *)
(* The bitmap is the set of the pages whose bit is 1.                      *)
(***************************************************************************)
EXTENDS Integers, FiniteSets

CONSTANTS
  PageSize,   \* PAGE_SIZE, in any unit
  MaxPages,   \* MAX_PAGES
  Region,     \* the usable regions of the memory map: [base, length]
  MaxCount,   \* bound: the longest run asked for
  Alignment   \* the alignments asked for, in pages

Page == 0 .. MaxPages - 1

ASSUME PhysAllocatorAssumption ==
  /\ PageSize \in Nat \ {0} /\ MaxPages \in Nat /\ MaxCount \in Nat
  /\ Region \subseteq [base : Nat, length : Nat] /\ IsFiniteSet(Region)
  /\ Alignment \subseteq Nat

VARIABLES
  bitmap, free_pages, total_pages,
  pc,                       \* idle, or scan while alloc_pages_contiguous() runs
  count, align,             \* its arguments
  candidate, i,             \* its locals
  ret                       \* what the last call returned

\* What the clients know; the code has no such state.
VARIABLES
  grants,                   \* runs that were handed out and not freed
  reserved                  \* pages that mark_used() was called for

vars == <<bitmap, free_pages, total_pages, pc, count, align, candidate, i, ret,
          grants, reserved>>

Run(s, n) == s .. s + n - 1
Least(a, b) == IF a < b THEN a ELSE b
IsPowerOfTwo(a) == a # 0 /\ \E k \in 0 .. a : a = 2 ^ k

-----------------------------------------------------------------------------
(* Plausible mistakes in the code, each the body of one definition.        *)

Resume_Aligned(s, k) == s + k + align
ScanStep_Two(k) == Least(k + 2, count)
-----------------------------------------------------------------------------
(* init(): the pages that lie inside a usable region are free.             *)

Usable(r) ==
  (r.base + PageSize - 1) \div PageSize
    .. Least((r.base + r.length) \div PageSize, MaxPages) - 1

UsablePages == UNION {Usable(r) : r \in Region}

\* One past the last page of the highest region, 0 if there is none.
TotalPages ==
  LET ends == {r.base + r.length : r \in Region} \cup {0}
      top == CHOOSE e \in ends : \A d \in ends : d <= e
  IN Least(top \div PageSize, MaxPages)

Init ==
  /\ bitmap = Page \ UsablePages
  /\ free_pages = Cardinality(UsablePages)
  /\ total_pages = TotalPages
  /\ pc = "idle" /\ count = 0 /\ align = 1 /\ candidate = 0 /\ i = 0
  /\ ret = [tag |-> "None", start |-> 0]
  /\ grants = {} /\ reserved = {}

-----------------------------------------------------------------------------

\* mark_used() counts the bits it sets, not the pages it is given.
FreeAfterMark(s, n) == free_pages - Cardinality((Run(s, n) \cap Page) \ bitmap)

\* mark_used(), before anything is allocated.
MarkUsed(s, n) ==
  /\ pc = "idle" /\ grants = {}
  /\ bitmap' = bitmap \cup (Run(s, n) \cap Page)
  /\ free_pages' = FreeAfterMark(s, n)
  /\ reserved' = reserved \cup (Run(s, n) \cap Page)
  /\ UNCHANGED <<total_pages, pc, count, align, candidate, i, ret, grants>>

\* alloc_pages_contiguous(n, a) refuses at once.
AllocRefused(n, a) ==
  /\ pc = "idle"
  /\ \/ n = 0 /\ ret' = [tag |-> "InvalidSize", start |-> 0]
     \/ n # 0 /\ ~IsPowerOfTwo(a) /\ ret' = [tag |-> "InvalidAlignment", start |-> 0]
     \/ n # 0 /\ IsPowerOfTwo(a) /\ free_pages < n
          /\ ret' = [tag |-> "OutOfMemory", start |-> 0]
  /\ count' = n /\ align' = a
  /\ UNCHANGED <<bitmap, free_pages, total_pages, pc, candidate, i, grants, reserved>>

AllocCall(n, a) ==
  /\ pc = "idle" /\ n # 0 /\ IsPowerOfTwo(a) /\ free_pages >= n
  /\ pc' = "scan" /\ count' = n /\ align' = a /\ candidate' = 0 /\ i' = 0
  /\ UNCHANGED <<bitmap, free_pages, total_pages, ret, grants, reserved>>

\* The first multiple of a that is not below c.
AlignUp(c, a) == ((c + a - 1) \div a) * a
Aligned == AlignUp(candidate, align)

\* There may be a run at or after the candidate.
Room == candidate + count <= total_pages /\ Aligned + count <= total_pages

\* Where the scan resumes when page s + k is used.
Resume(s, k) == s + k + 1

\* The next page of the candidate run to look at.
ScanStep(k) == k + 1

\* One turn of the inner loop.
ScanPage ==
  /\ pc = "scan" /\ Room /\ i < count
  /\ IF Aligned + i \in bitmap
       THEN candidate' = Resume(Aligned, i) /\ i' = 0
       ELSE i' = ScanStep(i) /\ UNCHANGED candidate
  /\ UNCHANGED <<bitmap, free_pages, total_pages, pc, count, align, ret, grants, reserved>>

AllocFound ==
  /\ pc = "scan" /\ Room /\ i = count
  /\ bitmap' = bitmap \cup Run(Aligned, count)
  /\ free_pages' = free_pages - count
  /\ ret' = [tag |-> "Ok", start |-> Aligned]
  /\ grants' = grants \cup {[start |-> Aligned, count |-> count]}
  /\ pc' = "idle" /\ candidate' = 0 /\ i' = 0
  /\ UNCHANGED <<total_pages, count, align, reserved>>

AllocExhausted ==
  /\ pc = "scan" /\ ~Room
  /\ ret' = [tag |-> "OutOfMemory", start |-> 0]
  /\ pc' = "idle" /\ candidate' = 0 /\ i' = 0
  /\ UNCHANGED <<bitmap, free_pages, total_pages, count, align, grants, reserved>>

\* free_pages() counts the bits it clears.
FreePages(g) ==
  /\ pc = "idle" /\ g \in grants
  /\ bitmap' = bitmap \ Run(g.start, g.count)
  /\ free_pages' = free_pages + Cardinality(bitmap \cap Run(g.start, g.count))
  /\ grants' = grants \ {g}
  /\ ret' = [tag |-> "None", start |-> 0] /\ count' = 0 /\ align' = 1
  /\ UNCHANGED <<total_pages, pc, candidate, i, reserved>>

Scan == ScanPage \/ AllocFound \/ AllocExhausted

Next ==
  \/ \E s \in Page, n \in 0 .. MaxCount : MarkUsed(s, n)
  \/ \E n \in 0 .. MaxCount, a \in Alignment : AllocRefused(n, a) \/ AllocCall(n, a)
  \/ Scan
  \/ \E g \in grants : FreePages(g)

Spec == Init /\ [][Next]_vars

\* alloc_pages_contiguous() is a loop of the only thread there is.
FairSpec == Spec /\ WF_vars(Scan)

-----------------------------------------------------------------------------
(* Properties.                                                             *)

\* Every variable has its type; the scan stays below total_pages.
TypeOK ==
  /\ bitmap \subseteq Page
  /\ free_pages \in 0 .. MaxPages /\ total_pages \in 0 .. MaxPages
  /\ pc \in {"idle", "scan"}
  /\ count \in 0 .. MaxCount /\ align \in Alignment \cup {1}
  /\ candidate \in 0 .. total_pages /\ i \in 0 .. count
  /\ ret \in [tag : {"None", "Ok", "OutOfMemory", "InvalidSize", "InvalidAlignment"},
              start : 0 .. MaxPages]
  /\ grants \subseteq [start : Page, count : 1 .. MaxCount]

\* free_pages is the number of clear bits, and every clear bit is below
\* total_pages, where the scan finds it: overlapping regions, pages marked
\* twice and frees never make the count drift.
FreeCountExact ==
  /\ free_pages = Cardinality(Page \ bitmap)
  /\ Page \ bitmap \subseteq 0 .. total_pages - 1

\* Every byte of a page that is free or handed out is usable memory, and no
\* page that mark_used() was called for is among them.
OnlyUsableMemory ==
  \A p \in (Page \ bitmap) \cup UNION {Run(g.start, g.count) : g \in grants} :
    /\ p \notin reserved
    /\ \E r \in Region : r.base <= p * PageSize /\ (p + 1) * PageSize <= r.base + r.length

\* What was handed out is marked used, and shared by no two clients.
GrantsDisjoint ==
  \A g \in grants :
    /\ Run(g.start, g.count) \subseteq bitmap
    /\ \A h \in grants \ {g} : Run(g.start, g.count) \cap Run(h.start, h.count) = {}

\* Bitmap, count and grants agree, on usable memory only.
PagesConsistent == TypeOK /\ FreeCountExact /\ OnlyUsableMemory /\ GrantsDisjoint

\* A run of n free pages at s is what the caller asked for.
Fits(s, n, a) == s % a = 0 /\ s + n <= total_pages /\ Run(s, n) \cap bitmap = {}

\* alloc_pages_contiguous() returns the lowest aligned run that is free, and
\* is out of memory only if there is none: the scan, which resumes after each
\* used page and aligns again, jumps over no run, and the count of free pages
\* refuses no call that could be served.
FitStep ==
  /\ ret'.tag = "Ok" /\ pc = "scan" /\ pc' = "idle" =>
       /\ Fits(ret'.start, count, align)
       /\ \A s \in Page : s < ret'.start => ~Fits(s, count, align)
  /\ ret'.tag = "OutOfMemory" /\ pc' = "idle" =>
       \A s \in Page : ~Fits(s, count', align')
FirstAlignedFit == [][FitStep]_vars

\* While no call runs its locals are reset, and the last refusal still stands.
IdleInv ==
  pc = "idle" =>
    /\ candidate = 0 /\ i = 0
    /\ ret.tag = "OutOfMemory" => \A s \in Page : ~Fits(s, count, align)

\* The invariant of the scan: the pages of the candidate seen so far are free,
\* and no run below the candidate is.
ScanInv ==
  pc = "scan" =>
    /\ count > 0 /\ align > 0
    /\ Run(Aligned, i) \cap bitmap = {}
    /\ \A s \in Page : s < candidate => ~Fits(s, count, align)

\* What was handed out lies where the scan looks.
GrantsInRange == \A g \in grants : g.start + g.count <= total_pages

\* Every call returns.
CallReturns == pc = "scan" ~> pc = "idle"

\* The scan ends, and with the right answer: a jump that is too long passes
\* over a run, one that is too short never ends.
ScanCorrect == FirstAlignedFit /\ CallReturns

\* The inductive invariant.
IInv == PagesConsistent /\ GrantsInRange /\ IdleInv /\ ScanInv
=============================================================================
