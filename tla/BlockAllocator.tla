--------------------------- MODULE BlockAllocator ---------------------------
(***************************************************************************)
(* The on-disk block allocator, storage/block_alloc.rs: a bitmap of data   *)
(* blocks cached in RAM, scanned bit by bit for a contiguous run, written  *)
(* back to the bitmap region of the disk block by block.                   *)
(*                                                                         *)
(* A bitmap is the set of the bits that are 1.  The bits are those of the  *)
(* 64-bit words that hold it, so the last word may have bits past          *)
(* data_block_count (padding).                                             *)
(*                                                                         *)
(* The allocator is called with its mutex held: the steps of one alloc()   *)
(* or flush() never interleave with another call.  They are separate steps *)
(* because a restart may come between two of them and because the loop is  *)
(* what is being verified.                                                 *)
(***************************************************************************)
EXTENDS Integers, FiniteSets

CONSTANTS
  DataBlockCount,  \* data_block_count
  BitCount,        \* bits in all the words of the bitmap
  BitsPerBlock,    \* bits in one disk block of the bitmap region
  BitmapBlocks,    \* bitmap_on_disk_blocks
  MaxCount         \* bound: the longest run a caller asks for or frees

Bit   == 0 .. BitCount - 1
Block == 0 .. DataBlockCount - 1

\* The disk block of the bitmap region that bit b is stored in.
BlockOf(b) == b \div BitsPerBlock

\* format() computes a bitmap region that holds every bit (DiskLayout).
ASSUME BlockAllocatorAssumption ==
  /\ DataBlockCount \in Nat
  /\ BitCount \in Nat
  /\ DataBlockCount <= BitCount
  /\ BitsPerBlock \in Nat \ {0}
  /\ BitmapBlocks \in Nat
  /\ MaxCount \in Nat
  /\ \A b \in Bit : BlockOf(b) \in 0 .. BitmapBlocks - 1

VARIABLES
  bitmap,       \* in-memory bitmap: the bits that are 1
  free_count,
  dirty,
  disk,         \* the bitmap region of the disk
  pc,           \* which call is in progress: idle, scan (alloc) or flush
  count,        \* alloc: the length asked for
  start,        \* alloc: the candidate run starts here
  i,            \* alloc: bits of the candidate found free so far
  blk,          \* flush: bitmap blocks written so far
  ret           \* what the last call returned

vars == <<bitmap, free_count, dirty, disk, pc, count, start, i, blk, ret>>

Run(s, n) == s .. s + n - 1
Granted(s, n) == [tag |-> "Ok", start |-> s, count |-> n]
Refused(tag, n) == [tag |-> tag, start |-> 0, count |-> n]

-----------------------------------------------------------------------------
(* Plausible mistakes in the code below, each the body of one definition.  *)

SkipPast_Whole(s, k) == s + count
FreeAfterFree_All(s, n) == free_count + n
FlushDone_Early == FALSE
SkipPast_Same(s, k) == s + k
-----------------------------------------------------------------------------

\* format(): a zeroed bitmap on disk and in memory, every data block free.
Init ==
  /\ bitmap = {} /\ disk = {}
  /\ free_count = DataBlockCount
  /\ dirty = FALSE
  /\ pc = "idle" /\ count = 0 /\ start = 0 /\ i = 0 /\ blk = 0
  /\ ret = Refused("None", 0)

\* The dirty flag after the bitmap was changed.
Dirtied == TRUE

\* alloc(n) up to its loop: the two early returns, or the scan begins at 0.
AllocCall(n) ==
  /\ pc = "idle"
  /\ \/ /\ n = 0
        /\ ret' = Refused("InvalidSize", 0)
        /\ UNCHANGED <<pc, count, start, i>>
     \/ /\ n # 0 /\ free_count < n
        /\ ret' = Refused("OutOfSpace", n)
        /\ UNCHANGED <<pc, count, start, i>>
     \/ /\ n # 0 /\ free_count >= n
        /\ pc' = "scan" /\ count' = n /\ start' = 0 /\ i' = 0
        /\ UNCHANGED ret
  /\ UNCHANGED <<bitmap, free_count, dirty, disk, blk>>

\* Where the scan resumes when bit s + k of the candidate run is used.
SkipPast(s, k) == s + k + 1

\* One turn of the inner loop: bit start + i is looked at.
ScanBit ==
  /\ pc = "scan" /\ start + count <= DataBlockCount /\ i < count
  /\ IF start + i \in bitmap
       THEN start' = SkipPast(start, i) /\ i' = 0
       ELSE i' = i + 1 /\ UNCHANGED start
  /\ UNCHANGED <<bitmap, free_count, dirty, disk, pc, count, blk, ret>>

\* The whole candidate is free: it is marked and returned.
AllocFound ==
  /\ pc = "scan" /\ start + count <= DataBlockCount /\ i = count
  /\ bitmap' = bitmap \cup Run(start, count)
  /\ free_count' = free_count - count
  /\ dirty' = Dirtied
  /\ ret' = Granted(start, count)
  /\ pc' = "idle" /\ count' = 0 /\ start' = 0 /\ i' = 0
  /\ UNCHANGED <<disk, blk>>

\* The outer loop ends without a run.
AllocExhausted ==
  /\ pc = "scan" /\ start + count > DataBlockCount
  /\ ret' = Refused("OutOfSpace", count)
  /\ pc' = "idle" /\ count' = 0 /\ start' = 0 /\ i' = 0
  /\ UNCHANGED <<bitmap, free_count, dirty, disk, blk>>

\* free() counts the bits it clears, not the bits it is given.
FreeAfterFree(s, n) == free_count + Cardinality(bitmap \cap Run(s, n))

\* free(s, n): bits that are already clear, or past the words, are skipped.
Free(s, n) ==
  /\ pc = "idle"
  /\ bitmap' = bitmap \ Run(s, n)
  /\ free_count' = FreeAfterFree(s, n)
  /\ dirty' = Dirtied
  /\ ret' = Refused("None", 0)
  /\ UNCHANGED <<disk, pc, count, start, i, blk>>

\* flush() when there is something to write.
FlushCall ==
  /\ pc = "idle" /\ dirty
  /\ pc' = "flush" /\ blk' = 0
  /\ UNCHANGED <<bitmap, free_count, dirty, disk, count, start, i, ret>>

\* The bits stored in block k of the bitmap region.
BitsOf(k) == {b \in Bit : BlockOf(b) = k}

\* One block of the bitmap is written.
FlushBlock ==
  /\ pc = "flush" /\ blk < BitmapBlocks
  /\ disk' = (disk \ BitsOf(blk)) \cup (bitmap \cap BitsOf(blk))
  /\ blk' = blk + 1
  /\ UNCHANGED <<bitmap, free_count, dirty, pc, count, start, i, ret>>

\* The dirty flag of a flush() that returns before its last block.
FlushDone == dirty

\* A write, or the DMA buffer, fails: flush() returns before clearing dirty.
FlushError ==
  /\ pc = "flush"
  /\ dirty' = FlushDone
  /\ pc' = "idle" /\ blk' = 0
  /\ ret' = Refused("None", 0)
  /\ UNCHANGED <<bitmap, free_count, disk, count, start, i>>

\* Every block is written: the in-memory bitmap is clean.
FlushOk ==
  /\ pc = "flush" /\ blk = BitmapBlocks
  /\ dirty' = FALSE
  /\ pc' = "idle" /\ blk' = 0
  /\ ret' = Refused("None", 0)
  /\ UNCHANGED <<bitmap, free_count, disk, count, start, i>>

\* load() sums, over the words, their valid bits less their bits that are 1;
\* the valid bits of all the words are DataBlockCount.
FreeOnLoad(bits) == DataBlockCount - Cardinality(bits)

\* The machine restarts at any point and load() reads the bitmap back.  The
\* device still has every write it accepted; HeavenVfs adds the loss of its
\* write cache.
Load ==
  /\ bitmap' = disk
  /\ free_count' = FreeOnLoad(disk)
  /\ dirty' = FALSE
  /\ pc' = "idle" /\ count' = 0 /\ start' = 0 /\ i' = 0 /\ blk' = 0
  /\ ret' = Refused("None", 0)
  /\ UNCHANGED disk

Next ==
  \/ \E n \in 0 .. MaxCount : AllocCall(n)
  \/ ScanBit \/ AllocFound \/ AllocExhausted
  \/ \E s \in Bit, n \in 0 .. MaxCount : Free(s, n)
  \/ FlushCall \/ FlushBlock \/ FlushError \/ FlushOk
  \/ Load

\* alloc() and flush() are loops of the only thread there is.
Progress == ScanBit \/ AllocFound \/ AllocExhausted \/ FlushBlock \/ FlushOk

Spec == Init /\ [][Next]_vars
FairSpec == Spec /\ WF_vars(Progress)

-----------------------------------------------------------------------------
(* Properties.                                                             *)

\* Every variable has its type; the scan and the flush stay in range.
TypeOK ==
  /\ bitmap \subseteq Bit /\ disk \subseteq Bit
  /\ free_count \in 0 .. DataBlockCount
  /\ dirty \in BOOLEAN
  /\ pc \in {"idle", "scan", "flush"}
  /\ count \in 0 .. MaxCount
  /\ start \in 0 .. DataBlockCount
  /\ i \in 0 .. count
  /\ blk \in 0 .. BitmapBlocks
  /\ ret \in [tag : {"None", "Ok", "OutOfSpace", "InvalidSize"},
              start : 0 .. DataBlockCount, count : 0 .. MaxCount]

\* free_count is the number of clear bits among the data blocks, whatever
\* was allocated, freed twice, freed past the end or lost by a restart, and
\* no padding bit is ever set, in memory or on disk (alloc() trusts
\* free_count to refuse a call without a scan, and load() computes it from
\* the words).
FreeCountExact ==
  /\ bitmap \subseteq Block /\ disk \subseteq Block
  /\ free_count = DataBlockCount - Cardinality(bitmap)

\* When the allocator calls itself clean, the disk holds its bitmap: a
\* flush() that failed half way is repeated in full by the next one.
CleanIsOnDisk == ~dirty => disk = bitmap

\* The scan passes over no free run: none starts before the candidate, and
\* the bits of the candidate looked at so far are free.
ScanInv ==
  pc = "scan" =>
    /\ count >= 1
    /\ \A t \in 0 .. DataBlockCount : t < start => Run(t, count) \cap bitmap # {}
    /\ Run(start, i) \cap bitmap = {}

\* A flush is in progress only if something was dirty, and the blocks it has
\* written are those of the bitmap.
FlushInv ==
  pc = "flush" =>
    /\ dirty
    /\ \A b \in Bit : BlockOf(b) < blk => (b \in disk <=> b \in bitmap)

\* The invariant that the steps of the allocator preserve.
IInv == TypeOK /\ FreeCountExact /\ CleanIsOnDisk /\ ScanInv /\ FlushInv

\* alloc() and flush() return: the scan, which jumps over used bits instead
\* of trying every start, always reaches an end.
CallReturns == pc # "idle" ~> pc = "idle"

\* The allocator keeps the promise of RunAllocator: first fit, and refusal
\* only when no run is free.
Abstract == INSTANCE RunAllocator
              WITH Total <- DataBlockCount, used <- bitmap
AbstractSpec == Abstract!Spec
=============================================================================
