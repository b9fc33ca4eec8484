------------------------ MODULE BlockAllocatorProofs ------------------------
(***************************************************************************)
(* BlockAllocator proved for every size of disk, bitmap and request: its   *)
(* invariants hold and it implements RunAllocator.                         *)
(*                                                                         *)
(* None of the parts of IInv is inductive alone.  TypeOK needs             *)
(* FreeCountExact (free_count stays in range), FreeCountExact needs        *)
(* ScanInv (the run marked by alloc() was free) and CleanIsOnDisk needs    *)
(* FlushInv (every block was written when the dirty flag is cleared).      *)
(***************************************************************************)
EXTENDS BlockAllocator, FiniteSetTheorems, TLAPS

USE BlockAllocatorAssumption

-----------------------------------------------------------------------------
(* Sets of blocks.                                                         *)

\* The data blocks are DataBlockCount many, and so any set of them is finite.
LEMMA BlockFacts ==
  /\ IsFiniteSet(Block)
  /\ Cardinality(Block) = DataBlockCount
  /\ \A S \in SUBSET Block :
       /\ IsFiniteSet(S)
       /\ Cardinality(S) \in 0 .. DataBlockCount
<1>1. IsFiniteSet(Block) /\ Cardinality(Block) = DataBlockCount
  BY FS_Interval, 0 \in Int, DataBlockCount - 1 \in Int DEF Block
<1>2. ASSUME NEW S \in SUBSET Block
      PROVE  IsFiniteSet(S) /\ Cardinality(S) \in 0 .. DataBlockCount
  BY <1>1, FS_Subset, FS_CardinalityType
<1> QED BY <1>1, <1>2

\* A run is finite and as long as it says.
LEMMA RunFacts ==
  ASSUME NEW s \in Nat, NEW n \in Nat
  PROVE  IsFiniteSet(Run(s, n)) /\ Cardinality(Run(s, n)) = n
<1>1. s \in Int /\ s + n - 1 \in Int
  OBVIOUS
<1> QED BY <1>1, FS_Interval DEF Run

\* alloc() marks blocks that were free: the count goes down by their number.
LEMMA CardinalityAfterAlloc ==
  ASSUME NEW B \in SUBSET Block, NEW s \in Nat, NEW n \in Nat,
         Run(s, n) \cap B = {}
  PROVE  Cardinality(B \cup Run(s, n)) = Cardinality(B) + n
<1>1. IsFiniteSet(B) /\ Cardinality(B) \in Nat
  BY BlockFacts
<1>2. Cardinality(B \cup Run(s, n))
        = Cardinality(B) + Cardinality(Run(s, n)) - Cardinality(B \cap Run(s, n))
  BY <1>1, RunFacts, FS_Union
<1>3. Cardinality(B \cap Run(s, n)) = 0
  BY FS_EmptySet, B \cap Run(s, n) = {}
<1> QED BY <1>1, <1>2, <1>3, RunFacts

\* free() clears the bits of the run that were set: the count goes up by those.
LEMMA CardinalityAfterFree ==
  ASSUME NEW B \in SUBSET Block, NEW R
  PROVE  Cardinality(B) = Cardinality(B \ R) + Cardinality(B \cap R)
<1>1. B \ R \in SUBSET Block /\ B \cap R \in SUBSET Block
  OBVIOUS
<1>2. /\ IsFiniteSet(B \ R) /\ Cardinality(B \ R) \in Nat
      /\ IsFiniteSet(B \cap R) /\ Cardinality(B \cap R) \in Nat
  BY <1>1, BlockFacts
<1>3. Cardinality((B \ R) \cup (B \cap R))
        = Cardinality(B \ R) + Cardinality(B \cap R)
            - Cardinality((B \ R) \cap (B \cap R))
  BY <1>2, FS_Union
<1>4. (B \ R) \cup (B \cap R) = B /\ (B \ R) \cap (B \cap R) = {}
  OBVIOUS
<1>5. Cardinality(B) = Cardinality(B \ R) + Cardinality(B \cap R) - Cardinality({})
  BY <1>3, <1>4
<1>6. Cardinality({}) = 0
  BY FS_EmptySet
<1> QED BY <1>2, <1>5, <1>6

-----------------------------------------------------------------------------
(* The invariant.                                                          *)

LEMMA InitIInv == Init => IInv
<1> SUFFICES ASSUME Init PROVE IInv
  OBVIOUS
<1>1. Cardinality({}) = 0
  BY FS_EmptySet
<1>2. TypeOK
  <2>1. dirty \in BOOLEAN
    BY Zenon DEF Init
  <2> QED BY <2>1 DEF Init, TypeOK, Refused
<1>3. FreeCountExact
  BY <1>1 DEF Init, FreeCountExact
<1> QED BY <1>2, <1>3 DEF Init, IInv, CleanIsOnDisk, ScanInv, FlushInv

LEMMA NextIInv == IInv /\ [Next]_vars => IInv'
<1> SUFFICES ASSUME IInv, [Next]_vars PROVE IInv'
  OBVIOUS
<1> USE DEF IInv
<1>1. ASSUME NEW n \in 0 .. MaxCount, AllocCall(n) PROVE IInv'
  <2>1. TypeOK'
    BY <1>1 DEF TypeOK, AllocCall, Refused
  <2>2. ScanInv'
    BY <1>1 DEF TypeOK, ScanInv, AllocCall, Run
  <2> QED BY <1>1, <2>1, <2>2
        DEF AllocCall, FreeCountExact, CleanIsOnDisk, FlushInv, TypeOK
<1>2. ASSUME ScanBit PROVE IInv'
  <2>1. TypeOK'
    BY <1>2 DEF TypeOK, ScanBit, SkipPast
  <2>2. ScanInv'
    <3>1. CASE start + i \in bitmap
      <4>1. \A t \in 0 .. DataBlockCount :
              t < start + i + 1 => Run(t, count) \cap bitmap # {}
        <5> SUFFICES ASSUME NEW t \in 0 .. DataBlockCount, t < start + i + 1
                     PROVE  Run(t, count) \cap bitmap # {}
          OBVIOUS
        <5>1. CASE t < start
          BY <5>1, <1>2 DEF ScanInv, ScanBit
        <5>2. CASE t >= start
          <6>1. start + i \in Run(t, count)
            BY <5>2, <1>2 DEF TypeOK, ScanBit, Run
          <6> QED BY <6>1, <3>1
        <5> QED BY <5>1, <5>2 DEF TypeOK
      <4> QED BY <3>1, <4>1, <1>2 DEF TypeOK, ScanInv, ScanBit, SkipPast, Run
    <3>2. CASE start + i \notin bitmap
      <4>1. Run(start, i + 1) = Run(start, i) \cup {start + i}
        BY DEF TypeOK, Run
      <4> QED BY <3>2, <4>1, <1>2 DEF ScanInv, ScanBit
    <3> QED BY <3>1, <3>2
  <2> QED BY <1>2, <2>1, <2>2
        DEF ScanBit, FreeCountExact, CleanIsOnDisk, FlushInv, TypeOK
<1>3. ASSUME AllocFound PROVE IInv'
  <2>1. Run(start, count) \cap bitmap = {}
    BY <1>3 DEF AllocFound, ScanInv
  <2>2. Run(start, count) \subseteq Block
    BY <1>3 DEF AllocFound, TypeOK, Run, Block
  <2>3. FreeCountExact'
    <3>1. Cardinality(bitmap \cup Run(start, count)) = Cardinality(bitmap) + count
      BY <2>1, CardinalityAfterAlloc DEF FreeCountExact, TypeOK
    <3>2. Cardinality(bitmap) \in 0 .. DataBlockCount
      BY BlockFacts DEF FreeCountExact
    <3> QED BY <1>3, <2>2, <3>1, <3>2 DEF AllocFound, FreeCountExact, TypeOK
  <2>4. TypeOK'
    <3>1. bitmap' \subseteq Block /\ Block \subseteq Bit
      BY <2>3 DEF FreeCountExact, Block, Bit
    <3>2. free_count' \in 0 .. DataBlockCount
      BY <2>3, <3>1, BlockFacts DEF FreeCountExact
    <3> QED BY <1>3, <3>1, <3>2 DEF AllocFound, TypeOK, Granted, Dirtied
  <2> QED BY <1>3, <2>3, <2>4
        DEF AllocFound, CleanIsOnDisk, Dirtied, ScanInv, FlushInv, TypeOK
<1>4. ASSUME AllocExhausted PROVE IInv'
  <2>1. TypeOK'
    BY <1>4 DEF TypeOK, AllocExhausted, Refused
  <2> QED BY <1>4, <2>1
        DEF AllocExhausted, FreeCountExact, CleanIsOnDisk, ScanInv, FlushInv
<1>5. ASSUME NEW s \in Bit, NEW n \in 0 .. MaxCount, Free(s, n) PROVE IInv'
  <2>1. FreeCountExact'
    <3>1. Cardinality(bitmap)
            = Cardinality(bitmap \ Run(s, n)) + Cardinality(bitmap \cap Run(s, n))
      BY CardinalityAfterFree DEF FreeCountExact
    <3>2. /\ Cardinality(bitmap) \in Nat
          /\ Cardinality(bitmap \ Run(s, n)) \in Nat
          /\ Cardinality(bitmap \cap Run(s, n)) \in Nat
      BY BlockFacts, bitmap \ Run(s, n) \in SUBSET Block,
         bitmap \cap Run(s, n) \in SUBSET Block DEF FreeCountExact
    <3> QED BY <1>5, <3>1, <3>2 DEF Free, FreeAfterFree, FreeCountExact, TypeOK
  <2>2. TypeOK'
    <3>1. free_count' \in 0 .. DataBlockCount
      BY <2>1, BlockFacts DEF FreeCountExact
    <3> QED BY <1>5, <3>1 DEF Free, TypeOK, Refused, Dirtied
  <2> QED BY <1>5, <2>1, <2>2
        DEF Free, CleanIsOnDisk, Dirtied, ScanInv, FlushInv, TypeOK
<1>6. ASSUME FlushCall PROVE IInv'
  <2>1. TypeOK'
    BY <1>6 DEF TypeOK, FlushCall
  <2>2. FlushInv'
    BY <1>6 DEF FlushInv, FlushCall
  <2> QED BY <1>6, <2>1, <2>2
        DEF FlushCall, FreeCountExact, CleanIsOnDisk, ScanInv
<1>7. ASSUME FlushBlock PROVE IInv'
  <2>1. TypeOK'
    BY <1>7 DEF TypeOK, FlushBlock
  <2>2. FlushInv'
    BY <1>7 DEF FlushInv, FlushBlock, BitsOf, TypeOK, Bit
  <2> QED BY <1>7, <2>1, <2>2
        DEF FlushBlock, FreeCountExact, CleanIsOnDisk, ScanInv, FlushInv
<1>8. ASSUME FlushError PROVE IInv'
  <2>1. TypeOK'
    BY <1>8 DEF TypeOK, FlushError, FlushDone, Refused
  <2> QED BY <1>8, <2>1
        DEF FlushError, FlushDone, FreeCountExact, CleanIsOnDisk, ScanInv, FlushInv
<1>9. ASSUME FlushOk PROVE IInv'
  <2>1. TypeOK'
    <3>1. dirty' \in BOOLEAN
      BY <1>9, Zenon DEF FlushOk
    <3> QED BY <1>9, <3>1 DEF TypeOK, FlushOk, Refused
  <2>2. disk = bitmap
    <3>1. \A b \in Bit : BlockOf(b) < blk
      BY <1>9, SMTT(30) DEF FlushOk, Bit, BlockOf
    <3> QED BY <1>9, <3>1 DEF FlushOk, FlushInv, TypeOK
  <2> QED BY <1>9, <2>1, <2>2
        DEF FlushOk, FreeCountExact, CleanIsOnDisk, ScanInv, FlushInv
<1>10. ASSUME Load PROVE IInv'
  <2>1. FreeCountExact'
    BY <1>10 DEF Load, FreeOnLoad, FreeCountExact
  <2>2. TypeOK'
    <3>1. free_count' \in 0 .. DataBlockCount
      BY <2>1, BlockFacts DEF FreeCountExact
    <3>2. dirty' \in BOOLEAN
      BY <1>10, Zenon DEF Load
    <3> QED BY <1>10, <3>1, <3>2 DEF Load, TypeOK, Refused
  <2> QED BY <1>10, <2>1, <2>2 DEF Load, CleanIsOnDisk, ScanInv, FlushInv
<1>11. ASSUME UNCHANGED vars PROVE IInv'
  BY <1>11 DEF vars, TypeOK, FreeCountExact, CleanIsOnDisk, ScanInv, FlushInv
<1> QED BY <1>1, <1>2, <1>3, <1>4, <1>5, <1>6, <1>7, <1>8, <1>9, <1>10, <1>11
      DEF Next

\* Every reachable state satisfies the invariant.
THEOREM Invariance == Spec => []IInv
<1> QED BY InitIInv, NextIInv, PTL DEF Spec

\* Scans, flushes and counters stay in their range, for every disk size.
THEOREM TypeCorrect == Spec => []TypeOK
<1> QED BY Invariance, PTL DEF IInv

\* free_count is exact after any sequence of alloc(), free(), flush() that
\* fail or succeed, and restarts.
THEOREM FreeCountCorrect == Spec => []FreeCountExact
<1> QED BY Invariance, PTL DEF IInv

\* A clean allocator is on disk, whatever flush() failed before.
THEOREM CleanCorrect == Spec => []CleanIsOnDisk
<1> QED BY Invariance, PTL DEF IInv

-----------------------------------------------------------------------------
(* The allocator implements RunAllocator.                                  *)

\* A run of n free blocks exists only if free_count is at least n, so the
\* early return of alloc() refuses nothing that the scan would have found.
LEMMA FreeRunCounts ==
  ASSUME IInv, NEW n \in Nat, NEW s \in Nat, Abstract!FreeRun(s, n)
  PROVE  n <= free_count
<1>1. Run(s, n) \subseteq Block /\ Run(s, n) \cap bitmap = {}
  BY DEF Abstract!FreeRun, Abstract!Run, Run, Block
<1>2. bitmap \subseteq Block
  BY DEF IInv, FreeCountExact
<1>3. Cardinality(bitmap \cup Run(s, n)) = Cardinality(bitmap) + n
  BY <1>1, <1>2, CardinalityAfterAlloc
<1>4. Cardinality(bitmap \cup Run(s, n)) \in 0 .. DataBlockCount
  BY <1>1, <1>2, BlockFacts, bitmap \cup Run(s, n) \in SUBSET Block
<1>5. Cardinality(bitmap) \in Nat
  BY <1>2, BlockFacts
<1> QED BY <1>3, <1>4, <1>5 DEF IInv, FreeCountExact

\* Every step of the allocator is a step of RunAllocator or changes nothing
\* that RunAllocator sees.
LEMMA StepRefines == IInv /\ [Next]_vars => [Abstract!Next]_(Abstract!vars)
<1> SUFFICES ASSUME IInv, [Next]_vars
             PROVE  Abstract!Next \/ UNCHANGED <<bitmap, ret>>
  BY DEF Abstract!vars
<1>1. ASSUME NEW n \in 0 .. MaxCount, AllocCall(n)
      PROVE  Abstract!Next \/ UNCHANGED <<bitmap, ret>>
  <2>1. CASE n = 0 /\ ret' = Refused("InvalidSize", 0)
    BY <1>1, <2>1 DEF AllocCall, Refused, Abstract!Next, Abstract!Reject, Abstract!Refused
  <2>2. CASE n # 0 /\ free_count < n /\ ret' = Refused("OutOfSpace", n)
    <3>1. \A s \in 0 .. DataBlockCount : ~Abstract!FreeRun(s, n)
      BY <2>2, FreeRunCounts DEF IInv, TypeOK
    <3>2. n \in 1 .. MaxCount
      BY <2>2
    <3>3. Abstract!Refuse
      BY <1>1, <2>2, <3>1, <3>2 DEF AllocCall, Refused, Abstract!Refuse, Abstract!Refused
    <3> QED BY <3>3 DEF Abstract!Next
  <2> QED BY <1>1, <2>1, <2>2 DEF AllocCall
<1>2. ASSUME ScanBit PROVE UNCHANGED <<bitmap, ret>>
  BY <1>2 DEF ScanBit
<1>3. ASSUME AllocFound PROVE Abstract!Next
  <2>1. count \in 1 .. MaxCount /\ start \in 0 .. DataBlockCount
    BY <1>3 DEF IInv, TypeOK, ScanInv, AllocFound
  <2>2. Abstract!FreeRun(start, count)
    BY <1>3 DEF IInv, ScanInv, AllocFound, Run, Abstract!FreeRun, Abstract!Run
  <2>3. \A t \in 0 .. DataBlockCount : t < start => ~Abstract!FreeRun(t, count)
    BY <1>3 DEF IInv, ScanInv, AllocFound, Run, Abstract!FreeRun, Abstract!Run
  <2>4. Abstract!Grant
    BY <1>3, <2>1, <2>2, <2>3
       DEF AllocFound, Run, Granted, Abstract!Grant, Abstract!Run, Abstract!Granted
  <2> QED BY <2>4 DEF Abstract!Next
<1>4. ASSUME AllocExhausted PROVE Abstract!Next
  <2>1. count \in 1 .. MaxCount
    BY <1>4 DEF IInv, TypeOK, ScanInv, AllocExhausted
  <2>2. ASSUME NEW t \in 0 .. DataBlockCount PROVE ~Abstract!FreeRun(t, count)
    <3>1. CASE t < start
      BY <1>4, <3>1 DEF IInv, ScanInv, AllocExhausted, Run, Abstract!FreeRun, Abstract!Run
    <3>2. CASE ~(t < start)
      BY <1>4, <3>2 DEF IInv, TypeOK, AllocExhausted, Abstract!FreeRun
    <3> QED BY <3>1, <3>2
  <2>3. Abstract!Refuse
    BY <1>4, <2>1, <2>2 DEF AllocExhausted, Refused, Abstract!Refuse, Abstract!Refused
  <2> QED BY <2>3 DEF Abstract!Next
<1>5. ASSUME NEW s \in Bit, NEW n \in 0 .. MaxCount, Free(s, n) PROVE Abstract!Next
  <2>1. bitmap' = bitmap \ (Run(s, n) \cap Block)
    BY <1>5 DEF Free, IInv, FreeCountExact
  <2>2. Run(s, n) \cap Block \in SUBSET Abstract!Unit
    BY DEF Block, Abstract!Unit
  <2>3. Abstract!Release
    BY <1>5, <2>1, <2>2 DEF Free, Refused, Abstract!Release, Abstract!Refused
  <2> QED BY <2>3 DEF Abstract!Next
<1>6. ASSUME FlushCall \/ FlushBlock PROVE UNCHANGED <<bitmap, ret>>
  BY <1>6 DEF FlushCall, FlushBlock
<1>7. ASSUME FlushError \/ FlushOk PROVE Abstract!Next
  <2>1. bitmap' = bitmap \ {} /\ ret' = Refused("None", 0)
    BY <1>7 DEF FlushError, FlushOk
  <2>2. Abstract!Release
    BY <2>1, {} \in SUBSET Abstract!Unit DEF Refused, Abstract!Release, Abstract!Refused
  <2> QED BY <2>2 DEF Abstract!Next
<1>8. ASSUME Load PROVE Abstract!Next
  <2>1. disk \in SUBSET Abstract!Unit
    BY DEF IInv, FreeCountExact, Block, Abstract!Unit
  <2>2. Abstract!Restart
    BY <1>8, <2>1 DEF Load, Refused, Abstract!Restart, Abstract!Refused
  <2> QED BY <2>2 DEF Abstract!Next
<1>9. ASSUME UNCHANGED vars PROVE UNCHANGED <<bitmap, ret>>
  BY <1>9 DEF vars
<1> QED BY <1>1, <1>2, <1>3, <1>4, <1>5, <1>6, <1>7, <1>8, <1>9 DEF Next

\* The allocator of block_alloc.rs is a first-fit allocator that refuses a
\* request only when no run of that length is free.
THEOREM Refinement == Spec => AbstractSpec
<1>1. Init => Abstract!Init
  BY DEF Init, Refused, Abstract!Init, Abstract!Refused
<1> QED BY <1>1, StepRefines, Invariance, PTL DEF Spec, AbstractSpec, Abstract!Spec
=============================================================================
