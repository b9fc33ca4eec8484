------------------------------ MODULE MCStorage ------------------------------
(***************************************************************************)
(* What the file system stands on: the allocator of blocks, and the queue  *)
(* pair of the disk.  They share no state, and each is followed while the  *)
(* other is in its initial state.                                          *)
(*                                                                         *)
(* Allocator: five data blocks in two four-bit words, so that there are    *)
(* three bits of padding, and a bitmap region of two blocks, so that a     *)
(* flush can fail half way.  Queue: rings of three entries and up to four  *)
(* commands, so that both rings wrap, the phase changes, and late          *)
(* completions come.                                                       *)
(***************************************************************************)
EXTENDS BlockAllocator, NvmeQueue

MCInit == Init /\ NvmeInit

Blocks(A) == NvmeInit /\ A /\ UNCHANGED nvme
Disk(A)   == Init /\ A /\ UNCHANGED vars

MCNext == Blocks(Next) \/ Disk(NvmeNext)

mcVars == <<vars, nvme>>
MCSpec ==
  /\ MCInit /\ [][MCNext]_mcVars
  /\ WF_mcVars(Blocks(Progress)) /\ WF_mcVars(Disk(Complete \/ Timeout))
=============================================================================
