---------------------------- MODULE MCVirtioNet -----------------------------
(***************************************************************************)
(* Three descriptors, so that they come back in another order than they    *)
(* were offered in, indexes that wrap at six, as many buffers as the queue *)
(* and transmit() can hold at once, and a pool smaller than the queue (the *)
(* card has 256 descriptors and a pool of 64).                             *)
(***************************************************************************)
EXTENDS VirtioNet, TLC

Buffers == Permutations(Buffer)
=============================================================================
