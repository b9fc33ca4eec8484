---------------------------- MODULE MCNvmeQueue -----------------------------
(***************************************************************************)
(* Rings of three entries and up to four commands: both rings wrap, the    *)
(* phase changes, and a late completion can be taken for the next command. *)
(***************************************************************************)
EXTENDS NvmeQueue
=============================================================================
