---------------------------- MODULE MCHeavenVfs -----------------------------
(***************************************************************************)
(* Three names for the two slots of the table, and three blocks: files     *)
(* move, grow into each other's old blocks and fill the device and the     *)
(* table.                                                                  *)
(***************************************************************************)
EXTENDS HeavenVfs, TLC

Files == Permutations(File)
=============================================================================
