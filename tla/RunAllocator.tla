---------------------------- MODULE RunAllocator ----------------------------
(***************************************************************************)
(* What an allocator of contiguous runs promises its callers: a request of *)
(* n units is answered with the lowest run of n free units, and is refused *)
(* only when there is no such run.  Both bitmap allocators of the kernel   *)
(* (storage/block_alloc.rs for disk blocks, mem/phys.rs for pages) are     *)
(* meant to be implementations of it.                                      *)
(*                                                                         *)
(* The search is one atomic step here: `used' is the set of units in use   *)
(* and `ret' what the last call returned.                                  *)
(***************************************************************************)
EXTENDS Naturals

CONSTANTS
  Total,     \* number of units
  MaxCount   \* largest run a caller asks for

VARIABLES used, ret

vars == <<used, ret>>

Unit == 0 .. Total - 1

\* The n units from s on, and that they exist and are all free.
Run(s, n) == s .. s + n - 1
FreeRun(s, n) == s + n <= Total /\ Run(s, n) \cap used = {}

Granted(s, n) == [tag |-> "Ok", start |-> s, count |-> n]
Refused(tag, n) == [tag |-> tag, start |-> 0, count |-> n]

Init == used = {} /\ ret = Refused("None", 0)

\* A run is granted: the lowest one.
Grant ==
  \E n \in 1 .. MaxCount, s \in 0 .. Total :
    /\ FreeRun(s, n)
    /\ \A t \in 0 .. Total : t < s => ~FreeRun(t, n)
    /\ used' = used \cup Run(s, n)
    /\ ret' = Granted(s, n)

\* A request is refused: no run of that length is free.
Refuse ==
  \E n \in 1 .. MaxCount :
    /\ \A s \in 0 .. Total : ~FreeRun(s, n)
    /\ ret' = Refused("OutOfSpace", n)
    /\ UNCHANGED used

\* A request for nothing is an error whatever the state.
Reject == ret' = Refused("InvalidSize", 0) /\ UNCHANGED used

\* Units go back; freeing a free unit changes nothing.
Release ==
  \E freed \in SUBSET Unit :
    used' = used \ freed /\ ret' = Refused("None", 0)

\* A restart brings back some earlier set of units in use.
Restart ==
  \E saved \in SUBSET Unit :
    used' = saved /\ ret' = Refused("None", 0)

Next == Grant \/ Refuse \/ Reject \/ Release \/ Restart

Spec == Init /\ [][Next]_vars
=============================================================================
