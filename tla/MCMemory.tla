------------------------------ MODULE MCMemory ------------------------------
(***************************************************************************)
(* The two allocators of memory, which share no state here: each is        *)
(* followed while the other is in its initial state.  The clients of the   *)
(* heap are interchangeable, and have nothing while pages are allocated:   *)
(* that each scan ends does not depend on the symmetry.                    *)
(***************************************************************************)
EXTENDS PhysAllocator, SlabHeap, TLC

\* Pages of four bytes: a region that starts and one that ends inside a page,
\* two that overlap, a hole, and one that reaches past MAX_PAGES.
Regions == {[base |-> 2, length |-> 10], [base |-> 8, length |-> 6],
            [base |-> 16, length |-> 20]}

\* The heap has pages of 16 words; as in the kernel, the classes double up to
\* the page and the header is two words.
Classes == <<1, 2, 4, 8, 16>>

Clients == Permutations(Client)

MCInit == Init /\ HeapInit

Pages(A) == HeapInit /\ A /\ UNCHANGED heapVars
Blocks == Init /\ HeapNext /\ UNCHANGED vars

MCNext == Pages(Next) \/ Blocks

MCSpec == MCInit /\ [][MCNext]_<<vars, heapVars>> /\ WF_<<vars, heapVars>>(Pages(Scan))
=============================================================================
