------------------------------ MODULE LuaAlloc ------------------------------
(***************************************************************************)
(* heaven_lua_alloc() of lua/alloc.rs: the allocator of one Lua state,     *)
(* which charges every block to the state and refuses what would exceed    *)
(* its limit.  Which block the interpreter asks for, resizes or frees is   *)
(* its own business.  Sizes are in units.                                  *)
(***************************************************************************)
EXTENDS Naturals, FiniteSets

CONSTANTS
  Block,      \* names of the blocks a state may hold
  MaxSize,    \* bound: size of a block
  LuaLimit    \* LUA_MEM_LIMIT

ASSUME LuaAllocAssumption ==
  IsFiniteSet(Block) /\ MaxSize \in Nat \ {0} /\ LuaLimit \in Nat \ {0}

VARIABLES
  blocks,   \* sizes of the blocks the interpreter holds; 0 for none
  used,     \* LuaAllocState.used
  limit     \* LuaAllocState.limit

heap == <<blocks, used, limit>>

\* An agent has the limit, the REPL four times as much.
HeapInit ==
  /\ blocks = [b \in Block |-> 0] /\ used = 0 /\ limit \in {LuaLimit, 4 * LuaLimit}

-----------------------------------------------------------------------------
(* Plausible mistakes in the code, each the body of one definition.        *)

Resized_Gross(old, n) == used + n
-----------------------------------------------------------------------------

\* A block of n units is refused beyond the limit; the kernel heap may be
\* exhausted at any time.
Fits(n) == used + n <= limit

Malloc(b, n) ==
  /\ blocks[b] = 0 /\ Fits(n)
  /\ blocks' = [blocks EXCEPT ![b] = n]
  /\ used' = used + n
  /\ UNCHANGED limit

Monus(a, b) == IF a > b THEN a - b ELSE 0

\* What is charged after a block of old units was resized to n.
Resized(old, n) == Monus(used, old) + n

\* Growing is refused beyond the limit; the kernel heap may refuse any resize,
\* and the block then stays as it is.
Realloc(b, n) ==
  /\ blocks[b] > 0 /\ (n > blocks[b] => Fits(n - blocks[b]))
  /\ blocks' = [blocks EXCEPT ![b] = n]
  /\ used' = Resized(blocks[b], n)
  /\ UNCHANGED limit

Released(old) == Monus(used, old)

Free(b) ==
  /\ blocks[b] > 0
  /\ blocks' = [blocks EXCEPT ![b] = 0]
  /\ used' = Released(blocks[b])
  /\ UNCHANGED limit

\* What is refused changes nothing.
HeapNext ==
  \E b \in Block :
    Free(b) \/ \E n \in 1 .. MaxSize : Malloc(b, n) \/ Realloc(b, n)

HeapSpec == HeapInit /\ [][HeapNext]_heap

-----------------------------------------------------------------------------

LuaAllocTypeOK ==
  /\ blocks \in [Block -> 0 .. MaxSize] /\ used \in Nat /\ limit \in Nat

\* The units of memory the interpreter holds.
Held == {u \in Block \X (1 .. MaxSize) : u[2] <= blocks[u[1]]}

\* What is charged to a state is what it holds and never more than its limit,
\* whatever was refused, resized or freed on the way: a drift either way lets
\* a script take the kernel's heap or ends it with memory to spare.
Accounted == LuaAllocTypeOK /\ used = Cardinality(Held) /\ used <= limit
=============================================================================
