----------------------------- MODULE Virtqueue ------------------------------
(***************************************************************************)
(* A split virtqueue, drivers/virtio/virtqueue.rs: a table of descriptors, *)
(* the free ones linked through their `next' fields, an available ring     *)
(* that the driver writes and a used ring that the device writes.  Both    *)
(* ring indexes run freely and wrap at 2^16.                               *)
(*                                                                         *)
(* VirtioNet uses it for the two queues of the network card.  The          *)
(* device is external: it takes the buffers in the order offered, keeps    *)
(* them as long as it likes and returns them in any order.                 *)
(***************************************************************************)
EXTENDS Integers, FiniteSets

CONSTANTS
  Size,      \* queue size reported by the device
  IdxSpace,  \* number of values of a ring index (2^16 in the code)
  Buffer,    \* DMA buffers
  NoBuffer   \* no buffer

Desc == 0 .. Size - 1
Idx  == 0 .. IdxSpace - 1

\* The sizes that a device reports are powers of two.
ASSUME VirtqueueAssumption ==
  /\ Size \in Nat \ {0} /\ IdxSpace \in Nat \ {0}
  /\ IdxSpace % Size = 0 /\ IdxSpace > Size
  /\ NoBuffer \notin Buffer

VARIABLES
  next,           \* VirtqDesc::next of each descriptor
  addr,           \* VirtqDesc::addr of each descriptor
  free_head, num_free,
  avail, avail_idx,         \* available ring
  used, used_idx,           \* used ring: descriptor, and whether a frame came with it
  last_used_idx,
  dev_idx,        \* device: how far it has read the available ring
  taken           \* device: descriptors it is working on

free_list == <<next, addr, free_head, num_free>>
queue == <<free_list, avail, avail_idx, used, used_idx, last_used_idx, dev_idx, taken>>

-----------------------------------------------------------------------------
(* Plausible mistakes in the code, each the body of one definition.        *)

HeadAfterAdd_Next == (free_head + 1) % Size
RingSlot_Late(i) == (i + 1) % Size
-----------------------------------------------------------------------------

\* Virtqueue::new(): every descriptor is free and linked to the next one.
QueueInit ==
  /\ next = [d \in Desc |-> IF d + 1 < Size THEN d + 1 ELSE 0]
  /\ addr = [d \in Desc |-> NoBuffer]
  /\ free_head = 0 /\ num_free = Size
  /\ avail = [p \in Desc |-> 0] /\ avail_idx = 0
  /\ used = [p \in Desc |-> [id |-> 0, frame |-> FALSE]] /\ used_idx = 0
  /\ last_used_idx = 0
  /\ dev_idx = 0 /\ taken = {}

\* The entry of a ring that index i stands for.
RingSlot(i) == i % Size
NextIdx(i) == (i + 1) % IdxSpace

\* The head of the free list after its first descriptor was taken, and after
\* d was put back.
HeadAfterAdd == next[free_head]
HeadAfterPoll(d) == d

\* add_buf() on a queue that has a free descriptor; it returns free_head.  The
\* device looks at nothing before the index, which is written last.
AddBuf(b) ==
  /\ num_free > 0
  /\ free_head' = HeadAfterAdd
  /\ next' = [next EXCEPT ![free_head] = 0]
  /\ addr' = [addr EXCEPT ![free_head] = b]
  /\ num_free' = num_free - 1
  /\ avail' = [avail EXCEPT ![RingSlot(avail_idx)] = free_head]
  /\ avail_idx' = NextIdx(avail_idx)
  /\ UNCHANGED <<used, used_idx, last_used_idx, dev_idx, taken>>

\* poll_used() has something to return, and what.
UsedPending == last_used_idx # used_idx
UsedEntry == used[RingSlot(last_used_idx)]

\* poll_used() returns UsedEntry; its descriptor goes back to the free list.
PollUsed ==
  /\ UsedPending
  /\ last_used_idx' = NextIdx(last_used_idx)
  /\ next' = [next EXCEPT ![UsedEntry.id] = free_head]
  /\ free_head' = HeadAfterPoll(UsedEntry.id)
  /\ num_free' = num_free + 1
  /\ UNCHANGED <<addr, avail, avail_idx, used, used_idx, dev_idx, taken>>

\* The device takes the next descriptor that was offered.
Take ==
  /\ dev_idx # avail_idx
  /\ taken' = taken \cup {avail[dev_idx % Size]}
  /\ dev_idx' = NextIdx(dev_idx)
  /\ UNCHANGED <<free_list, avail, avail_idx, used, used_idx, last_used_idx>>

\* The device returns descriptor d.
Return(d, frame) ==
  /\ d \in taken
  /\ taken' = taken \ {d}
  /\ used' = [used EXCEPT ![used_idx % Size] = [id |-> d, frame |-> frame]]
  /\ used_idx' = NextIdx(used_idx)
  /\ UNCHANGED <<free_list, avail, avail_idx, last_used_idx, dev_idx>>

-----------------------------------------------------------------------------
(* Properties that both queues have.                                       *)

\* The number of entries from index i to index j of a ring.
Ahead(i, j) == (j - i) % IdxSpace

\* Descriptors offered and not yet taken; returned and not yet polled.
Offered  == {avail[(dev_idx + k) % Size] : k \in 0 .. Ahead(dev_idx, avail_idx) - 1}
Returned == {used[(last_used_idx + k) % Size].id : k \in 0 .. Ahead(last_used_idx, used_idx) - 1}

\* c lists the free descriptors as they are linked.
IsChain(c) ==
  /\ num_free > 0 => c[0] = free_head
  /\ \A k \in 1 .. num_free - 1 : c[k] = next[c[k - 1]]

\* The free list, in its order and as a set.
FreeChain == CHOOSE c \in [0 .. num_free - 1 -> Desc] : IsChain(c)
FreeList  == {FreeChain[k] : k \in 0 .. num_free - 1}

\* Every variable has its type.
QueueTypeOK ==
  /\ next \in [Desc -> Desc]
  /\ addr \in [Desc -> Buffer \cup {NoBuffer}]
  /\ free_head \in Desc /\ num_free \in 0 .. Size
  /\ avail \in [Desc -> Desc]
  /\ used \in [Desc -> [id : Desc, frame : BOOLEAN]]
  /\ {avail_idx, used_idx, last_used_idx, dev_idx} \subseteq Idx
  /\ taken \subseteq Desc

\* A descriptor is at one place at a time: on the free list (which has
\* num_free different descriptors), offered, with the device, or returned.
\* None is lost and none offered twice, also when the indexes wrap.
DescriptorsAccounted ==
  /\ Cardinality(FreeList) = num_free
  /\ Cardinality(Offered) = Ahead(dev_idx, avail_idx)
  /\ Cardinality(Returned) = Ahead(last_used_idx, used_idx)
  /\ FreeList \cup Offered \cup taken \cup Returned = Desc
  /\ num_free + Cardinality(Offered) + Cardinality(taken) + Cardinality(Returned) = Size

-----------------------------------------------------------------------------
(* Why these hold: the inductive invariant.                                *)

\* The lengths and the entries of the two rings.
nOff == Ahead(dev_idx, avail_idx)
nRet == Ahead(last_used_idx, used_idx)
OffAt(k) == avail[(dev_idx + k) % Size]
RetAt(k) == used[(last_used_idx + k) % Size]

\* The descriptors that are not free.
Busy == Offered \cup taken \cup Returned

\* The free list holds num_free different descriptors.
ListInv ==
  /\ FreeChain \in [0 .. num_free - 1 -> Desc] /\ IsChain(FreeChain)
  /\ \A j, k \in 0 .. num_free - 1 : FreeChain[j] = FreeChain[k] => j = k

\* No descriptor is in a ring twice.
RingsInv ==
  /\ \A j, k \in 0 .. nOff - 1 : OffAt(j) = OffAt(k) => j = k
  /\ \A j, k \in 0 .. nRet - 1 : RetAt(j).id = RetAt(k).id => j = k

\* The descriptors are divided among the four places, and add up.
ZonesInv ==
  /\ FreeList = Desc \ Busy
  /\ Offered \cap taken = {} /\ Offered \cap Returned = {} /\ taken \cap Returned = {}
  /\ num_free + nOff + Cardinality(taken) + nRet = Size

\* The inductive invariant of the queue.
QueueInv == QueueTypeOK /\ ListInv /\ RingsInv /\ ZonesInv
=============================================================================
