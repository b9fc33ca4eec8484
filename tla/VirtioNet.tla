----------------------------- MODULE VirtioNet ------------------------------
(***************************************************************************)
(* The network card driver, drivers/virtio/net.rs, on its two virtqueues.  *)
(*                                                                         *)
(* transmit() takes back the buffers the device is done with, copies the   *)
(* frame to a fresh DMA buffer, offers it and keeps it in tx_inflight, by  *)
(* descriptor, until the device returns it.                                *)
(*                                                                         *)
(* For reception a pool of buffers is posted once; receive() copies a      *)
(* frame out of the buffer that belongs to the descriptor number that the  *)
(* device returned and posts that buffer again.  Nothing but the free list *)
(* ties buffer to descriptor: add_buf() has to hand out the number that    *)
(* poll_used() just freed.                                                 *)
(*                                                                         *)
(* The two queues share nothing, so a behaviour has one of them (`side').  *)
(***************************************************************************)
EXTENDS Virtqueue, Sequences

CONSTANTS
  PoolSize,     \* RX_POOL_SIZE
  Frame         \* contents of frames

ASSUME VirtioNetAssumption == PoolSize \in Nat \ {0}

VARIABLES
  side,         \* the queue: tx or rx
  pc,           \* what the driver is doing with it
  pages,        \* buffers that the page allocator has
  idx,          \* a descriptor: the one transmit() got, or receive() polled
  buf,          \* tx: the buffer of the transmit() in progress
  tx_inflight,  \* tx: the buffer kept for each descriptor
  rx_buffers,   \* rx: the pool, in the order of allocation
  long,         \* rx: the buffer that receive() polled has more than a header
  memory,       \* rx: the frame in each buffer, written by the device
  got           \* rx: the frame that the last receive() returned

\* What the client may expect; the code has no such state.
VARIABLES
  wire,         \* rx: the frames that came and were not received yet
  empty         \* rx: how many buffers came back without a frame

txvars == <<buf, tx_inflight>>
rxvars == <<rx_buffers, long, memory, got, wire, empty>>
vars == <<queue, side, pc, pages, idx, txvars, rxvars>>

-----------------------------------------------------------------------------
(* Plausible mistakes in the code, each the body of one definition.        *)

Reclaimed_Above(d) == [e \in Desc |-> IF e >= d THEN NoBuffer ELSE tx_inflight[e]]
Wanted_Within == idx + 1 < Len(rx_buffers) /\ long
-----------------------------------------------------------------------------

Init ==
  /\ QueueInit
  /\ side \in {"tx", "rx"}
  /\ pc = IF side = "tx" THEN "idle" ELSE "fill"
  /\ pages = Buffer
  /\ idx = 0 /\ buf = NoBuffer
  /\ tx_inflight = [d \in Desc |-> NoBuffer]
  /\ rx_buffers = <<>> /\ long = FALSE
  /\ \E f \in Frame : memory = [b \in Buffer |-> f] /\ got = f
  /\ wire = <<>> /\ empty = 0

-----------------------------------------------------------------------------
(* transmit().                                                             *)

TransmitCall ==
  /\ side = "tx" /\ pc = "idle"
  /\ pc' = "reclaim"
  /\ UNCHANGED <<queue, side, pages, idx, txvars, rxvars>>

\* tx_inflight after reclaim_tx_buffers() has dropped the buffer of d.
Reclaimed(d) == [tx_inflight EXCEPT ![d] = NoBuffer]

\* One turn of the loop of reclaim_tx_buffers(): the buffer is dropped.
ReclaimOne ==
  /\ pc = "reclaim"
  /\ PollUsed
  /\ tx_inflight' = Reclaimed(UsedEntry.id)
  /\ pages' = (pages \cup {tx_inflight[UsedEntry.id]}) \ {NoBuffer}
  /\ UNCHANGED <<side, pc, idx, buf, rxvars>>

\* No DMA buffer can be had, or the queue is full: the frame is dropped, with
\* its buffer if it had one.
TransmitError ==
  /\ pc = "reclaim" /\ ~UsedPending
  /\ pc' = "idle"
  /\ UNCHANGED <<queue, side, pages, idx, txvars, rxvars>>

\* The frame is offered to the device, which is notified.
TransmitOffer ==
  /\ pc = "reclaim" /\ ~UsedPending
  /\ \E b \in pages :
       /\ AddBuf(b)
       /\ pages' = pages \ {b}
       /\ buf' = b
  /\ idx' = free_head
  /\ pc' = "track"
  /\ UNCHANGED <<side, tx_inflight, rxvars>>

\* The buffer is kept; one that was there before is dropped.
TransmitTrack ==
  /\ pc = "track"
  /\ tx_inflight' = [tx_inflight EXCEPT ![idx] = buf]
  /\ pages' = (pages \cup {tx_inflight[idx]}) \ {NoBuffer}
  /\ buf' = NoBuffer /\ idx' = 0
  /\ pc' = "idle"
  /\ UNCHANGED <<queue, side, rxvars>>

-----------------------------------------------------------------------------
(* The receive pool and receive().                                         *)

\* One turn of fill_rx_pool().  The result of add_buf() is not looked at: a
\* pool larger than the queue has buffers that are never posted.
FillRxPool ==
  /\ pc = "fill"
  /\ \E b \in pages :
       /\ pages' = pages \ {b}
       /\ rx_buffers' = Append(rx_buffers, b)
       /\ IF num_free > 0 THEN AddBuf(b) ELSE UNCHANGED queue
  /\ pc' = IF Len(rx_buffers') = PoolSize THEN "idle" ELSE "fill"
  /\ UNCHANGED <<side, idx, txvars, long, memory, got, wire, empty>>

\* receive() polls; the descriptor goes to the head of the free list.
ReceivePoll ==
  /\ side = "rx" /\ pc = "idle"
  /\ PollUsed
  /\ idx' = UsedEntry.id /\ long' = UsedEntry.frame
  /\ pc' = "copy"
  /\ UNCHANGED <<side, pages, txvars, rx_buffers, memory, got, wire, empty>>

\* The descriptor has a buffer, and the buffer more than a header.
Wanted == idx < Len(rx_buffers) /\ long

\* The buffer that receive() posts again.
Posted == rx_buffers[idx + 1]

\* The frame is copied and the buffer posted again.  (add_buf() cannot fail:
\* a descriptor has just been freed.)
ReceiveCopy ==
  /\ pc = "copy" /\ Wanted
  /\ got' = memory[rx_buffers[idx + 1]]
  /\ wire' = Tail(wire)
  /\ AddBuf(Posted)
  /\ pc' = "idle"
  /\ UNCHANGED <<side, pages, idx, txvars, rx_buffers, long, memory, empty>>

\* There is no frame: receive() returns without posting the buffer again.
ReceiveNothing ==
  /\ pc = "copy" /\ ~Wanted
  /\ pc' = "idle"
  /\ UNCHANGED <<queue, side, pages, idx, txvars, rxvars>>

-----------------------------------------------------------------------------
(* The device, which starts when the driver is set up.                     *)

DeviceTake ==
  /\ pc # "fill"
  /\ Take
  /\ UNCHANGED <<side, pc, pages, idx, txvars, rxvars>>

\* A frame has been sent.
DeviceSent(d) ==
  /\ side = "tx"
  /\ Return(d, FALSE)
  /\ UNCHANGED <<side, pc, pages, idx, txvars, rxvars>>

\* A frame has come; it is written to the buffer of d.
DeviceFrame(d, f) ==
  /\ side = "rx"
  /\ Return(d, TRUE)
  /\ memory' = [memory EXCEPT ![addr[d]] = f]
  /\ wire' = Append(wire, f)
  /\ UNCHANGED <<side, pc, pages, idx, txvars, rx_buffers, long, got, empty>>

\* The buffer of d comes back with no more than a header in it.
DeviceEmpty(d) ==
  /\ side = "rx"
  /\ Return(d, FALSE)
  /\ empty' = empty + 1
  /\ UNCHANGED <<side, pc, pages, idx, txvars, rx_buffers, long, memory, got, wire>>

-----------------------------------------------------------------------------

Next ==
  \/ TransmitCall \/ ReclaimOne \/ TransmitError \/ TransmitOffer \/ TransmitTrack
  \/ FillRxPool \/ ReceivePoll \/ ReceiveCopy \/ ReceiveNothing
  \/ DeviceTake
  \/ \E d \in taken : DeviceSent(d) \/ DeviceEmpty(d) \/ \E f \in Frame : DeviceFrame(d, f)

Spec == Init /\ [][Next]_vars

-----------------------------------------------------------------------------
(* Properties.                                                             *)

\* Every variable has its type.
TypeOK ==
  /\ QueueTypeOK
  /\ side \in {"tx", "rx"}
  /\ pc \in {"idle", "reclaim", "track", "fill", "copy"}
  /\ pages \subseteq Buffer
  /\ idx \in Desc /\ buf \in Buffer \cup {NoBuffer}
  /\ tx_inflight \in [Desc -> Buffer \cup {NoBuffer}]
  /\ rx_buffers \in Seq(Buffer) /\ Len(rx_buffers) <= PoolSize
  /\ long \in BOOLEAN
  /\ memory \in [Buffer -> Frame] /\ got \in Frame
  /\ wire \in Seq(Frame) /\ empty \in Nat

\* As long as the device may read a frame, its buffer is kept in tx_inflight
\* under its descriptor, or is the one that transmit() is about to put there,
\* although the device may be done with it before that.
FrameOwned ==
  side = "tx" =>
    \A d \in Offered \cup taken :
      /\ addr[d] \notin pages
      /\ addr[d] = IF pc = "track" /\ d = idx THEN buf ELSE tx_inflight[d]

\* No transmit buffer is lost: each is free, in use by transmit(), or kept
\* for exactly one descriptor that is not on the free list.
BuffersAccounted ==
  side = "tx" =>
    \A b \in Buffer :
      LET holders == {d \in Desc \ FreeList : tx_inflight[d] = b}
      IN Cardinality(holders) + (IF b \in pages THEN 1 ELSE 0) + (IF b = buf THEN 1 ELSE 0) = 1

\* The buffer that the device writes for a descriptor is the one that
\* receive() will read for it.
BufferMatchesDescriptor ==
  side = "rx" =>
    \A d \in Offered \cup taken \cup Returned : addr[d] = rx_buffers[d + 1]

\* The driver's records of its buffers agree with the descriptors: whatever
\* the device may read or write is held, under the right number, and nothing
\* is held for ever.
BuffersConsistent == TypeOK /\ FrameOwned /\ BuffersAccounted /\ BufferMatchesDescriptor

\* As many receive buffers are posted as the pool and the queue allow, less
\* those that the device has returned without a frame: nothing else makes
\* reception slow down or stop.
PoolStaysPosted ==
  side = "rx" /\ pc = "idle" =>
    LET returned == Cardinality({k \in 0 .. Ahead(last_used_idx, used_idx) - 1 :
                                   ~used[(last_used_idx + k) % Size].frame})
    IN Size - num_free + empty - returned = IF PoolSize < Size THEN PoolSize ELSE Size

\* receive() returns the frames that came, each once, in the order in which
\* the device returned them, and none is overwritten before it is read.
FramesInOrder ==
  [][pc = "copy" /\ pc' = "idle" /\ long => got' = Head(wire) /\ wire' = Tail(wire)]_vars

-----------------------------------------------------------------------------
(* Why these hold: the inductive invariant.                                *)

\* Where the driver can be, and what transmit() holds there.
PcInv ==
  /\ side = "tx" => pc \in {"idle", "reclaim", "track"}
  /\ side = "rx" => pc \in {"fill", "idle", "copy"}
  /\ pc # "track" => buf = NoBuffer
  /\ pc = "track" => idx \in Busy /\ tx_inflight[idx] = NoBuffer

\* The buffer that transmit() keeps, or is about to keep, for descriptor d.
Kept(d) == IF pc = "track" /\ d = idx THEN buf ELSE tx_inflight[d]

\* Transmission: a descriptor that is not free has a buffer of its own, kept
\* under its number, a free one has none, and no buffer is lost.
TxInv ==
  side = "tx" =>
    /\ \A d \in Busy : addr[d] = Kept(d) /\ addr[d] \in Buffer /\ addr[d] \notin pages
    /\ \A d, e \in Busy : addr[d] = addr[e] => d = e
    /\ \A d \in Desc \ Busy : tx_inflight[d] = NoBuffer
    /\ \A b \in Buffer \ pages : \E d \in Busy : addr[d] = b

\* Reception: the buffers of the pool are different, and descriptor d, unless
\* free, has buffer d + 1.  The descriptor that receive() has polled is the
\* first of the free list; while the pool is filled, the list is as in new().
PoolInv ==
  side = "rx" =>
    /\ \A i, j \in 1 .. Len(rx_buffers) : rx_buffers[i] = rx_buffers[j] => i = j
    /\ \A i \in 1 .. Len(rx_buffers) : rx_buffers[i] \notin pages
    /\ \A d \in Busy : d + 1 <= Len(rx_buffers) /\ addr[d] = rx_buffers[d + 1]
    /\ pc = "fill" <=> Len(rx_buffers) < PoolSize
    /\ pc = "copy" => num_free > 0 /\ idx = free_head /\ idx + 1 <= Len(rx_buffers)
    /\ pc = "fill" => /\ taken = {} /\ nRet = 0
                      /\ num_free = IF Len(rx_buffers) < Size THEN Size - Len(rx_buffers) ELSE 0
                      /\ \A k \in 0 .. num_free - 1 : FreeChain[k] = Len(rx_buffers) + k

\* One when receive() has polled a frame that it has not copied yet.
Front == IF pc = "copy" /\ long THEN 1 ELSE 0

\* The returned buffers without a frame, and how many buffers are posted.
EmptyRet == {k \in 0 .. nRet - 1 : ~RetAt(k).frame}
PostedInv ==
  side = "rx" =>
    Size - num_free + empty - Cardinality(EmptyRet)
      = (IF Len(rx_buffers) < Size THEN Len(rx_buffers) ELSE Size) - Front

\* p[k] frames of the wire come before the k-th entry of the used ring, and
\* the frame of the entry, if it has one, is still in the entry's buffer.
WirePos(p) ==
  /\ p[0] = Front
  /\ p[nRet] = Len(wire)
  /\ \A j, k \in 0 .. nRet : j <= k => p[j] <= p[k]
  /\ \A k \in 0 .. nRet - 1 : p[k + 1] = p[k] + IF RetAt(k).frame THEN 1 ELSE 0
  /\ \A k \in 0 .. nRet - 1 :
       RetAt(k).frame => wire[p[k] + 1] = memory[rx_buffers[RetAt(k).id + 1]]

\* The frames that came are in the buffers in their order.
WireInv ==
  side = "rx" =>
    /\ \E p \in [0 .. nRet -> 0 .. Len(wire)] : WirePos(p)
    /\ pc = "copy" /\ long => wire[1] = memory[rx_buffers[idx + 1]]

\* The inductive invariant.
IInv == TypeOK /\ QueueInv /\ PcInv /\ TxInv /\ PoolInv /\ PostedInv /\ WireInv
=============================================================================
