-------------------------------- MODULE VfsIo --------------------------------
(***************************************************************************)
(* The calls of one open file, to the byte: vfs/sqlite_vfs.rs behind       *)
(* sqlite/vfs_bridge.rs.  SQLite keeps the handle; the bridge copies it    *)
(* before a call and copies it back after.  Reads and writes move whole    *)
(* blocks, in commands of at most MaxBlocksPerIo of them, and any command  *)
(* may fail.  HeavenVfs has the durable side (tables, flushes, crashes).   *)
(*                                                                         *)
(* Every other file is one that takes blocks and gives them back (`other'):*)
(* it owns every block that this file gives up, as soon as it likes.       *)
(* amount = 0 is left out: SQLite never asks for it, and write() of no     *)
(* bytes at offset 0 would underflow.  The SQLITE_IOERR_* codes are one.   *)
(***************************************************************************)
EXTENDS Integers, Sequences, FiniteSets, FiniteSetsExt

CONSTANTS
  BlockSize,       \* bytes in a block
  DataBlocks,      \* data blocks of the device
  InitialBlocks,   \* INITIAL_ALLOC_BLOCKS
  MaxBlocksPerIo,  \* MAX_BLOCKS_PER_IO: blocks in one command
  MaxBytes,        \* bound: end of the furthest read or write
  MaxIo            \* bound: calls in a behaviour that may change something

Block  == 0 .. DataBlocks - 1
Byte   == 0 .. 4
Offset == 0 .. MaxBytes - 1
Amount == 1 .. MaxBytes

ASSUME VfsIoAssumption ==
  /\ BlockSize \in Nat \ {0} /\ DataBlocks \in Nat /\ MaxBlocksPerIo \in Nat \ {0}
  /\ InitialBlocks \in 1 .. DataBlocks
  /\ MaxBytes \in Nat \ {0} /\ MaxIo \in Nat

\* Data whose neighbouring bytes differ, and the byte that other files write.
Data(n) == {[j \in 1 .. n |-> 1 + ((v + j) % 3)] : v \in {0, 1}}
OtherByte == 4

VARIABLES
  disk,     \* the data blocks
  used,     \* BlockAllocator: the blocks in use
  file,     \* the entry of the file in the table, or None
  handle,   \* HeavenSqliteFile, or None
  other,    \* the blocks of the other files
  call,     \* the call that SQLite makes, or NoCall
  reply,    \* what it returned, or NoReply
  ios       \* number of those calls so far

ioVars == <<disk, used, file, handle, other, call, reply, ios>>

\* A call and its arguments: the offset or the new size, the number of bytes
\* and what they are.
CallOf(op, at, data, count) == [op |-> op, at |-> at, count |-> count, data |-> data]
NoCall == CallOf("none", 0, <<>>, 0)

Request ==
  {CallOf(op, 0, <<>>, 0) : op \in {"open", "close", "sync", "delete", "size"}}
    \cup {CallOf("truncate", n, <<>>, 0) : n \in Offset}
    \cup {CallOf("read", o, <<>>, n) : o \in Offset, n \in Amount}
    \cup {CallOf("write", o, d, Len(d)) : o \in Offset, d \in UNION {Data(n) : n \in Amount}}

NoReply == [rc |-> "none", buf |-> <<>>]
None == [start |-> 0, blocks |-> 0, length |-> 0]

Run(s, n) == s .. s + n - 1
Extent(h) == Run(h.start, h.blocks)

\* The file as SQLite knows it: through its handle, or by its name.
Current == IF handle # None THEN handle ELSE file

\* The bytes of the file: block by block, up to its length.
At(b, p) == disk[b][p + 1]
FileBytes ==
  [i \in 1 .. Current.length |->
     At(Current.start + ((i - 1) \div BlockSize), (i - 1) % BlockSize)]

-----------------------------------------------------------------------------
(* Plausible mistakes in the code, each the body of one definition.        *)

WrittenBack_IfOk(h, rc) == IF rc = "ok" THEN h ELSE handle
NeedsNoRead_StartOnly(o, n) == o % BlockSize = 0
-----------------------------------------------------------------------------

IoInit ==
  /\ disk = [b \in Block |-> [i \in 1 .. BlockSize |-> 0]]
  /\ used = {}
  /\ file = None /\ handle = None
  /\ other = {}
  /\ call = NoCall /\ reply = NoReply
  /\ ios = 0

\* A read or write stays within the bound.
InBounds(o, n) == o + n <= MaxBytes

\* SQLite calls a method of an open file, or opens or deletes one that is not.
MakeCall(c) ==
  /\ call = NoCall
  /\ ios < MaxIo \/ c.op \in {"read", "size"}
  /\ c.op \in {"open", "delete"} <=> handle = None
  /\ InBounds(c.at, c.count)
  /\ call' = c
  /\ UNCHANGED <<disk, used, file, handle, other, reply, ios>>

Reply(rc, buf) == reply' = [rc |-> rc, buf |-> buf]
Serves(op) == call.op = op /\ reply = NoReply /\ UNCHANGED call
Calls(op) == Serves(op) /\ ios' = ios + 1   \* a call that may change something
Asks(op)  == Serves(op) /\ ios' = ios       \* one that may not

\* SQLite takes the answer before it calls again.
TakeReply ==
  /\ reply # NoReply
  /\ reply' = NoReply /\ call' = NoCall
  /\ UNCHANGED <<disk, used, file, handle, other, ios>>

\* alloc(n): the lowest run of n free blocks.
Fits(s, n) == s + n <= DataBlocks /\ Run(s, n) \cap used = {}
FirstFit(n) == {s \in Block : Fits(s, n) /\ \A r \in Block : r < s => ~Fits(r, n)}

-----------------------------------------------------------------------------
(* chunked_read() and chunked_write(): a transfer in commands of at most   *)
(* MaxBlocksPerIo blocks, each through a buffer of its own when there are  *)
(* several.                                                                *)

Commands(n) == (n + MaxBlocksPerIo - 1) \div MaxBlocksPerIo

\* How far the first c commands get: lba, and byte_offset in blocks.
CommandStart(c) == c * MaxBlocksPerIo

\* Block k of a transfer: the command that moves it, and its place.
Command(k) == k \div MaxBlocksPerIo
Place(k) == CommandStart(Command(k)) + (k % MaxBlocksPerIo)

\* The buffer after n blocks of the device d are read, from lba on.
ReadIn(d, lba, n) ==
  [i \in 1 .. n * BlockSize |->
     d[lba + Place((i - 1) \div BlockSize)][((i - 1) % BlockSize) + 1]]

\* The device after `done' of the commands that write n blocks from lba on.
BlockOf(buf, k) == SubSeq(buf, k * BlockSize + 1, (k + 1) * BlockSize)
WrittenOut(d, lba, n, buf, done) ==
  [b \in Block |->
     IF b \in Run(lba, n) /\ Command(b - lba) < done
     THEN BlockOf(buf, Place(b - lba)) ELSE d[b]]

-----------------------------------------------------------------------------
(* heaven_open() and heaven_close().                                       *)

\* An existing file; the handle is a copy of its entry.
Open ==
  /\ Calls("open") /\ handle = None /\ file # None
  /\ handle' = file
  /\ Reply("ok", <<>>)
  /\ UNCHANGED <<disk, used, file, other>>

\* SQLITE_OPEN_CREATE: the first run of the initial size.
Create ==
  /\ Calls("open") /\ handle = None /\ file = None
  /\ \E s \in FirstFit(InitialBlocks) :
       /\ used' = used \cup Run(s, InitialBlocks)
       /\ file' = [start |-> s, blocks |-> InitialBlocks, length |-> 0]
       /\ handle' = file'
  /\ Reply("ok", <<>>)
  /\ UNCHANGED <<disk, other>>

\* No such file and no permission to create it, or no room.
CannotOpen ==
  /\ Asks("open") /\ handle = None /\ file = None
  /\ \/ Reply("cantopen", <<>>)
     \/ FirstFit(InitialBlocks) = {} /\ Reply("full", <<>>)
  /\ UNCHANGED <<disk, used, file, handle, other>>

\* The entry takes the length of the handle: in close(), and in sync().
Saved(h) == [file EXCEPT !.length = h.length]

Close ==
  /\ Calls("close") /\ handle # None
  /\ file' = Saved(handle) /\ handle' = None
  /\ Reply("ok", <<>>)
  /\ UNCHANGED <<disk, used, other>>

Sync ==
  /\ Calls("sync") /\ handle # None
  /\ file' = Saved(handle)
  /\ \E rc \in {"ok", "ioerr"} : Reply(rc, <<>>)
  /\ UNCHANGED <<disk, used, handle, other>>

Delete ==
  /\ Calls("delete") /\ handle = None
  /\ file' = None /\ used' = used \ Extent(file)
  /\ Reply("ok", <<>>)
  /\ UNCHANGED <<disk, handle, other>>

-----------------------------------------------------------------------------
(* heaven_read().                                                          *)

Zeros(n) == [j \in 1 .. n |-> 0]

\* Wholly past the end of the file, or past the blocks it has.
ToRead(o, n) == Min({n, handle.length - o})
FirstBlock(o) == o \div BlockSize
LastBlock(o, n) == (o + n - 1) \div BlockSize
Spanned(o, n) == LastBlock(o, n) - FirstBlock(o) + 1
PastEnd(o, n) ==
  \/ o >= handle.length
  \/ FirstBlock(o) + Spanned(o, ToRead(o, n)) > handle.blocks

ReadPastEnd(o, n) ==
  /\ Asks("read") /\ handle # None /\ PastEnd(o, n)
  /\ Reply("short_read", Zeros(n))
  /\ UNCHANGED <<disk, used, file, handle, other>>

\* The blocks that hold the bytes, the bytes out of them, zeros for the rest.
Read(o, n) ==
  /\ Asks("read") /\ handle # None /\ ~PastEnd(o, n)
  /\ LET got == ToRead(o, n)
         dma == ReadIn(disk, handle.start + FirstBlock(o), Spanned(o, got))
     IN  Reply(IF got < n THEN "short_read" ELSE "ok",
               SubSeq(dma, (o % BlockSize) + 1, (o % BlockSize) + got) \o Zeros(n - got))
  /\ UNCHANGED <<disk, used, file, handle, other>>

\* No buffer, or a command that fails.
ReadFails ==
  /\ Asks("read") /\ handle # None
  /\ Reply("ioerr", <<>>)
  /\ UNCHANGED <<disk, used, file, handle, other>>

\* heaven_file_size(): the length in the handle.
FileSize ==
  /\ Asks("size") /\ handle # None
  /\ Reply("size", <<handle.length>>)
  /\ UNCHANGED <<disk, used, file, handle, other>>

-----------------------------------------------------------------------------
(* heaven_write().                                                         *)

\* What the bridge copies back into SQLite's handle after a call.
WrittenBack(h, rc) == h

\* The blocks after the old ones are copied to a run from s on, and after as
\* many of them as were copied when a command failed.
Moved(s, copied) ==
  [b \in Block |->
     IF b \in Run(s, copied) THEN disk[handle.start + (b - s)] ELSE disk[b]]

\* A write needs no read of what it overwrites when it covers whole blocks.
NeedsNoRead(o, n) == o % BlockSize = 0 /\ n % BlockSize = 0

\* The buffer with the data in it: over zeros, or over what the blocks of d
\* hold.
Overlaid(before, skip, data) ==
  [i \in DOMAIN before |->
     IF i - skip \in DOMAIN data THEN data[i - skip] ELSE before[i]]

Buffer(d, lba, o, data) ==
  LET n == Spanned(o, Len(data))
  IN  IF NeedsNoRead(o, Len(data))
      THEN Overlaid(Zeros(n * BlockSize), 0, data)
      ELSE Overlaid(ReadIn(d, lba, n), o % BlockSize, data)

Longer(h, end) == [h EXCEPT !.length = Max({h.length, end})]

\* The rest of write(), on the handle h and the blocks d; `done' of the write
\* commands succeed.
Finish(h, d, o, data) ==
  LET lba == h.start + FirstBlock(o)
      n == Spanned(o, Len(data))
  IN  \E done \in 0 .. Commands(n) :
        /\ disk' = WrittenOut(d, lba, n, Buffer(d, lba, o, data), done)
        /\ IF done = Commands(n)
           THEN /\ handle' = WrittenBack(Longer(h, o + Len(data)), "ok")
                /\ Reply("ok", <<>>)
           ELSE /\ handle' = WrittenBack(h, "ioerr")
                /\ Reply("ioerr", <<>>)

Needed(o, data) == FirstBlock(o) + Spanned(o, Len(data))

\* The file has the blocks.
Write(o, data) ==
  /\ Calls("write") /\ handle # None
  /\ Needed(o, data) <= handle.blocks
  /\ Finish(handle, disk, o, data)
  /\ UNCHANGED <<used, file, other>>

\* It does not, and moves to a longer run: copy, then entry and handle, then
\* the old run is free.  Only the old blocks are copied: the others keep what
\* the device had there.
GrowAndWrite(o, data) ==
  /\ Calls("write") /\ handle # None
  /\ Needed(o, data) > handle.blocks
  /\ \E s \in FirstFit(Needed(o, data)) :
       LET h == [handle EXCEPT !.start = s, !.blocks = Needed(o, data)]
       IN  /\ used' = (used \cup Extent(h)) \ Extent(handle)
           /\ file' = [file EXCEPT !.start = s, !.blocks = h.blocks]
           /\ Finish(h, Moved(s, handle.blocks), o, data)
  /\ UNCHANGED other

\* The copy fails: the new run is given back.
GrowFails(o, data) ==
  /\ Calls("write") /\ handle # None
  /\ Needed(o, data) > handle.blocks
  /\ \E s \in FirstFit(Needed(o, data)), copied \in 0 .. handle.blocks :
       /\ disk' = Moved(s, copied)
       /\ Reply("ioerr", <<>>)
  /\ UNCHANGED <<used, file, handle, other>>

NoRoom(o, data) ==
  /\ Asks("write") /\ handle # None
  /\ Needed(o, data) > handle.blocks
  /\ FirstFit(Needed(o, data)) = {}
  /\ Reply("full", <<>>)
  /\ UNCHANGED <<disk, used, file, handle, other>>

-----------------------------------------------------------------------------
(* heaven_truncate().                                                      *)

\* One block stays, so that the file has a start.
Kept(n) == IF n = 0 THEN 1 ELSE (n + BlockSize - 1) \div BlockSize

Truncate(n) ==
  /\ Calls("truncate") /\ handle # None
  /\ n <= handle.length
  /\ LET h == [handle EXCEPT !.length = n, !.blocks = Min({@, Kept(n)})]
     IN  /\ used' = used \ (Extent(handle) \ Extent(h))
         /\ handle' = WrittenBack(h, "ok")
         /\ file' = IF Kept(n) < handle.blocks
                    THEN [file EXCEPT !.blocks = h.blocks, !.length = n] ELSE file
  /\ Reply("ok", <<>>)
  /\ UNCHANGED <<disk, other>>

TruncateLonger(n) ==
  /\ Asks("truncate") /\ handle # None
  /\ n > handle.length
  /\ Reply("ok", <<>>)
  /\ UNCHANGED <<disk, used, file, handle, other>>

-----------------------------------------------------------------------------

\* Another file takes a free block and writes it, or gives all of its own up.
OtherTakes ==
  /\ call = NoCall /\ ios < MaxIo /\ ios' = ios + 1
  /\ \E b \in FirstFit(1) :
       /\ used' = used \cup {b} /\ other' = other \cup {b}
       /\ disk' = [disk EXCEPT ![b] = [i \in 1 .. BlockSize |-> OtherByte]]
  /\ UNCHANGED <<file, handle, call, reply>>

OtherLeaves ==
  /\ call = NoCall /\ ios < MaxIo /\ ios' = ios + 1 /\ other # {}
  /\ used' = used \ other /\ other' = {}
  /\ UNCHANGED <<disk, file, handle, call, reply>>

IoNext ==
  \/ \E c \in Request : MakeCall(c)
  \/ TakeReply
  \/ Open \/ Create \/ CannotOpen \/ Close \/ Sync \/ Delete
  \/ ReadPastEnd(call.at, call.count) \/ Read(call.at, call.count) \/ ReadFails
  \/ FileSize
  \/ Write(call.at, call.data) \/ GrowAndWrite(call.at, call.data)
  \/ GrowFails(call.at, call.data) \/ NoRoom(call.at, call.data)
  \/ Truncate(call.at) \/ TruncateLonger(call.at)
  \/ OtherTakes \/ OtherLeaves

IoSpec == IoInit /\ [][IoNext]_ioVars

-----------------------------------------------------------------------------

\* Every variable has a value of its type.
IoTypeOK ==
  /\ disk \in [Block -> [1 .. BlockSize -> Byte]]
  /\ used \subseteq Block /\ other \subseteq Block
  /\ file \in [start : Block, blocks : 0 .. DataBlocks, length : 0 .. MaxBytes]
  /\ handle \in [start : Block, blocks : 0 .. DataBlocks, length : 0 .. MaxBytes]
  /\ ios \in 0 .. MaxIo

\* No call of this file writes a block of another: write() goes through the
\* extent of the handle, which the bridge must keep in step with the table
\* even when the write fails after the file has moved.
OthersUntouched ==
  \A b \in other : \A i \in 1 .. BlockSize : disk[b][i] = OtherByte

\* The calls implement a file of bytes: a read returns what was last written
\* at the offset it asks for, with zeros past the end; a write that returns ok,
\* whether it reads first, moves the file or is split into several commands,
\* puts its data where it was asked to and changes no other byte; closing and
\* reopening the file changes nothing.
Abstract == INSTANCE ByteFile WITH bytes <- FileBytes, answer <- reply
IsByteFile == Abstract!Spec

\* Handle and blocks have their types, and the file keeps to its own blocks.
ExtentsConsistent == IoTypeOK /\ OthersUntouched

-----------------------------------------------------------------------------
(* Why these hold: the inductive invariant.                                *)

\* A file that exists has a block, and the handle has the extent of the entry.
InStep ==
  /\ \A h \in {file, handle} : h # None => h.blocks >= 1
  /\ handle # None => handle.start = file.start /\ handle.blocks = file.blocks

\* The extent lies on the device and is long enough for the bytes.
LongEnough ==
  /\ Current.start + Current.blocks <= DataBlocks
  /\ Current.length <= Current.blocks * BlockSize

\* The blocks in use are the file's or another's, never both.
BlocksOwned ==
  /\ Extent(Current) \subseteq used /\ other \subseteq used
  /\ Extent(Current) \cap other = {}

FileInv == ExtentsConsistent /\ InStep /\ LongEnough /\ BlocksOwned

\* A call is one of the calls, and within the bounds until it is answered.
CallAllowed ==
  /\ call \in Request \cup {NoCall}
  /\ call.op = "write" => InBounds(call.at, Len(call.data))
  /\ call # NoCall /\ reply = NoReply => ios < MaxIo \/ call.op \in {"read", "size"}

IoInv == FileInv /\ CallAllowed
=============================================================================
