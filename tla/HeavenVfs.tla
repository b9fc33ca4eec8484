----------------------------- MODULE HeavenVfs ------------------------------
(***************************************************************************)
(* The SQLite VFS on its NVMe device, vfs/sqlite_vfs.rs with               *)
(* storage/file_table.rs, storage/block_alloc.rs (its loop is              *)
(* BlockAllocator) and main.rs's init_storage(): files are runs of         *)
(* contiguous blocks, the file table and the bitmap are cached in RAM and  *)
(* written by sync(), and a file grows by moving to a longer run.          *)
(*                                                                         *)
(* The device has a volatile write cache.  Reads see `cached'.  The cache  *)
(* writes any block to the medium at any time and in any order, so after a *)
(* power loss a block has one of the values it had since the last flush:   *)
(* `medium' is the set of these for each block, and a flush leaves one.    *)
(*                                                                         *)
(* Files are read and written by whole blocks here, and lengths are in     *)
(* blocks.  The kernel is one thread and every call holds its locks to the *)
(* end, so calls do not interleave with each other; their device steps     *)
(* interleave with the device and with power loss, and each may fail.      *)
(***************************************************************************)
EXTENDS Integers, FiniteSets

CONSTANTS
  File,            \* file names
  NoFile,          \* the name in a table entry that is not in use
  DataBlockCount,  \* data blocks of the device
  MaxEntries,      \* MAX_ENTRIES of the file table
  InitialBlocks,   \* INITIAL_ALLOC_BLOCKS
  MaxLength,       \* bound: longest file, in blocks
  MaxCalls,        \* bound: VFS calls in a behaviour
  MaxCrashes       \* bound: power losses in a behaviour

Block == 0 .. DataBlockCount - 1
Slot  == 0 .. MaxEntries - 1
Index == 0 .. MaxLength - 1      \* a block of a file

ASSUME HeavenVfsAssumption ==
  /\ DataBlockCount \in Nat /\ MaxEntries \in Nat /\ MaxLength \in Nat
  /\ InitialBlocks \in Nat \ {0}
  /\ MaxCalls \in Nat /\ MaxCrashes \in Nat
  /\ NoFile \notin File

VARIABLES
  pc,         \* what the kernel is doing
  op,         \* the arguments and locals of the write() or sync() in progress
  bitmap,     \* BlockAllocator: the blocks in use, and its dirty flag
  bm_dirty,
  table,      \* FileTable: its entries, and its dirty flag
  ft_dirty,
  handle,     \* the HeavenFile of each open file
  cached,     \* the device, as the kernel reads it
  medium,     \* the values that a power loss may leave of each block
  calls,      \* number of VFS calls so far; also the value that the last one writes
  crashes     \* number of power losses so far

\* What the client may expect; the code has no such state.
VARIABLES
  content,    \* the last value written to each block of each file, 0 if unknown
  committed,  \* the value of each block at its file's last sync(), 0 once changed
  settled,    \* the files whose extents are in the durable table
  clean       \* the last mount found bitmap and table in agreement

kernel == <<bitmap, bm_dirty, table, ft_dirty, handle>>
device == <<cached, medium>>
ghost  == <<content, committed, settled, clean>>
vars   == <<pc, op, kernel, device, calls, crashes, ghost>>

-----------------------------------------------------------------------------
(* Disk layout, entries and handles.                                       *)

Entry == [name : File \cup {NoFile}, start : Nat, blocks : Nat, length : Nat]
Empty == [name |-> NoFile, start |-> 0, blocks |-> 0, length |-> 0]
EmptyTable == [s \in Slot |-> Empty]

\* A device: the superblock, the bitmap, the file table and the data blocks.
Device == [sb : {"blank", "valid"}, bm : SUBSET Block,
           ft : [Slot -> Entry], data : [Block -> Nat]]

\* The medium when nothing but image can be on it, and after a write of one
\* of its blocks.
Only(image) == [sb |-> {image.sb}, bm |-> {image.bm}, ft |-> {image.ft},
                data |-> [b \in Block |-> {image.data[b]}]]
OrElse(image) == [sb |-> medium.sb \cup {image.sb}, bm |-> medium.bm \cup {image.bm},
                  ft |-> medium.ft \cup {image.ft},
                  data |-> [b \in Block |-> medium.data[b] \cup {image.data[b]}]]

\* A write command puts the device in this state.
DeviceWrite(image) == cached' = image /\ medium' = OrElse(image)

Closed == [slot |-> -1, start |-> 0, blocks |-> 0, length |-> 0]
IsOpen(f) == handle[f] # Closed

NoOp == [file |-> NoFile, index |-> 0, new |-> 0, blk |-> 0]

Run(s, n) == s .. s + n - 1
Extent(e) == Run(e.start, e.blocks)
Extents(t) == UNION {Extent(t[s]) : s \in Slot}

-----------------------------------------------------------------------------
(* Plausible mistakes in the code, each the body of one definition.        *)

OldRun_Grown(h, n) == Run(h.start, n)
CopyFrom_New(h) == op.new + op.blk
UndoGrow_Not == bitmap
Flushed_Not == medium
-----------------------------------------------------------------------------

\* lookup(): the slots in use under this name.
Lookup(f) == {s \in Slot : table[s].name = f}

\* create(): the first slot not in use.
FreeSlot == {s \in Slot : /\ table[s].name = NoFile
                          /\ \A r \in Slot : r < s => table[r].name # NoFile}

\* alloc(n): the lowest run of n free blocks (BlockAllocator's AbstractSpec).
FreeRun(s, n) == s + n <= DataBlockCount /\ Run(s, n) \cap bitmap = {}
FirstFit(n) == {s \in Block : FreeRun(s, n) /\ \A r \in Block : r < s => ~FreeRun(r, n)}

\* Bitmap and table agree: no two files share a block, none uses a free one.
Disjoint(t) == \A r, s \in Slot : r # s => Extent(t[r]) \cap Extent(t[s]) = {}
Agree(bm, t) == Disjoint(t) /\ Extents(t) \subseteq bm

-----------------------------------------------------------------------------

Init ==
  /\ pc = "off" /\ op = NoOp
  /\ bitmap = {} /\ bm_dirty = FALSE
  /\ table = EmptyTable /\ ft_dirty = FALSE
  /\ handle = [f \in File |-> Closed]
  /\ cached = [sb |-> "blank", bm |-> {}, ft |-> EmptyTable,
               data |-> [b \in Block |-> 0]]
  /\ medium = Only(cached)
  /\ calls = 0 /\ crashes = 0
  /\ content = [f \in File |-> [k \in Index |-> 0]] /\ committed = content
  /\ settled = File /\ clean = TRUE

-----------------------------------------------------------------------------
(* The device.                                                             *)

\* What a flush command leaves on the medium.
Barrier == Only(cached)

\* Power is lost; RAM and the cache are gone.  Nothing more is expected of
\* the files whose extents were not on the medium.
Crash ==
  /\ pc # "off" /\ crashes < MaxCrashes
  /\ crashes' = crashes + 1
  /\ pc' = "off" /\ op' = NoOp
  /\ \E sb \in medium.sb, bm \in medium.bm, ft \in medium.ft :
       \E data \in {d \in [Block -> 0 .. MaxCalls] : \A b \in Block : d[b] \in medium.data[b]} :
         cached' = [sb |-> sb, bm |-> bm, ft |-> ft, data |-> data]
  /\ medium' = Only(cached')
  /\ bitmap' = {} /\ bm_dirty' = FALSE
  /\ table' = EmptyTable /\ ft_dirty' = FALSE
  /\ handle' = [f \in File |-> Closed]
  /\ committed' = [f \in File |-> IF f \in settled THEN committed[f]
                                                   ELSE [k \in Index |-> 0]]
  /\ content' = committed' /\ settled' = File
  /\ UNCHANGED <<calls, clean>>

-----------------------------------------------------------------------------
(* init_storage(): load the file system, or format the device.             *)

\* What is expected of the files when nothing is.
Unknown == [f \in File |-> [k \in Index |-> 0]]

\* When bitmap and table disagree, nothing more is expected of any file.  From
\* here on the VFS serves calls, as sqlite::init() means it with its 'static
\* reference; init_storage() itself drops the VFS at its end, and at this commit
\* nothing calls sqlite::init().
Mount ==
  /\ pc = "off" /\ cached.sb = "valid"
  /\ pc' = "idle"
  /\ bitmap' = cached.bm /\ table' = cached.ft
  /\ clean' = Agree(cached.bm, cached.ft)
  /\ content' = IF clean' THEN content ELSE Unknown
  /\ committed' = IF clean' THEN committed ELSE Unknown
  /\ UNCHANGED <<op, bm_dirty, ft_dirty, handle, device, calls, crashes, settled>>

\* Every error of load() is taken for a blank disk: no superblock, but also a
\* read that fails.  What the disk held is given up.
LoadError ==
  /\ pc = "off"
  /\ pc' = "format_sb"
  /\ content' = Unknown /\ committed' = Unknown
  /\ UNCHANGED <<op, kernel, device, calls, crashes, settled, clean>>

\* format() writes the superblock first, then the bitmap and the table.
FormatWrite(here, image, next) ==
  /\ pc = here
  /\ DeviceWrite(image)
  /\ pc' = next
  /\ UNCHANGED <<op, kernel, calls, crashes, ghost>>

FormatSuperblock == FormatWrite("format_sb", [cached EXCEPT !.sb = "valid"], "format_bm")
FormatBitmap == FormatWrite("format_bm", [cached EXCEPT !.bm = {}], "format_ft")
FormatTable == FormatWrite("format_ft", [cached EXCEPT !.ft = EmptyTable], "format_flush")

FormatFlush ==
  /\ pc = "format_flush"
  /\ medium' = Barrier
  /\ pc' = "idle" /\ clean' = TRUE
  /\ UNCHANGED <<op, kernel, cached, calls, crashes, content, committed, settled>>

\* A call from SQLite begins.
Call == pc = "idle" /\ calls < MaxCalls /\ calls' = calls + 1

-----------------------------------------------------------------------------
(* open() and close().  SQLite has a file open once and deletes it closed. *)

\* The file exists: the handle is a copy of its entry.
OpenExisting(f) ==
  /\ Call /\ ~IsOpen(f)
  /\ \E s \in Lookup(f) :
       handle' = [handle EXCEPT ![f] =
         [slot |-> s, start |-> table[s].start,
          blocks |-> table[s].blocks, length |-> table[s].length]]
  /\ UNCHANGED <<pc, op, bitmap, bm_dirty, table, ft_dirty, device, crashes, ghost>>

\* The file is created in the first free slot.
OpenCreate(f) ==
  /\ Call /\ ~IsOpen(f) /\ Lookup(f) = {}
  /\ \E b \in FirstFit(InitialBlocks), s \in FreeSlot :
       /\ bitmap' = bitmap \cup Run(b, InitialBlocks)
       /\ table' = [table EXCEPT ![s] =
            [name |-> f, start |-> b, blocks |-> InitialBlocks, length |-> 0]]
       /\ handle' = [handle EXCEPT ![f] =
            [slot |-> s, start |-> b, blocks |-> InitialBlocks, length |-> 0]]
  /\ bm_dirty' = TRUE /\ ft_dirty' = TRUE
  /\ UNCHANGED <<pc, op, device, crashes, ghost>>

\* There is no free slot: open() fails after it has allocated the blocks.
OpenTableFull(f) ==
  /\ Call /\ ~IsOpen(f) /\ Lookup(f) = {} /\ FreeSlot = {}
  /\ \E b \in FirstFit(InitialBlocks) : bitmap' = bitmap \cup Run(b, InitialBlocks)
  /\ bm_dirty' = TRUE
  /\ UNCHANGED <<pc, op, table, ft_dirty, handle, device, crashes, ghost>>

\* close() saves the length of the handle in the entry.
Close(f) ==
  /\ Call /\ IsOpen(f)
  /\ table' = [table EXCEPT ![handle[f].slot].length = handle[f].length]
  /\ ft_dirty' = TRUE
  /\ handle' = [handle EXCEPT ![f] = Closed]
  /\ UNCHANGED <<pc, op, bitmap, bm_dirty, device, crashes, ghost>>

-----------------------------------------------------------------------------
(* write() of one block.                                                   *)

\* The block is within the file's run.
WriteCall(f, k) ==
  /\ Call /\ IsOpen(f)
  /\ k + 1 <= handle[f].blocks
  /\ op' = [NoOp EXCEPT !.file = f, !.index = k]
  /\ pc' = "write"
  /\ UNCHANGED <<kernel, device, crashes, ghost>>

\* The file has to grow: a new run is allocated, or write() fails.
GrowCall(f, k) ==
  /\ Call /\ IsOpen(f)
  /\ k + 1 > handle[f].blocks
  /\ \E b \in FirstFit(k + 1) :
       /\ bitmap' = bitmap \cup Run(b, k + 1)
       /\ bm_dirty' = TRUE
       /\ op' = [file |-> f, index |-> k, new |-> b, blk |-> 0]
       /\ pc' = "grow"
  /\ UNCHANGED <<table, ft_dirty, handle, device, crashes, ghost>>

\* Where the copy loop reads.
CopyFrom(h) == h.start + op.blk

\* One block of the old run is copied to the new one.
CopyBlock ==
  /\ pc = "grow" /\ op.blk < handle[op.file].blocks
  /\ DeviceWrite([cached EXCEPT !.data[op.new + op.blk] =
                                 cached.data[CopyFrom(handle[op.file])]])
  /\ op' = [op EXCEPT !.blk = op.blk + 1]
  /\ UNCHANGED <<pc, kernel, calls, crashes, ghost>>

\* The bitmap after a failed growth.
UndoGrow == bitmap \ Run(op.new, op.index + 1)

\* A read, a write, the flush or the DMA buffer fails: the new run is freed.
GrowFail ==
  /\ pc = "grow"
  /\ bitmap' = UndoGrow /\ bm_dirty' = TRUE
  /\ pc' = "idle" /\ op' = NoOp
  /\ UNCHANGED <<table, ft_dirty, handle, device, calls, crashes, ghost>>

\* The run that a growth to n blocks gives back.
OldRun(h, n) == Run(h.start, h.blocks)

\* The copies are flushed, the handle and the entry point at the new run and
\* the old one is freed.  All but the flush is in RAM: one step.
GrowCommit ==
  /\ pc = "grow" /\ op.blk = handle[op.file].blocks
  /\ LET h == handle[op.file]  n == op.index + 1
     IN /\ handle' = [handle EXCEPT ![op.file] = [@ EXCEPT !.start = op.new, !.blocks = n]]
        /\ table' = [table EXCEPT ![h.slot] = [@ EXCEPT !.start = op.new, !.blocks = n]]
        /\ bitmap' = bitmap \ OldRun(h, n)
  /\ ft_dirty' = TRUE /\ bm_dirty' = TRUE
  /\ medium' = Barrier
  /\ settled' = settled \ {op.file}
  /\ pc' = "write"
  /\ UNCHANGED <<op, cached, calls, crashes, content, committed, clean>>

\* The block is written and the length of the handle follows.
WriteBlock ==
  /\ pc = "write"
  /\ LET f == op.file  h == handle[f]  v == calls
     IN /\ DeviceWrite([cached EXCEPT !.data[h.start + op.index] = v])
        /\ handle' = [handle EXCEPT ![f].length =
                        IF op.index + 1 > h.length THEN op.index + 1 ELSE h.length]
        /\ content' = [content EXCEPT ![f][op.index] = IF clean THEN v ELSE 0]
        /\ committed' = [committed EXCEPT ![f][op.index] = 0]
  /\ pc' = "idle" /\ op' = NoOp
  /\ UNCHANGED <<bitmap, bm_dirty, table, ft_dirty, calls, crashes, settled, clean>>

\* The write fails; the block may have been written all the same.
WriteFail ==
  /\ pc = "write"
  /\ LET f == op.file  v == calls
     IN /\ \/ UNCHANGED device
           \/ DeviceWrite([cached EXCEPT !.data[handle[f].start + op.index] = v])
        /\ content' = [content EXCEPT ![f][op.index] = 0]
        /\ committed' = [committed EXCEPT ![f][op.index] = 0]
  /\ pc' = "idle" /\ op' = NoOp
  /\ UNCHANGED <<kernel, calls, crashes, settled, clean>>

-----------------------------------------------------------------------------
(* sync(): length to the entry, bitmap, file table, flush.                 *)

SyncCall(f) ==
  /\ Call /\ IsOpen(f)
  /\ table' = [table EXCEPT ![handle[f].slot].length = handle[f].length]
  /\ ft_dirty' = TRUE
  /\ op' = [NoOp EXCEPT !.file = f]
  /\ pc' = "sync_bm"
  /\ UNCHANGED <<bitmap, bm_dirty, handle, device, crashes, ghost>>

\* The device after the allocator, or the file table, wrote itself.
SavedBitmap == [cached EXCEPT !.bm = bitmap]
SavedTable == [cached EXCEPT !.ft = table]

SyncBitmap ==
  /\ pc = "sync_bm"
  /\ IF bm_dirty THEN DeviceWrite(SavedBitmap) ELSE UNCHANGED device
  /\ bm_dirty' = FALSE
  /\ pc' = "sync_ft"
  /\ UNCHANGED <<op, bitmap, table, ft_dirty, handle, calls, crashes, ghost>>

SyncTable ==
  /\ pc = "sync_ft"
  /\ IF ft_dirty THEN DeviceWrite(SavedTable) ELSE UNCHANGED device
  /\ ft_dirty' = FALSE
  /\ pc' = "sync_flush"
  /\ UNCHANGED <<op, bitmap, bm_dirty, table, handle, calls, crashes, ghost>>

\* The medium after the last command of sync(), the flush.
Flushed == Barrier

\* sync() returns SQLITE_OK: what was written to the file is committed, and
\* the extents of every file are on the medium.
SyncFlush ==
  /\ pc = "sync_flush"
  /\ medium' = Flushed
  /\ committed' = [committed EXCEPT ![op.file] = content[op.file]]
  /\ settled' = File
  /\ pc' = "idle" /\ op' = NoOp
  /\ UNCHANGED <<kernel, cached, calls, crashes, content, clean>>

\* One of the three fails; its write may have been done all the same.
SyncFail ==
  /\ pc \in {"sync_bm", "sync_ft", "sync_flush"}
  /\ \/ UNCHANGED device
     \/ pc = "sync_bm" /\ bm_dirty /\ DeviceWrite(SavedBitmap)
     \/ pc = "sync_ft" /\ ft_dirty /\ DeviceWrite(SavedTable)
  /\ pc' = "idle" /\ op' = NoOp
  /\ UNCHANGED <<kernel, calls, crashes, ghost>>

-----------------------------------------------------------------------------
(* truncate() and delete(): metadata in RAM only.                          *)

\* The blocks that a truncation to n blocks gives back.
Excess(h, n) == Run(h.start + n, h.blocks - n)

\* f loses its blocks from n on, as far as the client is concerned.
Cut(values, f, n) == [values EXCEPT ![f] = [k \in Index |-> IF k < n THEN @[k] ELSE 0]]

Truncate(f, n) ==
  /\ Call /\ IsOpen(f) /\ n <= handle[f].length
  /\ LET h == handle[f]
         needed == IF n = 0 THEN 1 ELSE n
     IN IF needed < h.blocks
          THEN /\ bitmap' = bitmap \ Excess(h, needed) /\ bm_dirty' = TRUE
               /\ handle' = [handle EXCEPT ![f] = [@ EXCEPT !.length = n, !.blocks = needed]]
               /\ table' = [table EXCEPT ![h.slot] = [@ EXCEPT !.length = n, !.blocks = needed]]
               /\ ft_dirty' = TRUE
          ELSE /\ handle' = [handle EXCEPT ![f].length = n]
               /\ UNCHANGED <<bitmap, bm_dirty, table, ft_dirty>>
  /\ content' = Cut(content, f, n) /\ committed' = Cut(committed, f, n)
  /\ UNCHANGED <<pc, op, device, crashes, settled, clean>>

Delete(f) ==
  /\ Call /\ ~IsOpen(f)
  /\ \E s \in Lookup(f) :
       /\ table' = [table EXCEPT ![s] = Empty] /\ ft_dirty' = TRUE
       /\ bitmap' = bitmap \ Extent(table[s]) /\ bm_dirty' = TRUE
  /\ content' = Cut(content, f, 0) /\ committed' = Cut(committed, f, 0)
  /\ UNCHANGED <<pc, op, handle, device, crashes, settled, clean>>

-----------------------------------------------------------------------------

Next ==
  \/ Crash \/ Mount \/ LoadError
  \/ FormatSuperblock \/ FormatBitmap \/ FormatTable \/ FormatFlush
  \/ \E f \in File :
       \/ OpenExisting(f) \/ OpenCreate(f) \/ OpenTableFull(f) \/ Close(f)
       \/ SyncCall(f) \/ Delete(f)
       \/ \E k \in Index : WriteCall(f, k) \/ GrowCall(f, k)
       \/ \E n \in 0 .. MaxLength : Truncate(f, n)
  \/ CopyBlock \/ GrowFail \/ GrowCommit \/ WriteBlock \/ WriteFail
  \/ SyncBitmap \/ SyncTable \/ SyncFlush \/ SyncFail

Spec == Init /\ [][Next]_vars

-----------------------------------------------------------------------------
(* Properties.                                                             *)

\* Every variable has its type.
KernelTypeOK ==
  /\ pc \in {"off", "format_sb", "format_bm", "format_ft", "format_flush", "idle",
             "grow", "write", "sync_bm", "sync_ft", "sync_flush"}
  /\ op \in [file : File \cup {NoFile}, index : Nat, new : Nat, blk : Nat]
  /\ bitmap \subseteq Block /\ bm_dirty \in BOOLEAN
  /\ table \in [Slot -> Entry] /\ ft_dirty \in BOOLEAN
  /\ handle \in [File -> [slot : Int, start : Nat, blocks : Nat, length : Nat]]
  /\ \A f \in File : IsOpen(f) => handle[f].slot \in Slot
DeviceTypeOK ==
  /\ cached \in Device
  /\ medium \in [sb : SUBSET {"blank", "valid"}, bm : SUBSET SUBSET Block,
                 ft : SUBSET [Slot -> Entry], data : [Block -> SUBSET Nat]]
GhostTypeOK ==
  /\ calls \in 0 .. MaxCalls /\ crashes \in Nat
  /\ content \in [File -> [Index -> Nat]] /\ committed \in [File -> [Index -> Nat]]
  /\ settled \subseteq File /\ clean \in BOOLEAN
TypeOK == KernelTypeOK /\ DeviceTypeOK /\ GhostTypeOK

\* The kernel has a file system in RAM.
Mounted == pc \in {"idle", "grow", "write", "sync_bm", "sync_ft", "sync_flush"}

\* The run that a growth in progress has allocated and not yet installed.
InFlight == IF pc = "grow" THEN Run(op.new, op.index + 1) ELSE {}

\* On a file system that was in agreement when it was mounted, no two files
\* ever share a block, every block of a file is marked used, and the run a
\* growing file moves to belongs to nobody else: growth, truncation, deletion
\* and every error path of theirs keep the table and the bitmap in step.
ExtentsOwned ==
  Mounted /\ clean =>
    /\ Agree(bitmap, table)
    /\ InFlight \subseteq bitmap /\ InFlight \cap Extents(table) = {}

\* The extent cached in an open handle is the one of its table entry, and the
\* entry has the handle's name, although write(), truncate() and close()
\* update the two separately.
HandleAgrees ==
  \A f \in File : IsOpen(f) =>
    LET h == handle[f]  e == table[h.slot]
    IN e.name = f /\ e.start = h.start /\ e.blocks = h.blocks /\ h.length <= h.blocks

\* Table, bitmap and handles have their types and say the same about every
\* file, through every step, failure and restart.
TablesConsistent == TypeOK /\ ExtentsOwned /\ HandleAgrees

\* A block reads as it was last written, by whatever path the file has
\* moved, shrunk, been closed, reopened or survived a restart since.
ReadYourWrites ==
  Mounted /\ clean =>
    \A f \in File, k \in Index : content[f][k] # 0 =>
      IF IsOpen(f)
        THEN k < handle[f].length /\ cached.data[handle[f].start + k] = content[f][k]
        ELSE \E s \in Lookup(f) :
               k < table[s].length /\ cached.data[table[s].start + k] = content[f][k]

\* f's block k is v after a power loss at this point, whatever of the cache
\* the device has written back.
Recoverable(f, k, v) ==
  /\ medium.sb = {"valid"}
  /\ \A ft \in medium.ft : \E s \in Slot :
       ft[s].name = f /\ k < ft[s].length /\ medium.data[ft[s].start + k] = {v}

\* What sync() has committed survives a power loss at any later point, as long
\* as the file has not moved since: whatever the other files do, and at
\* whatever step their writes and syncs fail or are cut short.
SyncedSurvives ==
  clean => \A f \in settled, k \in Index :
             committed[f][k] # 0 => Recoverable(f, k, committed[f][k])

\* Blocks marked used that belong to no file.
Leaked == bitmap \ (Extents(table) \cup InFlight)

\* No call loses blocks, on any of its error paths, unless it is an open()
\* that finds the file table full.
NoLeak ==
  [][Mounted /\ Mounted' /\ clean /\ FreeSlot # {} => Leaked' \subseteq Leaked]_vars

-----------------------------------------------------------------------------
(* Why these hold: the inductive invariant.                                *)

\* A table, in RAM or on the device, whatever the bitmap says: extents on the
\* device, lengths within them, names given once.
GoodTable(t) ==
  /\ \A s \in Slot :
       /\ t[s].start + t[s].blocks <= DataBlockCount /\ t[s].length <= t[s].blocks
       /\ t[s].name = NoFile => t[s].blocks = 0
  /\ \A r, s \in Slot : t[r].name = t[s].name /\ t[r].name # NoFile => r = s

TablesSound == GoodTable(table) /\ \A ft \in medium.ft : GoodTable(ft)

\* The cache is one of the states of the medium, the only one after a restart,
\* and a table in RAM that is not dirty is in the cache.
DeviceSound ==
  /\ cached.sb \in medium.sb /\ cached.bm \in medium.bm /\ cached.ft \in medium.ft
  /\ \A b \in Block : cached.data[b] \in medium.data[b]
  /\ pc = "off" => medium = Only(cached)
  /\ pc \notin {"off", "format_sb"} => cached.sb = "valid"
  /\ Mounted => medium.sb = {"valid"}
  /\ pc = "format_flush" => cached.ft = EmptyTable
  /\ Mounted /\ ~ft_dirty => cached.ft = table
  /\ pc = "sync_flush" => ~ft_dirty

\* Before the file system is mounted there is nothing in RAM.
NothingInRam ==
  ~Mounted => /\ bitmap = {} /\ ~bm_dirty /\ table = EmptyTable /\ ~ft_dirty
              /\ handle = [f \in File |-> Closed]

\* The locals of the call in progress.
CallSound ==
  /\ pc \in {"grow", "write", "sync_bm", "sync_ft", "sync_flush"} =>
       op.file \in File /\ IsOpen(op.file) /\ op.index \in Index \cup {0}
  /\ pc = "grow" =>
       /\ op.index \in Index /\ op.new + op.index + 1 <= DataBlockCount
       /\ op.blk <= handle[op.file].blocks /\ handle[op.file].blocks <= op.index
  /\ pc = "write" => op.index \in Index /\ op.index < handle[op.file].blocks
  /\ pc \in {"sync_bm", "sync_ft", "sync_flush"} =>
       table[handle[op.file].slot].length = handle[op.file].length

\* A growing file has copied its first blocks.
CopiedSoFar ==
  pc = "grow" /\ clean =>
    \A i \in 0 .. op.blk - 1 :
      cached.data[op.new + i] = cached.data[handle[op.file].start + i]

\* What is committed is what was written, and within the length that the table
\* has for the file; after a restart nothing else is expected.
CommittedSound ==
  /\ ~clean \/ (~Mounted /\ pc # "off") => \A f \in File, k \in Index : content[f][k] = 0
  /\ pc = "off" => settled = File /\ content = committed
  /\ \A f \in File, k \in Index : committed[f][k] # 0 =>
       /\ content[f][k] = committed[f][k]
       /\ Mounted => \E s \in Lookup(f) : k < table[s].length

\* A settled file is, in every table that a power loss may leave, where it is
\* in the table in RAM.
SettledInPlace ==
  Mounted =>
    \A f \in settled, k \in Index : committed[f][k] # 0 =>
      \A s \in Lookup(f), ft \in medium.ft :
        ft[s].name = f /\ ft[s].start = table[s].start

IInv == /\ TablesConsistent /\ ReadYourWrites /\ SyncedSurvives
        /\ TablesSound /\ DeviceSound /\ NothingInRam /\ CallSound
        /\ CopiedSoFar /\ CommittedSound /\ SettledInPlace

-----------------------------------------------------------------------------
(* What AUDIT.md and the comments say, and the code does not do.           *)

\* AUDIT.md, positive finding 10: the file table points to valid data even on
\* power loss, growth included.  Every committed block survives.
GrowthCrashSafe ==
  clean => \A f \in File, k \in Index :
             committed[f][k] # 0 => Recoverable(f, k, committed[f][k])
=============================================================================
