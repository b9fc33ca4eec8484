-------------------------- MODULE HeavenVfsProofs ---------------------------
(***************************************************************************)
(* HeavenVfs proved for every set of files, size of the device, of the     *)
(* table and of the files, and any number of calls and power losses.       *)
(***************************************************************************)
EXTENDS HeavenVfs, TLAPS

USE HeavenVfsAssumption

-----------------------------------------------------------------------------
(* The device.                                                             *)

\* The parts of a device and of what may be on its medium.
LEMMA DeviceParts ==
  ASSUME DeviceTypeOK
  PROVE  /\ cached.sb \in {"blank", "valid"} /\ cached.bm \subseteq Block
         /\ cached.ft \in [Slot -> Entry] /\ cached.data \in [Block -> Nat]
         /\ medium.sb \subseteq {"blank", "valid"} /\ medium.bm \subseteq SUBSET Block
         /\ medium.ft \subseteq [Slot -> Entry] /\ medium.data \in [Block -> SUBSET Nat]
BY DEF DeviceTypeOK, Device

\* A write of one block of data.
LEMMA DataImage ==
  ASSUME DeviceTypeOK, NEW b \in Block, NEW v \in Nat
  PROVE  LET image == [cached EXCEPT !.data[b] = v]
         IN  /\ image \in Device
             /\ image.sb = cached.sb /\ image.bm = cached.bm /\ image.ft = cached.ft
             /\ image.data = [cached.data EXCEPT ![b] = v]
<1>1. cached \in Device
  BY DEF DeviceTypeOK
<1> QED BY <1>1 DEF Device

\* A write of the superblock.
LEMMA SuperblockImage ==
  ASSUME DeviceTypeOK, NEW x \in {"blank", "valid"}
  PROVE  LET image == [cached EXCEPT !.sb = x]
         IN  /\ image \in Device
             /\ image.sb = x /\ image.bm = cached.bm /\ image.ft = cached.ft
             /\ image.data = cached.data
BY DEF DeviceTypeOK, Device

\* A write of the bitmap.
LEMMA BitmapImage ==
  ASSUME DeviceTypeOK, NEW x \in SUBSET Block
  PROVE  LET image == [cached EXCEPT !.bm = x]
         IN  /\ image \in Device
             /\ image.sb = cached.sb /\ image.bm = x /\ image.ft = cached.ft
             /\ image.data = cached.data
BY DEF DeviceTypeOK, Device

\* A write of the table.
LEMMA TableImage ==
  ASSUME DeviceTypeOK, NEW x \in [Slot -> Entry]
  PROVE  LET image == [cached EXCEPT !.ft = x]
         IN  /\ image \in Device
             /\ image.sb = cached.sb /\ image.bm = cached.bm /\ image.ft = x
             /\ image.data = cached.data
BY DEF DeviceTypeOK, Device

\* What a write adds to the states of the medium.
LEMMA WriteFacts ==
  ASSUME DeviceTypeOK, NEW image \in Device, DeviceWrite(image)
  PROVE  /\ DeviceTypeOK' /\ cached' = image
         /\ medium'.sb = medium.sb \cup {image.sb} /\ medium'.bm = medium.bm \cup {image.bm}
         /\ medium'.ft = medium.ft \cup {image.ft}
         /\ \A b \in Block : medium'.data[b] = medium.data[b] \cup {image.data[b]}
<1>1. /\ medium.sb \subseteq {"blank", "valid"} /\ medium.bm \subseteq SUBSET Block
      /\ medium.ft \subseteq [Slot -> Entry] /\ medium.data \in [Block -> SUBSET Nat]
  BY DeviceParts
<1>2. /\ image.sb \in {"blank", "valid"} /\ image.bm \subseteq Block
      /\ image.ft \in [Slot -> Entry] /\ image.data \in [Block -> Nat]
  BY DEF Device
<1>3. cached' = image /\ medium' = OrElse(image)
  BY DEF DeviceWrite
<1>4. /\ medium'.sb = medium.sb \cup {image.sb} /\ medium'.bm = medium.bm \cup {image.bm}
      /\ medium'.ft = medium.ft \cup {image.ft}
      /\ \A b \in Block : medium'.data[b] = medium.data[b] \cup {image.data[b]}
  BY <1>3 DEF OrElse
<1>5. medium' \in [sb : SUBSET {"blank", "valid"}, bm : SUBSET SUBSET Block,
                   ft : SUBSET [Slot -> Entry], data : [Block -> SUBSET Nat]]
  <2>1. [b \in Block |-> medium.data[b] \cup {image.data[b]}] \in [Block -> SUBSET Nat]
    BY <1>1, <1>2
  <2> QED BY <1>1, <1>2, <1>3, <2>1 DEF OrElse
<1> QED BY <1>3, <1>4, <1>5 DEF DeviceTypeOK

\* What a flush, or a restart, leaves of them.
LEMMA OnlyFacts ==
  ASSUME NEW image \in Device
  PROVE  /\ Only(image).sb = {image.sb} /\ Only(image).bm = {image.bm}
         /\ Only(image).ft = {image.ft}
         /\ \A b \in Block : Only(image).data[b] = {image.data[b]}
         /\ Only(image) \in [sb : SUBSET {"blank", "valid"}, bm : SUBSET SUBSET Block,
                             ft : SUBSET [Slot -> Entry], data : [Block -> SUBSET Nat]]
<1>2. /\ image.sb \in {"blank", "valid"} /\ image.bm \subseteq Block
      /\ image.ft \in [Slot -> Entry] /\ image.data \in [Block -> Nat]
  BY DEF Device
<1>3. [b \in Block |-> {image.data[b]}] \in [Block -> SUBSET Nat]
  BY <1>2
<1> QED BY <1>2, <1>3 DEF Only

-----------------------------------------------------------------------------
(* Tables and handles.                                                     *)

\* An open handle has a slot.
LEMMA OpenFacts ==
  ASSUME KernelTypeOK, NEW f \in File
  PROVE  IsOpen(f) <=> handle[f].slot \in Slot
BY DEF KernelTypeOK, IsOpen, Closed, Slot

\* The empty table.
LEMMA EmptyTableFacts ==
  /\ EmptyTable \in [Slot -> Entry] /\ GoodTable(EmptyTable)
  /\ Extents(EmptyTable) = {} /\ Disjoint(EmptyTable)
<1>1. \A s \in Slot : EmptyTable[s] = Empty
  BY DEF EmptyTable
<1>2. Empty \in Entry
  BY DEF Empty, Entry
<1>3. Extent(Empty) = {}
  BY DEF Empty, Extent, Run
<1>4. EmptyTable \in [Slot -> Entry]
  BY <1>2 DEF EmptyTable
<1>5. GoodTable(EmptyTable)
  BY <1>1 DEF GoodTable, Empty
<1> QED BY <1>1, <1>3, <1>4, <1>5 DEF Extents, Disjoint

\* The blocks of a table.
LEMMA ExtentsFacts ==
  ASSUME NEW t \in [Slot -> Entry]
  PROVE  /\ \A s \in Slot : Extent(t[s]) \subseteq Extents(t)
         /\ \A x \in Extents(t) : \E s \in Slot : x \in Extent(t[s])
         /\ \A s \in Slot : \A k \in Nat : k < t[s].blocks => t[s].start + k \in Extent(t[s])
         /\ GoodTable(t) => Extents(t) \subseteq Block
<1>1. \A s \in Slot : t[s].start \in Nat /\ t[s].blocks \in Nat
  BY DEF Entry
<1>2. \A s \in Slot : \A k \in Nat : k < t[s].blocks => t[s].start + k \in Extent(t[s])
  BY <1>1 DEF Extent, Run
<1>3. GoodTable(t) => \A s \in Slot : Extent(t[s]) \subseteq Block
  BY <1>1 DEF GoodTable, Extent, Run, Block
<1> QED BY <1>2, <1>3 DEF Extents

\* Free runs are on the device, and free.
LEMMA FirstFitFacts ==
  ASSUME NEW n \in Nat, NEW b \in FirstFit(n)
  PROVE  /\ b \in Nat /\ b + n <= DataBlockCount
         /\ Run(b, n) \subseteq Block /\ Run(b, n) \cap bitmap = {}
BY DEF FirstFit, FreeRun, Run, Block

\* A HeavenFile.
Handle == [slot : Int, start : Nat, blocks : Nat, length : Nat]

\* The types of the values that stand for nothing.
LEMMA ValueFacts ==
  /\ NoOp \in [file : File \cup {NoFile}, index : Nat, new : Nat, blk : Nat]
  /\ Closed \in Handle /\ Empty \in Entry
  /\ Unknown \in [File -> [Index -> Nat]]
  /\ \A f \in File, k \in Index : Unknown[f][k] = 0
BY DEF NoOp, Closed, Handle, Empty, Entry, Unknown

\* Two fields of a handle are set.
LEMMA HandleFields ==
  ASSUME NEW r \in Handle, NEW a, NEW b
  PROVE  /\ [r EXCEPT !.start = a, !.blocks = b]
              = [slot |-> r.slot, start |-> a, blocks |-> b, length |-> r.length]
         /\ [r EXCEPT !.length = a, !.blocks = b]
              = [slot |-> r.slot, start |-> r.start, blocks |-> b, length |-> a]
<1>1. r = [slot |-> r.slot, start |-> r.start, blocks |-> r.blocks, length |-> r.length]
  BY DEF Handle
<1>2. [r EXCEPT !.start = a] = [slot |-> r.slot, start |-> a, blocks |-> r.blocks, length |-> r.length]
  BY <1>1
<1>3. [r EXCEPT !.length = a] = [slot |-> r.slot, start |-> r.start, blocks |-> r.blocks, length |-> a]
  BY <1>1
<1>4. [[slot |-> r.slot, start |-> a, blocks |-> r.blocks, length |-> r.length] EXCEPT !.blocks = b]
        = [slot |-> r.slot, start |-> a, blocks |-> b, length |-> r.length]
  OBVIOUS
<1>5. [[slot |-> r.slot, start |-> r.start, blocks |-> r.blocks, length |-> a] EXCEPT !.blocks = b]
        = [slot |-> r.slot, start |-> r.start, blocks |-> b, length |-> a]
  OBVIOUS
<1> QED BY <1>2, <1>3, <1>4, <1>5

\* Two fields of an entry are set.
LEMMA EntryFields ==
  ASSUME NEW r \in Entry, NEW a, NEW b
  PROVE  /\ [r EXCEPT !.start = a, !.blocks = b]
              = [name |-> r.name, start |-> a, blocks |-> b, length |-> r.length]
         /\ [r EXCEPT !.length = a, !.blocks = b]
              = [name |-> r.name, start |-> r.start, blocks |-> b, length |-> a]
<1>1. r = [name |-> r.name, start |-> r.start, blocks |-> r.blocks, length |-> r.length]
  BY DEF Entry
<1>2. [r EXCEPT !.start = a] = [name |-> r.name, start |-> a, blocks |-> r.blocks, length |-> r.length]
  BY <1>1
<1>3. [r EXCEPT !.length = a] = [name |-> r.name, start |-> r.start, blocks |-> r.blocks, length |-> a]
  BY <1>1
<1>4. [[name |-> r.name, start |-> a, blocks |-> r.blocks, length |-> r.length] EXCEPT !.blocks = b]
        = [name |-> r.name, start |-> a, blocks |-> b, length |-> r.length]
  OBVIOUS
<1>5. [[name |-> r.name, start |-> r.start, blocks |-> r.blocks, length |-> a] EXCEPT !.blocks = b]
        = [name |-> r.name, start |-> r.start, blocks |-> b, length |-> a]
  OBVIOUS
<1> QED BY <1>2, <1>3, <1>4, <1>5

\* A handle is set.
LEMMA SetHandle ==
  ASSUME KernelTypeOK, NEW f \in File, NEW h \in Handle, h = Closed \/ h.slot \in Slot,
         handle' = [handle EXCEPT ![f] = h]
  PROVE  /\ handle' \in [File -> Handle]
         /\ handle'[f] = h /\ \A g \in File \ {f} : handle'[g] = handle[g]
         /\ \A g \in File : IsOpen(g)' => handle'[g].slot \in Slot
         /\ IsOpen(f)' <=> h # Closed
         /\ \A g \in File \ {f} : IsOpen(g)' <=> IsOpen(g)
BY DEF KernelTypeOK, IsOpen, Handle

\* An entry is set, with an extent on the device and a name nobody else has.
LEMMA SetEntry ==
  ASSUME NEW t \in [Slot -> Entry], GoodTable(t), NEW s \in Slot, NEW e \in Entry,
         e.start + e.blocks <= DataBlockCount, e.length <= e.blocks,
         e.name = NoFile => e.blocks = 0,
         e.name = NoFile \/ e.name = t[s].name \/ \A r \in Slot : t[r].name # e.name
  PROVE  /\ [t EXCEPT ![s] = e] \in [Slot -> Entry] /\ GoodTable([t EXCEPT ![s] = e])
         /\ [t EXCEPT ![s] = e][s] = e
         /\ \A r \in Slot \ {s} : [t EXCEPT ![s] = e][r] = t[r]
BY DEF GoodTable

\* An open file: its handle and its entry.
LEMMA OpenFile ==
  ASSUME KernelTypeOK, HandleAgrees, TablesSound, NEW f \in File, IsOpen(f)
  PROVE  LET h == handle[f]  e == table[h.slot]
         IN /\ h.slot \in Slot /\ h.start \in Nat /\ h.blocks \in Nat /\ h.length \in Nat
            /\ h = [slot |-> h.slot, start |-> h.start, blocks |-> h.blocks, length |-> h.length]
            /\ e.length \in Nat /\ e.length <= h.blocks
            /\ e.name = f /\ e.start = h.start /\ e.blocks = h.blocks
            /\ e = [name |-> f, start |-> h.start, blocks |-> h.blocks, length |-> e.length]
            /\ h.length <= h.blocks /\ h.start + h.blocks <= DataBlockCount
            /\ Lookup(f) = {h.slot}
<1> DEFINE h == handle[f]
           e == table[h.slot]
<1>1. h \in Handle /\ h.slot \in Slot
  BY DEF KernelTypeOK, Handle
<1>2. e \in Entry /\ e.name = f /\ e.start = h.start /\ e.blocks = h.blocks /\ h.length <= h.blocks
  BY <1>1 DEF KernelTypeOK, HandleAgrees
<1>3. e.start + e.blocks <= DataBlockCount /\ e.length <= e.blocks
  BY <1>1 DEF TablesSound, GoodTable
<1>4. f # NoFile
  OBVIOUS
<1>5. Lookup(f) = {h.slot}
  BY <1>1, <1>2, <1>4 DEF TablesSound, GoodTable, Lookup
<1>6. /\ h.start \in Nat /\ h.blocks \in Nat /\ h.length \in Nat
      /\ h = [slot |-> h.slot, start |-> h.start, blocks |-> h.blocks, length |-> h.length]
  BY <1>1 DEF Handle
<1>7. /\ e.length \in Nat
      /\ e = [name |-> f, start |-> h.start, blocks |-> h.blocks, length |-> e.length]
  BY <1>2 DEF Entry
<1> HIDE DEF h, e
<1>8. /\ h.slot \in Slot /\ h.start \in Nat /\ h.blocks \in Nat /\ h.length \in Nat
      /\ h = [slot |-> h.slot, start |-> h.start, blocks |-> h.blocks, length |-> h.length]
      /\ e.length \in Nat /\ e.length <= h.blocks
      /\ e.name = f /\ e.start = h.start /\ e.blocks = h.blocks
      /\ e = [name |-> f, start |-> h.start, blocks |-> h.blocks, length |-> e.length]
      /\ h.length <= h.blocks /\ h.start + h.blocks <= DataBlockCount
      /\ Lookup(f) = {h.slot}
  BY <1>1, <1>2, <1>3, <1>5, <1>6, <1>7
<1> QED BY <1>8 DEF h, e

\* The entry of an open file gets another length and extent.
LEMMA EntryChanged ==
  ASSUME KernelTypeOK, HandleAgrees, TablesSound, NEW f \in File, IsOpen(f),
         NEW b \in Nat, NEW n \in Nat, NEW l \in Nat, b + n <= DataBlockCount, l <= n,
         table' = [table EXCEPT ![handle[f].slot] =
                     [name |-> f, start |-> b, blocks |-> n, length |-> l]]
  PROVE  /\ table' \in [Slot -> Entry] /\ GoodTable(table')
         /\ table'[handle[f].slot] = [name |-> f, start |-> b, blocks |-> n, length |-> l]
         /\ \A r \in Slot \ {handle[f].slot} : table'[r] = table[r]
         /\ \A r \in Slot : table'[r].name = table[r].name
         /\ \A g \in File : Lookup(g)' = Lookup(g)
<1> DEFINE s == handle[f].slot
           e == [name |-> f, start |-> b, blocks |-> n, length |-> l]
<1>1. s \in Slot /\ table[s].name = f
  BY OpenFile
<1>2. e \in Entry /\ e.start + e.blocks <= DataBlockCount /\ e.length <= e.blocks
      /\ e.name = f /\ e.name # NoFile
  BY DEF Entry
<1>3. table \in [Slot -> Entry] /\ GoodTable(table)
  BY DEF KernelTypeOK, TablesSound
<1>4. table' = [table EXCEPT ![s] = e]
  OBVIOUS
<1> HIDE DEF s, e
<1>5. /\ table' \in [Slot -> Entry] /\ GoodTable(table') /\ table'[s] = e
      /\ \A r \in Slot \ {s} : table'[r] = table[r]
  <2>1. /\ [table EXCEPT ![s] = e] \in [Slot -> Entry] /\ GoodTable([table EXCEPT ![s] = e])
        /\ [table EXCEPT ![s] = e][s] = e
        /\ \A r \in Slot \ {s} : [table EXCEPT ![s] = e][r] = table[r]
    BY <1>1, <1>2, <1>3, SetEntry, ZenonT(40)
  <2> QED BY <1>4, <2>1
<1>6. \A r \in Slot : table'[r].name = table[r].name
  BY <1>1, <1>2, <1>5
<1>7. \A g \in File : Lookup(g)' = Lookup(g)
  BY <1>6 DEF Lookup
<1> QED BY <1>5, <1>6, <1>7 DEF s, e

\* Saving the length of a handle in the entry.
LEMMA LengthSaved ==
  ASSUME KernelTypeOK, HandleAgrees, TablesSound, NEW f \in File, IsOpen(f),
         table' = [table EXCEPT ![handle[f].slot].length = handle[f].length]
  PROVE  table' = [table EXCEPT ![handle[f].slot] =
                     [name |-> f, start |-> handle[f].start, blocks |-> handle[f].blocks,
                      length |-> handle[f].length]]
<1>1. /\ handle[f].slot \in Slot
      /\ table[handle[f].slot] = [name |-> f, start |-> handle[f].start, blocks |-> handle[f].blocks,
                                  length |-> table[handle[f].slot].length]
  BY OpenFile
<1>2. [table[handle[f].slot] EXCEPT !.length = handle[f].length]
        = [name |-> f, start |-> handle[f].start, blocks |-> handle[f].blocks,
           length |-> handle[f].length]
  BY <1>1
<1> QED BY <1>1, <1>2

\* A write of one block of a mounted device.
LEMMA DataWritten ==
  ASSUME DeviceTypeOK, TablesSound, DeviceSound, NEW b \in Block, NEW v \in Nat,
         DeviceWrite([cached EXCEPT !.data[b] = v]),
         Mounted, pc' \in {"idle", "grow", "write"}, UNCHANGED <<table, ft_dirty>>
  PROVE  /\ DeviceTypeOK' /\ TablesSound' /\ DeviceSound'
         /\ medium'.sb = medium.sb /\ medium'.ft = medium.ft
         /\ cached'.data[b] = v
         /\ \A c \in Block \ {b} :
              cached'.data[c] = cached.data[c] /\ medium'.data[c] = medium.data[c]
<1> DEFINE image == [cached EXCEPT !.data[b] = v]
<1>1. /\ image \in Device
      /\ image.sb = cached.sb /\ image.bm = cached.bm /\ image.ft = cached.ft
      /\ image.data = [cached.data EXCEPT ![b] = v]
  BY DataImage
<1>2. DeviceWrite(image)
  OBVIOUS
<1> HIDE DEF image
<1>3. /\ DeviceTypeOK' /\ cached' = image
      /\ medium'.sb = medium.sb \cup {image.sb} /\ medium'.bm = medium.bm \cup {image.bm}
      /\ medium'.ft = medium.ft \cup {image.ft}
      /\ \A c \in Block : medium'.data[c] = medium.data[c] \cup {image.data[c]}
  BY <1>1, <1>2, WriteFacts
<1>4. /\ cached.sb \in medium.sb /\ cached.bm \in medium.bm /\ cached.ft \in medium.ft
      /\ \A c \in Block : cached.data[c] \in medium.data[c]
      /\ medium.sb = {"valid"} /\ cached.sb = "valid"
      /\ ~ft_dirty => cached.ft = table
  BY DEF DeviceSound, Mounted
<1>5. medium'.sb = medium.sb /\ medium'.ft = medium.ft /\ medium'.bm = medium.bm
  BY <1>1, <1>3, <1>4
<1>6. cached.data \in [Block -> Nat]
  BY DeviceParts
<1>7. /\ cached'.data[b] = v
      /\ \A c \in Block \ {b} :
           cached'.data[c] = cached.data[c] /\ medium'.data[c] = medium.data[c]
  <2>1. cached'.data = [cached.data EXCEPT ![b] = v]
    BY <1>1, <1>3
  <2>2. \A c \in Block \ {b} : image.data[c] = cached.data[c] /\ cached'.data[c] = cached.data[c]
    BY <1>1, <1>6, <2>1
  <2>3. ASSUME NEW c \in Block \ {b} PROVE medium'.data[c] = medium.data[c]
    <3>1. medium'.data[c] = medium.data[c] \cup {cached.data[c]}
      BY <1>3, <2>2
    <3> QED BY <1>4, <3>1
  <2> QED BY <1>6, <2>1, <2>2, <2>3
<1>8. TablesSound'
  BY <1>5 DEF TablesSound
<1>9. DeviceSound'
  BY <1>1, <1>3, <1>4, <1>5 DEF DeviceSound, Mounted
<1> QED BY <1>3, <1>5, <1>7, <1>8, <1>9

\* One of the writes of format().
LEMMA FormatWritten ==
  ASSUME DeviceTypeOK, TablesSound, DeviceSound, NEW image \in Device, DeviceWrite(image),
         GoodTable(image.ft), UNCHANGED table, image.sb = "valid",
         pc' \in {"format_bm", "format_ft", "format_flush"},
         pc' = "format_flush" => image.ft = EmptyTable
  PROVE  DeviceTypeOK' /\ TablesSound' /\ DeviceSound'
<1>1. /\ DeviceTypeOK' /\ cached' = image
      /\ medium'.sb = medium.sb \cup {image.sb} /\ medium'.bm = medium.bm \cup {image.bm}
      /\ medium'.ft = medium.ft \cup {image.ft}
      /\ \A c \in Block : medium'.data[c] = medium.data[c] \cup {image.data[c]}
  BY WriteFacts
<1>2. TablesSound'
  BY <1>1 DEF TablesSound
<1>3. DeviceSound'
  BY <1>1 DEF DeviceSound, Mounted
<1> QED BY <1>1, <1>2, <1>3

\* A flush, or what is left after a restart.
LEMMA OnlyLeft ==
  ASSUME cached' \in Device, medium' = Only(cached')
  PROVE  /\ DeviceTypeOK'
         /\ medium'.sb = {cached'.sb} /\ medium'.bm = {cached'.bm} /\ medium'.ft = {cached'.ft}
         /\ \A b \in Block : medium'.data[b] = {cached'.data[b]}
BY OnlyFacts DEF DeviceTypeOK

\* After a power loss each block is as the medium may have it.
LEMMA CrashFacts ==
  ASSUME DeviceTypeOK, Crash
  PROVE  /\ cached' \in Device /\ medium' = Only(cached')
         /\ cached'.sb \in medium.sb /\ cached'.ft \in medium.ft
         /\ \A b \in Block : cached'.data[b] \in medium.data[b]
<1>1. /\ medium.sb \subseteq {"blank", "valid"} /\ medium.bm \subseteq SUBSET Block
      /\ medium.ft \subseteq [Slot -> Entry] /\ medium.data \in [Block -> SUBSET Nat]
  BY DeviceParts
<1>2. PICK sb \in medium.sb, bm \in medium.bm, ft \in medium.ft,
           data \in {d \in [Block -> 0 .. MaxCalls] : \A b \in Block : d[b] \in medium.data[b]} :
        cached' = [sb |-> sb, bm |-> bm, ft |-> ft, data |-> data]
  BY DEF Crash
<1>3. data \in [Block -> Nat] /\ \A b \in Block : data[b] \in medium.data[b]
  BY <1>2
<1>4. cached' \in Device
  BY <1>1, <1>2, <1>3 DEF Device
<1> QED BY <1>2, <1>3, <1>4 DEF Crash

\* What is expected of a file that is cut.
LEMMA CutFacts ==
  ASSUME NEW values \in [File -> [Index -> Nat]], NEW f \in File, NEW n \in Nat
  PROVE  /\ Cut(values, f, n) \in [File -> [Index -> Nat]]
         /\ \A k \in Index : Cut(values, f, n)[f][k] = IF k < n THEN values[f][k] ELSE 0
         /\ \A g \in File \ {f} : Cut(values, f, n)[g] = values[g]
BY DEF Cut

\* Truncation as it changes the handle, the entry and the bitmap.
LEMMA TruncateFacts ==
  ASSUME KernelTypeOK, HandleAgrees, TablesSound, NEW f \in File, NEW n \in 0 .. MaxLength,
         Truncate(f, n)
  PROVE  \E m \in Nat :
           /\ n <= m /\ m <= handle[f].blocks
           /\ handle' = [handle EXCEPT ![f] = [slot |-> handle[f].slot, start |-> handle[f].start,
                                               blocks |-> m, length |-> n]]
           /\ \/ /\ table' = [table EXCEPT ![handle[f].slot] =
                       [name |-> f, start |-> handle[f].start, blocks |-> m, length |-> n]]
                 /\ bitmap' = bitmap \ Excess(handle[f], m) /\ m < handle[f].blocks
                 /\ bm_dirty' = TRUE /\ ft_dirty' = TRUE
              \/ m = handle[f].blocks /\ UNCHANGED <<bitmap, bm_dirty, table, ft_dirty>>
<1> DEFINE h == handle[f]
           e == table[h.slot]
           needed == IF n = 0 THEN 1 ELSE n
<1>1. IsOpen(f) /\ n <= h.length /\ n \in Nat /\ needed \in Nat /\ n <= needed
  BY DEF Truncate
<1>2. /\ h.slot \in Slot /\ h.blocks \in Nat /\ h.length \in Nat /\ h.length <= h.blocks
      /\ h \in Handle /\ e \in Entry /\ e.name = f /\ e.start = h.start
  BY <1>1, OpenFile DEF KernelTypeOK, Handle
<1>3. CASE needed < h.blocks
  <2>1. /\ bitmap' = bitmap \ Excess(h, needed) /\ bm_dirty' = TRUE /\ ft_dirty' = TRUE
        /\ handle' = [handle EXCEPT ![f] = [h EXCEPT !.length = n, !.blocks = needed]]
        /\ table' = [table EXCEPT ![h.slot] = [e EXCEPT !.length = n, !.blocks = needed]]
    BY <1>2, <1>3 DEF Truncate
  <2>2. handle' = [handle EXCEPT ![f] = [slot |-> h.slot, start |-> h.start,
                                          blocks |-> needed, length |-> n]]
    <3> HIDE DEF h, e, needed
    <3>1. [h EXCEPT !.length = n, !.blocks = needed]
            = [slot |-> h.slot, start |-> h.start, blocks |-> needed, length |-> n]
      BY <1>2, HandleFields
    <3> QED BY <2>1, <3>1 DEF h, e
  <2>3. table' = [table EXCEPT ![h.slot] = [name |-> f, start |-> h.start,
                                             blocks |-> needed, length |-> n]]
    <3> HIDE DEF h, e, needed
    <3>0. e \in Entry
      BY <1>2
    <3>1. [e EXCEPT !.length = n, !.blocks = needed]
            = [name |-> e.name, start |-> e.start, blocks |-> needed, length |-> n]
      BY <3>0, EntryFields
    <3> QED BY <1>2, <2>1, <3>1
  <2>4. needed <= h.blocks
    BY <1>1, <1>2, <1>3
  <2> QED BY <1>1, <1>3, <2>1, <2>2, <2>3, <2>4
<1>4. CASE ~(needed < h.blocks)
  <2>1. handle' = [handle EXCEPT ![f].length = n] /\ UNCHANGED <<bitmap, bm_dirty, table, ft_dirty>>
    BY <1>4 DEF Truncate
  <2>2. handle' = [handle EXCEPT ![f] = [slot |-> h.slot, start |-> h.start,
                                          blocks |-> h.blocks, length |-> n]]
    <3>1. [h EXCEPT !.length = n]
            = [slot |-> h.slot, start |-> h.start, blocks |-> h.blocks, length |-> n]
      BY <1>2 DEF Handle
    <3> QED BY <2>1, <3>1 DEF h, e
  <2>3. n <= h.blocks /\ h.blocks \in Nat /\ h.blocks <= h.blocks
    BY <1>1, <1>2
  <2> QED BY <2>1, <2>2, <2>3
<1> QED BY <1>3, <1>4

\* The end of a growth as it changes the handle and the entry.
LEMMA GrowCommitFacts ==
  ASSUME KernelTypeOK, HandleAgrees, TablesSound, CallSound, GrowCommit
  PROVE  /\ op.file \in File /\ IsOpen(op.file) /\ op.index + 1 \in Nat /\ op.new \in Nat
         /\ op.new + (op.index + 1) <= DataBlockCount /\ handle[op.file].blocks <= op.index + 1
         /\ handle[op.file].slot \in Slot /\ handle[op.file].length \in Nat
         /\ handle[op.file].length <= op.index + 1
         /\ table[handle[op.file].slot].length \in Nat
         /\ table[handle[op.file].slot].length <= op.index + 1
         /\ handle' = [handle EXCEPT ![op.file] = [slot |-> handle[op.file].slot, start |-> op.new,
                         blocks |-> op.index + 1, length |-> handle[op.file].length]]
         /\ table' = [table EXCEPT ![handle[op.file].slot] = [name |-> op.file, start |-> op.new,
                         blocks |-> op.index + 1, length |-> table[handle[op.file].slot].length]]
<1> DEFINE f == op.file
           h == handle[f]
           e == table[h.slot]
<1>1. /\ f \in File /\ IsOpen(f) /\ op.index \in Nat /\ op.new \in Nat
      /\ op.new + op.index + 1 <= DataBlockCount /\ h.blocks <= op.index
  BY DEF GrowCommit, CallSound, KernelTypeOK
<1>2. /\ h.slot \in Slot /\ h.blocks \in Nat /\ h.length \in Nat /\ h.length <= h.blocks
      /\ h \in Handle /\ e \in Entry /\ e.name = f /\ e.start = h.start
      /\ e.length \in Nat /\ e.length <= h.blocks
  BY <1>1, OpenFile DEF KernelTypeOK, Handle
<1>3. /\ handle' = [handle EXCEPT ![f] = [h EXCEPT !.start = op.new, !.blocks = op.index + 1]]
      /\ table' = [table EXCEPT ![h.slot] = [e EXCEPT !.start = op.new, !.blocks = op.index + 1]]
  BY DEF GrowCommit
<1>4. handle' = [handle EXCEPT ![f] = [slot |-> h.slot, start |-> op.new,
                                        blocks |-> op.index + 1, length |-> h.length]]
  <2> HIDE DEF h, e, f
  <2>0. h \in Handle
    BY <1>2
  <2> DEFINE b == op.new
             n == op.index + 1
  <2> HIDE DEF b, n
  <2>1. [h EXCEPT !.start = b, !.blocks = n]
          = [slot |-> h.slot, start |-> b, blocks |-> n, length |-> h.length]
    BY <2>0, HandleFields, ZenonT(40)
  <2> QED BY <1>3, <2>1 DEF h, b, n
<1>5. table' = [table EXCEPT ![h.slot] = [name |-> f, start |-> op.new,
                                           blocks |-> op.index + 1, length |-> e.length]]
  <2> HIDE DEF h, e, f
  <2>0. e \in Entry
    BY <1>2
  <2> DEFINE b == op.new
             n == op.index + 1
  <2> HIDE DEF b, n
  <2>1. [e EXCEPT !.start = b, !.blocks = n]
          = [name |-> e.name, start |-> b, blocks |-> n, length |-> e.length]
    BY <2>0, EntryFields, ZenonT(40)
  <2> QED BY <1>2, <1>3, <2>1 DEF b, n
<1>6. /\ op.index + 1 \in Nat /\ op.new + (op.index + 1) <= DataBlockCount
      /\ h.blocks <= op.index + 1 /\ h.length <= op.index + 1 /\ e.length <= op.index + 1
  BY <1>1, <1>2
<1> QED BY <1>1, <1>2, <1>4, <1>5, <1>6

\* A write of a block as it changes the handle.
LEMMA WriteBlockFacts ==
  ASSUME KernelTypeOK, HandleAgrees, TablesSound, CallSound, WriteBlock
  PROVE  \E l \in Nat :
           /\ l <= handle[op.file].blocks /\ handle[op.file].length <= l /\ op.index < l
           /\ handle' = [handle EXCEPT ![op.file] = [slot |-> handle[op.file].slot,
                start |-> handle[op.file].start, blocks |-> handle[op.file].blocks, length |-> l]]
<1> DEFINE h == handle[op.file]
           l == IF op.index + 1 > h.length THEN op.index + 1 ELSE h.length
<1>1. op.file \in File /\ IsOpen(op.file) /\ op.index \in Nat /\ op.index < h.blocks
  BY DEF WriteBlock, CallSound, KernelTypeOK
<1>2. /\ h.blocks \in Nat /\ h.length \in Nat /\ h.length <= h.blocks
      /\ h = [slot |-> h.slot, start |-> h.start, blocks |-> h.blocks, length |-> h.length]
  BY <1>1, OpenFile
<1>3. handle' = [handle EXCEPT ![op.file].length = l]
  BY DEF WriteBlock
<1>4. l \in Nat /\ l <= h.blocks /\ h.length <= l /\ op.index < l
  BY <1>1, <1>2
<1> HIDE DEF l
<1>5. handle' = [handle EXCEPT ![op.file] = [slot |-> h.slot, start |-> h.start,
                                              blocks |-> h.blocks, length |-> l]]
  <2>1. [h EXCEPT !.length = l]
          = [slot |-> h.slot, start |-> h.start, blocks |-> h.blocks, length |-> l]
    BY <1>2
  <2> QED BY <1>3, <2>1
<1> QED BY <1>4, <1>5

\* sync() writes the bitmap to a mounted device: nothing else changes there.
LEMMA BitmapWritten ==
  ASSUME DeviceTypeOK, TablesSound, DeviceSound, bitmap \subseteq Block, DeviceWrite(SavedBitmap),
         Mounted, pc' \in {"idle", "sync_ft"}, UNCHANGED <<table, ft_dirty>>
  PROVE  /\ DeviceTypeOK' /\ TablesSound' /\ DeviceSound'
         /\ medium'.sb = medium.sb /\ medium'.ft = medium.ft
         /\ cached'.data = cached.data /\ medium'.data = medium.data
<1>1. /\ SavedBitmap \in Device /\ SavedBitmap.sb = cached.sb /\ SavedBitmap.bm = bitmap
      /\ SavedBitmap.ft = cached.ft /\ SavedBitmap.data = cached.data
  BY BitmapImage DEF SavedBitmap
<1>2. /\ DeviceTypeOK' /\ cached' = SavedBitmap
      /\ medium'.sb = medium.sb \cup {cached.sb} /\ medium'.bm = medium.bm \cup {bitmap}
      /\ medium'.ft = medium.ft \cup {cached.ft}
      /\ \A c \in Block : medium'.data[c] = medium.data[c] \cup {cached.data[c]}
  BY <1>1, WriteFacts
<1>3. /\ cached.sb \in medium.sb /\ cached.ft \in medium.ft
      /\ \A c \in Block : cached.data[c] \in medium.data[c]
      /\ medium.sb = {"valid"} /\ cached.sb = "valid" /\ (~ft_dirty => cached.ft = table)
  BY DEF DeviceSound, Mounted
<1>4. /\ medium'.sb = medium.sb /\ medium'.ft = medium.ft
      /\ \A c \in Block : medium'.data[c] = medium.data[c]
  <2>1. ASSUME NEW c \in Block PROVE medium'.data[c] = medium.data[c]
    <3>1. medium'.data[c] = medium.data[c] \cup {cached.data[c]} /\ cached.data[c] \in medium.data[c]
      BY <1>2, <1>3
    <3> QED BY <3>1
  <2> QED BY <1>2, <1>3, <2>1
<1>5. TablesSound'
  BY <1>4 DEF TablesSound
<1>6. DeviceSound'
  BY <1>1, <1>2, <1>3, <1>4 DEF DeviceSound, Mounted
<1>7. medium'.data = medium.data
  BY <1>2, <1>4, DeviceParts DEF DeviceTypeOK
<1> QED BY <1>1, <1>2, <1>4, <1>5, <1>6, <1>7

\* sync() writes the table to a mounted device: one more table may be left by a
\* power loss, and it is the one in the cache.
LEMMA TableWritten ==
  ASSUME KernelTypeOK, DeviceTypeOK, TablesSound, DeviceSound, DeviceWrite(SavedTable),
         Mounted, pc' \in {"idle", "sync_flush"}, UNCHANGED table,
         pc' = "sync_flush" => ~ft_dirty'
  PROVE  /\ DeviceTypeOK' /\ TablesSound' /\ DeviceSound'
         /\ medium'.sb = medium.sb /\ medium'.ft = medium.ft \cup {table}
         /\ cached'.data = cached.data /\ medium'.data = medium.data
<1>0. table \in [Slot -> Entry]
  BY DEF KernelTypeOK
<1>1. /\ SavedTable \in Device /\ SavedTable.sb = cached.sb /\ SavedTable.bm = cached.bm
      /\ SavedTable.ft = table /\ SavedTable.data = cached.data
  BY <1>0, TableImage DEF SavedTable
<1>2. /\ DeviceTypeOK' /\ cached' = SavedTable
      /\ medium'.sb = medium.sb \cup {cached.sb} /\ medium'.bm = medium.bm \cup {cached.bm}
      /\ medium'.ft = medium.ft \cup {table}
      /\ \A c \in Block : medium'.data[c] = medium.data[c] \cup {cached.data[c]}
  BY <1>1, WriteFacts
<1>3. /\ cached.sb \in medium.sb
      /\ \A c \in Block : cached.data[c] \in medium.data[c]
      /\ medium.sb = {"valid"} /\ cached.sb = "valid"
  BY DEF DeviceSound, Mounted
<1>4. medium'.sb = medium.sb /\ \A c \in Block : medium'.data[c] = medium.data[c]
  <2>1. ASSUME NEW c \in Block PROVE medium'.data[c] = medium.data[c]
    <3>1. medium'.data[c] = medium.data[c] \cup {cached.data[c]} /\ cached.data[c] \in medium.data[c]
      BY <1>2, <1>3
    <3> QED BY <3>1
  <2> QED BY <1>2, <1>3, <2>1
<1>5. TablesSound'
  BY <1>2 DEF TablesSound
<1>6. DeviceSound'
  BY <1>1, <1>2, <1>3, <1>4 DEF DeviceSound, Mounted
<1>7. medium'.data = medium.data
  BY <1>2, <1>4, DeviceParts DEF DeviceTypeOK
<1> QED BY <1>1, <1>2, <1>4, <1>5, <1>6, <1>7

-----------------------------------------------------------------------------
(* The structure: types, handles, tables, the device and the call in       *)
(* progress.  Each action keeps all of it.                                 *)

Structure == /\ KernelTypeOK /\ DeviceTypeOK /\ GhostTypeOK /\ HandleAgrees
             /\ TablesSound /\ DeviceSound /\ NothingInRam /\ CallSound

\* A power loss keeps the structure (Crash).
LEMMA CrashStructure ==
  ASSUME Structure, Crash
  PROVE  Structure'
<1>0. /\ KernelTypeOK /\ DeviceTypeOK /\ GhostTypeOK /\ HandleAgrees
      /\ TablesSound /\ DeviceSound /\ NothingInRam /\ CallSound
  BY DEF Structure
<1>1. KernelTypeOK'
  <2>1. /\ table' \in [Slot -> Entry] /\ handle' \in [File -> Handle]
        /\ op' \in [file : File \cup {NoFile}, index : Nat, new : Nat, blk : Nat]
    BY EmptyTableFacts, ValueFacts DEF Crash
  <2>2. \A f \in File : ~IsOpen(f)'
    BY DEF Crash, IsOpen
  <2>3. bm_dirty' \in BOOLEAN /\ ft_dirty' \in BOOLEAN
    BY Zenon DEF Crash
  <2> QED BY <2>1, <2>2, <2>3 DEF Crash, KernelTypeOK, Handle
<1>2. DeviceTypeOK'
  BY <1>0, CrashFacts, OnlyLeft
<1>3. GhostTypeOK'
  BY <1>0 DEF Crash, GhostTypeOK
<1>4. HandleAgrees'
  BY <1>0 DEF Crash, HandleAgrees, KernelTypeOK, IsOpen
<1>5. TablesSound'
  <2>1. cached'.ft \in medium.ft /\ medium'.ft = {cached'.ft}
    BY <1>0, CrashFacts, OnlyLeft
  <2> QED BY <1>0, <2>1, EmptyTableFacts DEF Crash, TablesSound
<1>6. DeviceSound'
  <2>1. /\ medium' = Only(cached') /\ medium'.sb = {cached'.sb} /\ medium'.bm = {cached'.bm}
        /\ medium'.ft = {cached'.ft} /\ \A b \in Block : medium'.data[b] = {cached'.data[b]}
    BY <1>0, CrashFacts, OnlyLeft
  <2>2. pc' = "off"
    BY DEF Crash
  <2> QED BY <2>1, <2>2 DEF DeviceSound, Mounted
<1>7. NothingInRam'
  BY <1>0 DEF Crash, NothingInRam, Mounted
<1>8. CallSound'
  BY <1>0 DEF Crash, CallSound, KernelTypeOK, IsOpen, HandleAgrees
<1> QED BY <1>1, <1>2, <1>3, <1>4, <1>5, <1>6, <1>7, <1>8 DEF Structure

\* Mounting keeps the structure (Mount).
LEMMA MountStructure ==
  ASSUME Structure, Mount
  PROVE  Structure'
<1>0. /\ KernelTypeOK /\ DeviceTypeOK /\ GhostTypeOK /\ HandleAgrees
      /\ TablesSound /\ DeviceSound /\ NothingInRam /\ CallSound
  BY DEF Structure
<1>1. KernelTypeOK'
  <2>1. cached.bm \subseteq Block /\ cached.ft \in [Slot -> Entry]
    BY <1>0, DeviceParts
  <2> QED BY <1>0, <2>1 DEF Mount, KernelTypeOK, IsOpen
<1>2. DeviceTypeOK'
  BY <1>0 DEF Mount, DeviceTypeOK, device
<1>3. GhostTypeOK'
  <2>1. Agree(cached.bm, cached.ft) \in BOOLEAN
    BY Zenon DEF Agree
  <2>2. content' \in [File -> [Index -> Nat]] /\ committed' \in [File -> [Index -> Nat]]
    BY <1>0, ValueFacts DEF Mount, GhostTypeOK
  <2> QED BY <1>0, <2>1, <2>2 DEF Mount, GhostTypeOK
<1>4. HandleAgrees'
  <2>1. \A f \in File : ~IsOpen(f)'
    BY <1>0 DEF Mount, NothingInRam, Mounted, IsOpen
  <2> QED BY <2>1 DEF HandleAgrees
<1>5. TablesSound'
  BY <1>0 DEF Mount, TablesSound, DeviceSound, device
<1>6. DeviceSound'
  <2>1. medium.sb = {cached.sb}
    BY <1>0, OnlyFacts DEF Mount, DeviceSound, DeviceTypeOK
  <2> QED BY <1>0, <2>1 DEF Mount, DeviceSound, Mounted, device
<1>7. NothingInRam'
  BY <1>0 DEF Mount, NothingInRam, Mounted, device
<1>8. CallSound'
  BY <1>0 DEF Mount, CallSound, KernelTypeOK, IsOpen, HandleAgrees, device
<1> QED BY <1>1, <1>2, <1>3, <1>4, <1>5, <1>6, <1>7, <1>8 DEF Structure

\* A device that is not mounted keeps the structure (LoadError).
LEMMA LoadErrorStructure ==
  ASSUME Structure, LoadError
  PROVE  Structure'
<1>0. /\ KernelTypeOK /\ DeviceTypeOK /\ GhostTypeOK /\ HandleAgrees
      /\ TablesSound /\ DeviceSound /\ NothingInRam /\ CallSound
  BY DEF Structure
<1>1. KernelTypeOK'
  BY <1>0 DEF LoadError, KernelTypeOK, IsOpen, Closed, kernel, device
<1>2. DeviceTypeOK'
  BY <1>0 DEF LoadError, DeviceTypeOK, kernel, device
<1>3. GhostTypeOK'
  BY <1>0, ValueFacts DEF LoadError, GhostTypeOK
<1>4. HandleAgrees'
  BY <1>0 DEF LoadError, HandleAgrees, KernelTypeOK, IsOpen, kernel, device
<1>5. TablesSound'
  BY <1>0 DEF LoadError, TablesSound, GoodTable, kernel, device
<1>6. DeviceSound'
  BY <1>0 DEF LoadError, DeviceSound, Mounted, kernel, device
<1>7. NothingInRam'
  BY <1>0 DEF LoadError, NothingInRam, Mounted, kernel, device
<1>8. CallSound'
  BY <1>0 DEF LoadError, CallSound, KernelTypeOK, IsOpen, HandleAgrees, kernel, device
<1> QED BY <1>1, <1>2, <1>3, <1>4, <1>5, <1>6, <1>7, <1>8 DEF Structure

\* format()'s first write keeps the structure (FormatSuperblock).
LEMMA FormatSuperblockStructure ==
  ASSUME Structure, FormatSuperblock
  PROVE  Structure'
<1>0. /\ KernelTypeOK /\ DeviceTypeOK /\ GhostTypeOK /\ HandleAgrees
      /\ TablesSound /\ DeviceSound /\ NothingInRam /\ CallSound
  BY DEF Structure
<1>1. KernelTypeOK'
  BY <1>0 DEF FormatSuperblock, FormatWrite, KernelTypeOK, IsOpen, Closed, kernel, ghost
<1>2. DeviceTypeOK' /\ TablesSound' /\ DeviceSound'
  <2>1. /\ [cached EXCEPT !.sb = "valid"] \in Device /\ [cached EXCEPT !.sb = "valid"].sb = "valid"
        /\ [cached EXCEPT !.sb = "valid"].ft = cached.ft
    BY <1>0, SuperblockImage DEF FormatSuperblock, FormatWrite, DeviceSound
  <2>2. GoodTable([cached EXCEPT !.sb = "valid"].ft)
    BY <1>0, <2>1, EmptyTableFacts DEF TablesSound, DeviceSound
  <2> QED BY <1>0, <2>1, <2>2, FormatWritten DEF FormatSuperblock, FormatWrite, kernel
<1>3. GhostTypeOK'
  BY <1>0 DEF FormatSuperblock, FormatWrite, GhostTypeOK, kernel, ghost
<1>4. HandleAgrees'
  BY <1>0 DEF FormatSuperblock, FormatWrite, HandleAgrees, KernelTypeOK, IsOpen, kernel, ghost
<1>5. NothingInRam'
  BY <1>0 DEF FormatSuperblock, FormatWrite, NothingInRam, Mounted, kernel, ghost
<1>6. CallSound'
  BY <1>0 DEF FormatSuperblock, FormatWrite, CallSound, KernelTypeOK, IsOpen, HandleAgrees, kernel,
     ghost
<1> QED BY <1>1, <1>2, <1>3, <1>4, <1>5, <1>6 DEF Structure

\* format()'s second write keeps the structure (FormatBitmap).
LEMMA FormatBitmapStructure ==
  ASSUME Structure, FormatBitmap
  PROVE  Structure'
<1>0. /\ KernelTypeOK /\ DeviceTypeOK /\ GhostTypeOK /\ HandleAgrees
      /\ TablesSound /\ DeviceSound /\ NothingInRam /\ CallSound
  BY DEF Structure
<1>1. KernelTypeOK'
  BY <1>0 DEF FormatBitmap, FormatWrite, KernelTypeOK, IsOpen, Closed, kernel, ghost
<1>2. DeviceTypeOK' /\ TablesSound' /\ DeviceSound'
  <2>1. /\ [cached EXCEPT !.bm = {}] \in Device /\ [cached EXCEPT !.bm = {}].sb = "valid"
        /\ [cached EXCEPT !.bm = {}].ft = cached.ft
    BY <1>0, BitmapImage DEF FormatBitmap, FormatWrite, DeviceSound
  <2>2. GoodTable([cached EXCEPT !.bm = {}].ft)
    BY <1>0, <2>1, EmptyTableFacts DEF TablesSound, DeviceSound
  <2> QED BY <1>0, <2>1, <2>2, FormatWritten DEF FormatBitmap, FormatWrite, kernel
<1>3. GhostTypeOK'
  BY <1>0 DEF FormatBitmap, FormatWrite, GhostTypeOK, kernel, ghost
<1>4. HandleAgrees'
  BY <1>0 DEF FormatBitmap, FormatWrite, HandleAgrees, KernelTypeOK, IsOpen, kernel, ghost
<1>5. NothingInRam'
  BY <1>0 DEF FormatBitmap, FormatWrite, NothingInRam, Mounted, kernel, ghost
<1>6. CallSound'
  BY <1>0 DEF FormatBitmap, FormatWrite, CallSound, KernelTypeOK, IsOpen, HandleAgrees, kernel,
     ghost
<1> QED BY <1>1, <1>2, <1>3, <1>4, <1>5, <1>6 DEF Structure

\* format()'s third write keeps the structure (FormatTable).
LEMMA FormatTableStructure ==
  ASSUME Structure, FormatTable
  PROVE  Structure'
<1>0. /\ KernelTypeOK /\ DeviceTypeOK /\ GhostTypeOK /\ HandleAgrees
      /\ TablesSound /\ DeviceSound /\ NothingInRam /\ CallSound
  BY DEF Structure
<1>1. KernelTypeOK'
  BY <1>0 DEF FormatTable, FormatWrite, KernelTypeOK, IsOpen, Closed, kernel, ghost
<1>2. DeviceTypeOK' /\ TablesSound' /\ DeviceSound'
  <2>1. /\ [cached EXCEPT !.ft = EmptyTable] \in Device /\ [cached EXCEPT !.ft = EmptyTable].sb = "valid"
        /\ [cached EXCEPT !.ft = EmptyTable].ft = EmptyTable
    BY <1>0, TableImage, EmptyTableFacts DEF FormatTable, FormatWrite, DeviceSound
  <2>2. GoodTable([cached EXCEPT !.ft = EmptyTable].ft)
    BY <1>0, <2>1, EmptyTableFacts DEF TablesSound, DeviceSound
  <2> QED BY <1>0, <2>1, <2>2, FormatWritten DEF FormatTable, FormatWrite, kernel
<1>3. GhostTypeOK'
  BY <1>0 DEF FormatTable, FormatWrite, GhostTypeOK, kernel, ghost
<1>4. HandleAgrees'
  BY <1>0 DEF FormatTable, FormatWrite, HandleAgrees, KernelTypeOK, IsOpen, kernel, ghost
<1>5. NothingInRam'
  BY <1>0 DEF FormatTable, FormatWrite, NothingInRam, Mounted, kernel, ghost
<1>6. CallSound'
  BY <1>0 DEF FormatTable, FormatWrite, CallSound, KernelTypeOK, IsOpen, HandleAgrees, kernel, ghost
<1> QED BY <1>1, <1>2, <1>3, <1>4, <1>5, <1>6 DEF Structure

\* The end of format() keeps the structure (FormatFlush).
LEMMA FormatFlushStructure ==
  ASSUME Structure, FormatFlush
  PROVE  Structure'
<1>0. /\ KernelTypeOK /\ DeviceTypeOK /\ GhostTypeOK /\ HandleAgrees
      /\ TablesSound /\ DeviceSound /\ NothingInRam /\ CallSound
  BY DEF Structure
<1>p1. /\ medium'.sb = {cached'.sb} /\ medium'.bm = {cached'.bm} /\ medium'.ft = {cached'.ft}
       /\ \A b \in Block : medium'.data[b] = {cached'.data[b]}
  BY <1>0, OnlyLeft DEF FormatFlush, Barrier, DeviceTypeOK
<1>1. KernelTypeOK'
  BY <1>0 DEF FormatFlush, Barrier, KernelTypeOK, IsOpen, Closed, kernel
<1>2. DeviceTypeOK'
  BY <1>0, OnlyLeft DEF FormatFlush, Barrier, DeviceTypeOK
<1>3. GhostTypeOK'
  BY <1>0 DEF FormatFlush, Barrier, GhostTypeOK, kernel
<1>4. HandleAgrees'
  BY <1>0 DEF FormatFlush, Barrier, HandleAgrees, KernelTypeOK, IsOpen, kernel
<1>5. TablesSound'
  <2> QED BY <1>0, <1>p1 DEF FormatFlush, TablesSound, DeviceSound, kernel
<1>6. DeviceSound'
  <2>2. cached.sb = "valid" /\ cached.ft = EmptyTable /\ table = EmptyTable
    BY <1>0 DEF FormatFlush, DeviceSound, NothingInRam, Mounted
  <2> QED BY <1>0, <1>p1, <2>2 DEF FormatFlush, DeviceSound, Mounted, kernel
<1>7. NothingInRam'
  BY <1>0 DEF FormatFlush, Barrier, NothingInRam, Mounted, kernel
<1>8. CallSound'
  BY <1>0 DEF FormatFlush, Barrier, CallSound, KernelTypeOK, IsOpen, HandleAgrees, kernel
<1> QED BY <1>1, <1>2, <1>3, <1>4, <1>5, <1>6, <1>7, <1>8 DEF Structure

\* open() of a file keeps the structure (OpenExisting).
LEMMA OpenExistingStructure ==
  ASSUME Structure, NEW f \in File, OpenExisting(f)
  PROVE  Structure'
<1>0. /\ KernelTypeOK /\ DeviceTypeOK /\ GhostTypeOK /\ HandleAgrees
      /\ TablesSound /\ DeviceSound /\ NothingInRam /\ CallSound
  BY DEF Structure
<1>1. KernelTypeOK'
  <2>1. PICK s \in Lookup(f) : handle' = [handle EXCEPT ![f] =
          [slot |-> s, start |-> table[s].start, blocks |-> table[s].blocks, length |-> table[s].length]]
    BY DEF OpenExisting
  <2>2. s \in Slot /\ table[s] \in Entry
    BY <1>0 DEF Lookup, KernelTypeOK
  <2>3. [slot |-> s, start |-> table[s].start, blocks |-> table[s].blocks,
         length |-> table[s].length] \in Handle
    BY <2>2 DEF Entry, Handle, Slot
  <2>4. /\ handle' \in [File -> Handle]
        /\ \A g \in File : IsOpen(g)' => handle'[g].slot \in Slot
    BY <1>0, <2>1, <2>2, <2>3, SetHandle
  <2> QED BY <1>0, <2>4 DEF OpenExisting, KernelTypeOK, Handle
<1>2. DeviceTypeOK'
  BY <1>0 DEF OpenExisting, Call, DeviceTypeOK, device, ghost
<1>3. GhostTypeOK'
  BY <1>0 DEF OpenExisting, Call, GhostTypeOK, device, ghost
<1>4. HandleAgrees'
  <2>1. PICK s \in Lookup(f) : handle' = [handle EXCEPT ![f] =
          [slot |-> s, start |-> table[s].start, blocks |-> table[s].blocks, length |-> table[s].length]]
    BY DEF OpenExisting
  <2>2. s \in Slot /\ table[s] \in Entry /\ table[s].name = f /\ table[s].length <= table[s].blocks
    BY <1>0 DEF Lookup, KernelTypeOK, TablesSound, GoodTable
  <2>3. [slot |-> s, start |-> table[s].start, blocks |-> table[s].blocks,
         length |-> table[s].length] \in Handle
    BY <2>2 DEF Entry, Handle, Slot
  <2>4. /\ handle'[f] = [slot |-> s, start |-> table[s].start, blocks |-> table[s].blocks,
                         length |-> table[s].length]
        /\ \A g \in File \ {f} : handle'[g] = handle[g] /\ (IsOpen(g)' <=> IsOpen(g))
    BY <1>0, <2>1, <2>2, <2>3, SetHandle, ZenonT(40)
  <2>5. table' = table
    BY DEF OpenExisting
  <2> QED BY <1>0, <2>2, <2>4, <2>5 DEF HandleAgrees
<1>5. TablesSound'
  BY <1>0 DEF OpenExisting, Call, TablesSound, GoodTable, device, ghost
<1>6. DeviceSound'
  BY <1>0 DEF OpenExisting, Call, DeviceSound, Mounted, device, ghost
<1>7. NothingInRam'
  BY <1>0 DEF OpenExisting, Call, NothingInRam, Mounted, device, ghost
<1>8. CallSound'
  BY <1>0 DEF OpenExisting, Call, CallSound, KernelTypeOK, IsOpen, HandleAgrees, device, ghost
<1> QED BY <1>1, <1>2, <1>3, <1>4, <1>5, <1>6, <1>7, <1>8 DEF Structure

\* open() that creates a file keeps the structure (OpenCreate).
LEMMA OpenCreateStructure ==
  ASSUME Structure, NEW f \in File, OpenCreate(f)
  PROVE  Structure'
<1>0. /\ KernelTypeOK /\ DeviceTypeOK /\ GhostTypeOK /\ HandleAgrees
      /\ TablesSound /\ DeviceSound /\ NothingInRam /\ CallSound
  BY DEF Structure
<1>p1. PICK b \in FirstFit(InitialBlocks), s \in FreeSlot :
        /\ bitmap' = bitmap \cup Run(b, InitialBlocks)
        /\ table' = [table EXCEPT ![s] =
             [name |-> f, start |-> b, blocks |-> InitialBlocks, length |-> 0]]
        /\ handle' = [handle EXCEPT ![f] =
             [slot |-> s, start |-> b, blocks |-> InitialBlocks, length |-> 0]]
  BY DEF OpenCreate
<1>p2. b \in Nat /\ b + InitialBlocks <= DataBlockCount /\ Run(b, InitialBlocks) \subseteq Block
  BY FirstFitFacts
<1>p3. s \in Slot /\ table[s].name = NoFile /\ \A r \in Slot : table[r].name # f
  BY DEF FreeSlot, OpenCreate, Lookup
<1>p4. /\ [name |-> f, start |-> b, blocks |-> InitialBlocks, length |-> 0] \in Entry
       /\ [slot |-> s, start |-> b, blocks |-> InitialBlocks, length |-> 0] \in Handle
  BY <1>p2, <1>p3 DEF Entry, Handle, Slot
<1>p5. /\ handle' \in [File -> Handle]
       /\ handle'[f] = [slot |-> s, start |-> b, blocks |-> InitialBlocks, length |-> 0]
       /\ \A g \in File \ {f} : handle'[g] = handle[g] /\ (IsOpen(g)' <=> IsOpen(g))
       /\ \A g \in File : IsOpen(g)' => handle'[g].slot \in Slot
  BY <1>0, <1>p1, <1>p3, <1>p4, SetHandle
<1>1. KernelTypeOK'
  <2>6. bm_dirty' \in BOOLEAN /\ ft_dirty' \in BOOLEAN
    BY Zenon DEF OpenCreate
  <2> QED BY <1>0, <1>p1, <1>p2, <1>p3, <1>p4, <1>p5, <2>6 DEF OpenCreate, KernelTypeOK, Handle
<1>2. DeviceTypeOK'
  BY <1>0 DEF OpenCreate, Call, DeviceTypeOK, device, ghost
<1>3. GhostTypeOK'
  BY <1>0 DEF OpenCreate, Call, GhostTypeOK, device, ghost
<1>4. HandleAgrees'
  <2>6. ASSUME NEW g \in File \ {f}, IsOpen(g) PROVE handle[g].slot # s
    <3>1. table[handle[g].slot].name = g /\ g # NoFile
      BY <1>0, <2>6, OpenFile
    <3> QED BY <1>p3, <3>1
  <2>7. table'[s] = [name |-> f, start |-> b, blocks |-> InitialBlocks, length |-> 0]
        /\ \A r \in Slot \ {s} : table'[r] = table[r]
    BY <1>0, <1>p1, <1>p3 DEF KernelTypeOK
  <2>8. \A g \in File \ {f} : IsOpen(g) => handle[g].slot \in Slot
    BY <1>0 DEF KernelTypeOK
  <2> QED BY <1>0, <1>p5, <2>6, <2>7, <2>8 DEF HandleAgrees
<1>5. TablesSound'
  <2>6. table \in [Slot -> Entry] /\ GoodTable(table)
    BY <1>0 DEF KernelTypeOK, TablesSound
  <2>7. GoodTable(table')
    <3> DEFINE e == [name |-> f, start |-> b, blocks |-> InitialBlocks, length |-> 0]
    <3>1. e.start + e.blocks <= DataBlockCount /\ e.length <= e.blocks /\ e.name = f /\ f # NoFile
      BY <1>p2
    <3>2. e \in Entry /\ table' = [table EXCEPT ![s] = e]
      BY <1>p1, <1>p4
    <3> HIDE DEF e
    <3>3. GoodTable([table EXCEPT ![s] = e])
      BY <1>p3, <2>6, <3>1, <3>2, SetEntry
    <3> QED BY <3>2, <3>3
  <2> QED BY <1>0, <2>7 DEF OpenCreate, TablesSound, device
<1>6. DeviceSound'
  BY <1>0 DEF OpenCreate, Call, DeviceSound, Mounted, device, ghost
<1>7. NothingInRam'
  BY <1>0 DEF OpenCreate, Call, NothingInRam, Mounted, device, ghost
<1>8. CallSound'
  BY <1>0 DEF OpenCreate, Call, CallSound, KernelTypeOK, IsOpen, HandleAgrees, device, ghost
<1> QED BY <1>1, <1>2, <1>3, <1>4, <1>5, <1>6, <1>7, <1>8 DEF Structure

\* open() with a full table keeps the structure (OpenTableFull).
LEMMA OpenTableFullStructure ==
  ASSUME Structure, NEW f \in File, OpenTableFull(f)
  PROVE  Structure'
<1>0. /\ KernelTypeOK /\ DeviceTypeOK /\ GhostTypeOK /\ HandleAgrees
      /\ TablesSound /\ DeviceSound /\ NothingInRam /\ CallSound
  BY DEF Structure
<1>1. KernelTypeOK'
  <2>1. PICK b \in FirstFit(InitialBlocks) : bitmap' = bitmap \cup Run(b, InitialBlocks)
    BY DEF OpenTableFull
  <2>2. Run(b, InitialBlocks) \subseteq Block
    BY FirstFitFacts
  <2>3. bm_dirty' \in BOOLEAN
    BY Zenon DEF OpenTableFull
  <2> QED BY <1>0, <2>1, <2>2, <2>3 DEF OpenTableFull, KernelTypeOK, IsOpen
<1>2. DeviceTypeOK'
  BY <1>0 DEF OpenTableFull, Call, DeviceTypeOK, device, ghost
<1>3. GhostTypeOK'
  BY <1>0 DEF OpenTableFull, Call, GhostTypeOK, device, ghost
<1>4. HandleAgrees'
  BY <1>0 DEF OpenTableFull, Call, HandleAgrees, KernelTypeOK, IsOpen, device, ghost
<1>5. TablesSound'
  BY <1>0 DEF OpenTableFull, Call, TablesSound, GoodTable, device, ghost
<1>6. DeviceSound'
  BY <1>0 DEF OpenTableFull, Call, DeviceSound, Mounted, device, ghost
<1>7. NothingInRam'
  BY <1>0 DEF OpenTableFull, Call, NothingInRam, Mounted, device, ghost
<1>8. CallSound'
  BY <1>0 DEF OpenTableFull, Call, CallSound, KernelTypeOK, IsOpen, HandleAgrees, device, ghost
<1> QED BY <1>1, <1>2, <1>3, <1>4, <1>5, <1>6, <1>7, <1>8 DEF Structure

\* close() keeps the structure (Close).
LEMMA CloseStructure ==
  ASSUME Structure, NEW f \in File, Close(f)
  PROVE  Structure'
<1>0. /\ KernelTypeOK /\ DeviceTypeOK /\ GhostTypeOK /\ HandleAgrees
      /\ TablesSound /\ DeviceSound /\ NothingInRam /\ CallSound
  BY DEF Structure
<1>p1. /\ IsOpen(f) /\ table' = [table EXCEPT ![handle[f].slot] =
            [name |-> f, start |-> handle[f].start, blocks |-> handle[f].blocks,
             length |-> handle[f].length]]
  BY <1>0, LengthSaved DEF Close
<1>p2. /\ handle[f].start \in Nat /\ handle[f].blocks \in Nat /\ handle[f].length \in Nat
       /\ handle[f].start + handle[f].blocks <= DataBlockCount
       /\ handle[f].length <= handle[f].blocks
  BY <1>0, <1>p1, OpenFile
<1>p3. table' \in [Slot -> Entry] /\ GoodTable(table')
  BY <1>0, <1>p1, <1>p2, EntryChanged
<1>1. KernelTypeOK'
  <2>4. /\ handle' \in [File -> Handle]
        /\ \A g \in File : IsOpen(g)' => handle'[g].slot \in Slot
    BY <1>0, ValueFacts, SetHandle DEF Close
  <2>5. ft_dirty' \in BOOLEAN
    BY Zenon DEF Close
  <2> QED BY <1>0, <1>p3, <2>4, <2>5 DEF Close, KernelTypeOK, Handle
<1>2. DeviceTypeOK'
  BY <1>0 DEF Close, Call, DeviceTypeOK, device, ghost
<1>3. GhostTypeOK'
  BY <1>0 DEF Close, Call, GhostTypeOK, device, ghost
<1>4. HandleAgrees'
  BY <1>0 DEF Close, Call, HandleAgrees, KernelTypeOK, IsOpen, device, ghost
<1>5. TablesSound'
  <2> QED BY <1>0, <1>p3 DEF Close, TablesSound, device
<1>6. DeviceSound'
  BY <1>0 DEF Close, Call, DeviceSound, Mounted, device, ghost
<1>7. NothingInRam'
  BY <1>0 DEF Close, Call, NothingInRam, Mounted, device, ghost
<1>8. CallSound'
  BY <1>0 DEF Close, Call, CallSound, KernelTypeOK, IsOpen, HandleAgrees, device, ghost
<1> QED BY <1>1, <1>2, <1>3, <1>4, <1>5, <1>6, <1>7, <1>8 DEF Structure

\* The start of sync() keeps the structure (SyncCall).
LEMMA SyncCallStructure ==
  ASSUME Structure, NEW f \in File, SyncCall(f)
  PROVE  Structure'
<1>0. /\ KernelTypeOK /\ DeviceTypeOK /\ GhostTypeOK /\ HandleAgrees
      /\ TablesSound /\ DeviceSound /\ NothingInRam /\ CallSound
  BY DEF Structure
<1>p1. /\ IsOpen(f) /\ table' = [table EXCEPT ![handle[f].slot] =
            [name |-> f, start |-> handle[f].start, blocks |-> handle[f].blocks,
             length |-> handle[f].length]]
  BY <1>0, LengthSaved DEF SyncCall
<1>p2. /\ handle[f].start \in Nat /\ handle[f].blocks \in Nat /\ handle[f].length \in Nat
       /\ handle[f].start + handle[f].blocks <= DataBlockCount
       /\ handle[f].length <= handle[f].blocks
  BY <1>0, <1>p1, OpenFile
<1>p3. table' \in [Slot -> Entry] /\ GoodTable(table')
  BY <1>0, <1>p1, <1>p2, EntryChanged
<1>1. KernelTypeOK'
  <2>4. op' \in [file : File \cup {NoFile}, index : Nat, new : Nat, blk : Nat]
    BY DEF SyncCall, NoOp
  <2>5. ft_dirty' \in BOOLEAN
    BY Zenon DEF SyncCall
  <2> QED BY <1>0, <1>p3, <2>4, <2>5 DEF SyncCall, KernelTypeOK, IsOpen
<1>2. DeviceTypeOK'
  BY <1>0 DEF SyncCall, Call, NoOp, DeviceTypeOK, device, ghost
<1>3. GhostTypeOK'
  BY <1>0 DEF SyncCall, Call, NoOp, GhostTypeOK, device, ghost
<1>4. HandleAgrees'
  BY <1>0 DEF SyncCall, Call, NoOp, HandleAgrees, KernelTypeOK, IsOpen, device, ghost
<1>5. TablesSound'
  <2> QED BY <1>0, <1>p3 DEF SyncCall, TablesSound, device
<1>6. DeviceSound'
  BY <1>0 DEF SyncCall, Call, NoOp, DeviceSound, Mounted, device, ghost
<1>7. NothingInRam'
  BY <1>0 DEF SyncCall, Call, NoOp, NothingInRam, Mounted, device, ghost
<1>8. CallSound'
  BY <1>0 DEF SyncCall, Call, NoOp, CallSound, KernelTypeOK, IsOpen, HandleAgrees, device, ghost
<1> QED BY <1>1, <1>2, <1>3, <1>4, <1>5, <1>6, <1>7, <1>8 DEF Structure

\* delete() keeps the structure (Delete).
LEMMA DeleteStructure ==
  ASSUME Structure, NEW f \in File, Delete(f)
  PROVE  Structure'
<1>0. /\ KernelTypeOK /\ DeviceTypeOK /\ GhostTypeOK /\ HandleAgrees
      /\ TablesSound /\ DeviceSound /\ NothingInRam /\ CallSound
  BY DEF Structure
<1>p1. PICK s \in Lookup(f) : table' = [table EXCEPT ![s] = Empty] /\ bitmap' = bitmap \ Extent(table[s])
  BY DEF Delete
<1>p2. s \in Slot /\ table[s].name = f /\ ~IsOpen(f)
  BY DEF Lookup, Delete
<1>p3. table \in [Slot -> Entry] /\ GoodTable(table)
  BY <1>0 DEF KernelTypeOK, TablesSound
<1>p4. Empty \in Entry /\ Empty.start + Empty.blocks <= DataBlockCount /\ Empty.length <= Empty.blocks
      /\ Empty.name = NoFile /\ Empty.blocks = 0
  BY ValueFacts DEF Empty
<1>p5. /\ [table EXCEPT ![s] = Empty] \in [Slot -> Entry] /\ GoodTable([table EXCEPT ![s] = Empty])
       /\ \A r \in Slot \ {s} : [table EXCEPT ![s] = Empty][r] = table[r]
  BY <1>p2, <1>p3, <1>p4, SetEntry
<1>1. KernelTypeOK'
  <2>6. bm_dirty' \in BOOLEAN /\ ft_dirty' \in BOOLEAN
    BY Zenon DEF Delete
  <2> QED BY <1>0, <1>p1, <1>p5, <2>6 DEF Delete, KernelTypeOK, IsOpen
<1>2. DeviceTypeOK'
  BY <1>0 DEF Delete, Call, DeviceTypeOK, device
<1>3. GhostTypeOK'
  <2>0. content \in [File -> [Index -> Nat]] /\ committed \in [File -> [Index -> Nat]]
    BY <1>0 DEF GhostTypeOK
  <2>1. content' \in [File -> [Index -> Nat]] /\ committed' \in [File -> [Index -> Nat]]
    BY <2>0, CutFacts DEF Delete
  <2> QED BY <1>0, <2>1 DEF Delete, Call, GhostTypeOK
<1>4. HandleAgrees'
  <2>6. handle' = handle
    BY DEF Delete
  <2>7. ASSUME NEW g \in File, IsOpen(g) PROVE handle[g].slot \in Slot \ {s}
    <3>1. handle[g].slot \in Slot /\ table[handle[g].slot].name = g
      BY <1>0, <2>7, OpenFile
    <3> QED BY <1>p2, <2>7, <3>1
  <2>8. \A g \in File : IsOpen(g)' <=> IsOpen(g)
    BY <2>6 DEF IsOpen
  <2> QED BY <1>0, <1>p1, <1>p5, <2>6, <2>7, <2>8 DEF HandleAgrees
<1>5. TablesSound'
  <2> QED BY <1>0, <1>p1, <1>p5 DEF Delete, TablesSound, device
<1>6. DeviceSound'
  BY <1>0 DEF Delete, Call, DeviceSound, Mounted, device
<1>7. NothingInRam'
  BY <1>0 DEF Delete, Call, NothingInRam, Mounted, device
<1>8. CallSound'
  BY <1>0 DEF Delete, Call, CallSound, KernelTypeOK, IsOpen, HandleAgrees, device
<1> QED BY <1>1, <1>2, <1>3, <1>4, <1>5, <1>6, <1>7, <1>8 DEF Structure

\* The start of write() keeps the structure (WriteCall).
LEMMA WriteCallStructure ==
  ASSUME Structure, NEW f \in File, NEW k \in Index, WriteCall(f, k)
  PROVE  Structure'
<1>0. /\ KernelTypeOK /\ DeviceTypeOK /\ GhostTypeOK /\ HandleAgrees
      /\ TablesSound /\ DeviceSound /\ NothingInRam /\ CallSound
  BY DEF Structure
<1>1. KernelTypeOK'
  <2>1. op' \in [file : File \cup {NoFile}, index : Nat, new : Nat, blk : Nat]
    <3>1. op' = [file |-> f, index |-> k, new |-> 0, blk |-> 0]
      BY DEF WriteCall, NoOp
    <3>2. k \in Nat
      BY DEF Index
    <3> QED BY <3>1, <3>2
  <2> QED BY <1>0, <2>1 DEF WriteCall, KernelTypeOK, kernel, IsOpen
<1>2. DeviceTypeOK'
  BY <1>0 DEF WriteCall, Call, NoOp, DeviceTypeOK, kernel, device, ghost
<1>3. GhostTypeOK'
  BY <1>0 DEF WriteCall, Call, NoOp, GhostTypeOK, kernel, device, ghost
<1>4. HandleAgrees'
  BY <1>0 DEF WriteCall, Call, NoOp, HandleAgrees, KernelTypeOK, IsOpen, kernel, device, ghost
<1>5. TablesSound'
  BY <1>0 DEF WriteCall, Call, NoOp, TablesSound, GoodTable, kernel, device, ghost
<1>6. DeviceSound'
  BY <1>0 DEF WriteCall, Call, NoOp, DeviceSound, Mounted, kernel, device, ghost
<1>7. NothingInRam'
  BY <1>0 DEF WriteCall, Call, NoOp, NothingInRam, Mounted, kernel, device, ghost
<1>8. CallSound'
  <2>1. op'.file = f /\ op'.index = k /\ pc' = "write" /\ handle' = handle /\ IsOpen(f)
    BY DEF WriteCall, NoOp, kernel
  <2>2. handle[f].blocks \in Nat /\ k \in Nat /\ k + 1 <= handle[f].blocks
    <3>1. handle[f].blocks \in Nat
      BY <1>0, <2>1, OpenFile
    <3> QED BY <3>1 DEF WriteCall, Index
  <2> QED BY <2>1, <2>2 DEF CallSound, IsOpen
<1> QED BY <1>1, <1>2, <1>3, <1>4, <1>5, <1>6, <1>7, <1>8 DEF Structure

\* The start of a growth keeps the structure (GrowCall).
LEMMA GrowCallStructure ==
  ASSUME Structure, NEW f \in File, NEW k \in Index, GrowCall(f, k)
  PROVE  Structure'
<1>0. /\ KernelTypeOK /\ DeviceTypeOK /\ GhostTypeOK /\ HandleAgrees
      /\ TablesSound /\ DeviceSound /\ NothingInRam /\ CallSound
  BY DEF Structure
<1>p1. PICK b \in FirstFit(k + 1) :
        bitmap' = bitmap \cup Run(b, k + 1) /\ op' = [file |-> f, index |-> k, new |-> b, blk |-> 0]
  BY DEF GrowCall
<1>p2. k \in Nat /\ k + 1 \in Nat
  BY DEF Index
<1>p3. b \in Nat /\ b + (k + 1) <= DataBlockCount /\ Run(b, k + 1) \subseteq Block
  BY <1>p2, FirstFitFacts
<1>1. KernelTypeOK'
  <2>4. op' \in [file : File \cup {NoFile}, index : Nat, new : Nat, blk : Nat]
    BY <1>p1, <1>p2, <1>p3
  <2>5. bm_dirty' \in BOOLEAN
    BY Zenon DEF GrowCall
  <2> QED BY <1>0, <1>p1, <1>p3, <2>4, <2>5 DEF GrowCall, KernelTypeOK, IsOpen
<1>2. DeviceTypeOK'
  BY <1>0 DEF GrowCall, Call, DeviceTypeOK, device, ghost
<1>3. GhostTypeOK'
  BY <1>0 DEF GrowCall, Call, GhostTypeOK, device, ghost
<1>4. HandleAgrees'
  BY <1>0 DEF GrowCall, Call, HandleAgrees, KernelTypeOK, IsOpen, device, ghost
<1>5. TablesSound'
  BY <1>0 DEF GrowCall, Call, TablesSound, GoodTable, device, ghost
<1>6. DeviceSound'
  BY <1>0 DEF GrowCall, Call, DeviceSound, Mounted, device, ghost
<1>7. NothingInRam'
  BY <1>0 DEF GrowCall, Call, NothingInRam, Mounted, device, ghost
<1>8. CallSound'
  <2>4. /\ op'.file = f /\ op'.index = k /\ op'.new = b /\ op'.blk = 0
        /\ pc' = "grow" /\ handle' = handle /\ IsOpen(f)
    BY <1>p1 DEF GrowCall
  <2>5. handle[f].blocks \in Nat /\ k + 1 > handle[f].blocks
    BY <1>0, <2>4, OpenFile DEF GrowCall
  <2> QED BY <1>p2, <1>p3, <2>4, <2>5 DEF CallSound, IsOpen
<1> QED BY <1>1, <1>2, <1>3, <1>4, <1>5, <1>6, <1>7, <1>8 DEF Structure

\* truncate() keeps the structure (Truncate).
LEMMA TruncateStructure ==
  ASSUME Structure, NEW f \in File, NEW n \in 0 .. MaxLength, Truncate(f, n)
  PROVE  Structure'
<1>0. /\ KernelTypeOK /\ DeviceTypeOK /\ GhostTypeOK /\ HandleAgrees
      /\ TablesSound /\ DeviceSound /\ NothingInRam /\ CallSound
  BY DEF Structure
<1>p0. /\ IsOpen(f) /\ handle[f].slot \in Slot /\ handle[f].start \in Nat
       /\ handle[f].blocks \in Nat /\ handle[f].length \in Nat
       /\ handle[f].length <= handle[f].blocks /\ n <= handle[f].length
       /\ handle[f].start + handle[f].blocks <= DataBlockCount
  <2>1. IsOpen(f)
    BY DEF Truncate
  <2>2. /\ handle[f].slot \in Slot /\ handle[f].start \in Nat
        /\ handle[f].blocks \in Nat /\ handle[f].length \in Nat
        /\ handle[f].length <= handle[f].blocks
        /\ handle[f].start + handle[f].blocks <= DataBlockCount
    BY <1>0, <2>1, OpenFile
  <2> QED BY <2>1, <2>2 DEF Truncate
<1>p1. PICK m \in Nat :
        /\ n <= m /\ m <= handle[f].blocks
        /\ handle' = [handle EXCEPT ![f] = [slot |-> handle[f].slot, start |-> handle[f].start,
                                            blocks |-> m, length |-> n]]
        /\ \/ /\ table' = [table EXCEPT ![handle[f].slot] =
                    [name |-> f, start |-> handle[f].start, blocks |-> m, length |-> n]]
              /\ bitmap' = bitmap \ Excess(handle[f], m) /\ m < handle[f].blocks
              /\ bm_dirty' = TRUE /\ ft_dirty' = TRUE
           \/ m = handle[f].blocks /\ UNCHANGED <<bitmap, bm_dirty, table, ft_dirty>>
  BY <1>0, TruncateFacts
<1>1. KernelTypeOK'
  <2>2. [slot |-> handle[f].slot, start |-> handle[f].start, blocks |-> m, length |-> n] \in Handle
    BY <1>p0, <1>p1 DEF Handle, Slot
  <2>3. /\ handle' \in [File -> Handle]
        /\ \A g \in File : IsOpen(g)' => handle'[g].slot \in Slot
    BY <1>0, <1>p0, <1>p1, <2>2, SetHandle
  <2>4. table' \in [Slot -> Entry]
    <3>1. CASE UNCHANGED table
      BY <1>0, <3>1 DEF KernelTypeOK
    <3>2. CASE table' = [table EXCEPT ![handle[f].slot] =
                      [name |-> f, start |-> handle[f].start, blocks |-> m, length |-> n]]
      <4>1. handle[f].start + m <= DataBlockCount /\ n \in Nat
        BY <1>p0, <1>p1
      <4> QED BY <1>0, <1>p0, <1>p1, <3>2, <4>1, EntryChanged
    <3> QED BY <1>p1, <3>1, <3>2
  <2>5. bm_dirty' \in BOOLEAN /\ ft_dirty' \in BOOLEAN
    BY <1>0, <1>p1, Zenon DEF KernelTypeOK
  <2>6. bitmap' \subseteq Block
    BY <1>0, <1>p1 DEF KernelTypeOK
  <2>7. pc' = pc /\ op' = op
    BY DEF Truncate
  <2> QED BY <1>0, <2>3, <2>4, <2>5, <2>6, <2>7 DEF KernelTypeOK, Handle
<1>2. DeviceTypeOK'
  BY <1>0 DEF Truncate, Call, DeviceTypeOK, device
<1>3. GhostTypeOK'
  <2>0. content \in [File -> [Index -> Nat]] /\ committed \in [File -> [Index -> Nat]] /\ n \in Nat
    BY <1>0 DEF GhostTypeOK
  <2>1. content' \in [File -> [Index -> Nat]] /\ committed' \in [File -> [Index -> Nat]]
    BY <2>0, CutFacts DEF Truncate
  <2> QED BY <1>0, <2>1 DEF Truncate, Call, GhostTypeOK
<1>4. HandleAgrees'
  <2>2. [slot |-> handle[f].slot, start |-> handle[f].start, blocks |-> m, length |-> n] \in Handle
    BY <1>p0, <1>p1 DEF Handle, Slot
  <2>3. /\ handle'[f] = [slot |-> handle[f].slot, start |-> handle[f].start, blocks |-> m, length |-> n]
        /\ \A g \in File \ {f} : handle'[g] = handle[g] /\ (IsOpen(g)' <=> IsOpen(g))
    BY <1>0, <1>p0, <1>p1, <2>2, SetHandle
  <2>4. /\ table'[handle[f].slot].name = f /\ table'[handle[f].slot].start = handle[f].start
        /\ table'[handle[f].slot].blocks = m
        /\ \A r \in Slot \ {handle[f].slot} : table'[r] = table[r]
    <3>1. CASE UNCHANGED table /\ m = handle[f].blocks
      BY <1>0, <1>p0, <3>1 DEF HandleAgrees
    <3>2. CASE table' = [table EXCEPT ![handle[f].slot] =
                      [name |-> f, start |-> handle[f].start, blocks |-> m, length |-> n]]
      BY <1>0, <1>p0, <3>2 DEF KernelTypeOK
    <3> QED BY <1>p1, <3>1, <3>2
  <2>5. ASSUME NEW g \in File \ {f}, IsOpen(g) PROVE handle[g].slot \in Slot \ {handle[f].slot}
    BY <1>0, <1>p0, <2>5 DEF HandleAgrees, KernelTypeOK
  <2>6. ASSUME NEW g \in File, IsOpen(g)'
        PROVE  LET h == handle'[g]  e == table'[h.slot]
               IN e.name = g /\ e.start = h.start /\ e.blocks = h.blocks /\ h.length <= h.blocks
    <3>1. CASE g = f
      BY <1>p1, <2>3, <2>4, <3>1
    <3>2. CASE g # f
      BY <1>0, <2>3, <2>4, <2>5, <2>6, <3>2 DEF HandleAgrees
    <3> QED BY <3>1, <3>2
  <2> QED BY <2>6 DEF HandleAgrees
<1>5. TablesSound'
  <2>2. GoodTable(table')
    <3>1. CASE UNCHANGED table
      BY <1>0, <3>1 DEF TablesSound
    <3>2. CASE table' = [table EXCEPT ![handle[f].slot] =
                      [name |-> f, start |-> handle[f].start, blocks |-> m, length |-> n]]
      <4>1. handle[f].start + m <= DataBlockCount /\ n \in Nat
        BY <1>p0, <1>p1
      <4> QED BY <1>0, <1>p0, <1>p1, <3>2, <4>1, EntryChanged
    <3> QED BY <1>p1, <3>1, <3>2
  <2> QED BY <1>0, <2>2 DEF Truncate, TablesSound, device
<1>6. DeviceSound'
  <2>2. UNCHANGED <<cached, medium, pc>> /\ (ft_dirty' \/ UNCHANGED <<table, ft_dirty>>) /\ pc = "idle"
    BY <1>p1 DEF Truncate, device, Call
  <2> QED BY <1>0, <2>2 DEF DeviceSound, Mounted
<1>7. NothingInRam'
  BY <1>0 DEF Truncate, Call, NothingInRam, Mounted, device
<1>8. CallSound'
  BY <1>0 DEF Truncate, Call, CallSound, KernelTypeOK, IsOpen, HandleAgrees, device
<1> QED BY <1>1, <1>2, <1>3, <1>4, <1>5, <1>6, <1>7, <1>8 DEF Structure

\* A copied block keeps the structure (CopyBlock).
LEMMA CopyBlockStructure ==
  ASSUME Structure, CopyBlock
  PROVE  Structure'
<1>0. /\ KernelTypeOK /\ DeviceTypeOK /\ GhostTypeOK /\ HandleAgrees
      /\ TablesSound /\ DeviceSound /\ NothingInRam /\ CallSound
  BY DEF Structure
<1>1. KernelTypeOK'
  <2>1. op' \in [file : File \cup {NoFile}, index : Nat, new : Nat, blk : Nat]
    BY <1>0 DEF CopyBlock, KernelTypeOK
  <2> QED BY <1>0, <2>1 DEF CopyBlock, KernelTypeOK, kernel, IsOpen
<1>2. DeviceTypeOK' /\ TablesSound' /\ DeviceSound'
  <2>1. /\ op.file \in File /\ IsOpen(op.file) /\ op.index \in Nat /\ op.new \in Nat /\ op.blk \in Nat
        /\ op.new + op.index + 1 <= DataBlockCount /\ handle[op.file].blocks <= op.index
        /\ op.blk < handle[op.file].blocks
    BY <1>0 DEF CopyBlock, CallSound, KernelTypeOK
  <2>2. /\ handle[op.file].start \in Nat /\ handle[op.file].blocks \in Nat
        /\ handle[op.file].start + handle[op.file].blocks <= DataBlockCount
    BY <1>0, <2>1, OpenFile
  <2>3. op.new + op.blk \in Block /\ CopyFrom(handle[op.file]) \in Block
    BY <2>1, <2>2 DEF Block, CopyFrom
  <2>4. cached.data[CopyFrom(handle[op.file])] \in Nat
    BY <1>0, <2>3, DeviceParts
  <2>5. DeviceWrite([cached EXCEPT !.data[op.new + op.blk] = cached.data[CopyFrom(handle[op.file])]])
    BY DEF CopyBlock
  <2>6. Mounted /\ pc' \in {"idle", "grow", "write"} /\ UNCHANGED <<table, ft_dirty>>
    BY DEF CopyBlock, Mounted, kernel
  <2> QED BY <1>0, <2>3, <2>4, <2>5, <2>6, DataWritten
<1>3. GhostTypeOK'
  BY <1>0 DEF CopyBlock, GhostTypeOK, kernel, ghost
<1>4. HandleAgrees'
  BY <1>0 DEF CopyBlock, HandleAgrees, KernelTypeOK, IsOpen, kernel, ghost
<1>5. NothingInRam'
  BY <1>0 DEF CopyBlock, NothingInRam, Mounted, kernel, ghost
<1>6. CallSound'
  BY <1>0 DEF CopyBlock, CallSound, KernelTypeOK, IsOpen, HandleAgrees, kernel, ghost
<1> QED BY <1>1, <1>2, <1>3, <1>4, <1>5, <1>6 DEF Structure

\* A failed growth keeps the structure (GrowFail).
LEMMA GrowFailStructure ==
  ASSUME Structure, GrowFail
  PROVE  Structure'
<1>0. /\ KernelTypeOK /\ DeviceTypeOK /\ GhostTypeOK /\ HandleAgrees
      /\ TablesSound /\ DeviceSound /\ NothingInRam /\ CallSound
  BY DEF Structure
<1>1. KernelTypeOK'
  <2>1. bm_dirty' \in BOOLEAN
    BY Zenon DEF GrowFail
  <2> QED BY <1>0, <2>1, ValueFacts DEF GrowFail, UndoGrow, KernelTypeOK, IsOpen
<1>2. DeviceTypeOK'
  BY <1>0 DEF GrowFail, NoOp, DeviceTypeOK, device, ghost
<1>3. GhostTypeOK'
  BY <1>0 DEF GrowFail, NoOp, GhostTypeOK, device, ghost
<1>4. HandleAgrees'
  BY <1>0 DEF GrowFail, NoOp, HandleAgrees, KernelTypeOK, IsOpen, device, ghost
<1>5. TablesSound'
  BY <1>0 DEF GrowFail, NoOp, TablesSound, GoodTable, device, ghost
<1>6. DeviceSound'
  BY <1>0 DEF GrowFail, NoOp, DeviceSound, Mounted, device, ghost
<1>7. NothingInRam'
  BY <1>0 DEF GrowFail, NoOp, NothingInRam, Mounted, device, ghost
<1>8. CallSound'
  BY <1>0 DEF GrowFail, NoOp, CallSound, KernelTypeOK, IsOpen, HandleAgrees, device, ghost
<1> QED BY <1>1, <1>2, <1>3, <1>4, <1>5, <1>6, <1>7, <1>8 DEF Structure

\* The end of a growth keeps the structure (GrowCommit).
LEMMA GrowCommitStructure ==
  ASSUME Structure, GrowCommit
  PROVE  Structure'
<1>0. /\ KernelTypeOK /\ DeviceTypeOK /\ GhostTypeOK /\ HandleAgrees
      /\ TablesSound /\ DeviceSound /\ NothingInRam /\ CallSound
  BY DEF Structure
<1>p0. /\ op.file \in File /\ IsOpen(op.file) /\ op.index + 1 \in Nat /\ op.new \in Nat
       /\ op.new + (op.index + 1) <= DataBlockCount /\ handle[op.file].blocks <= op.index + 1
       /\ handle[op.file].slot \in Slot /\ handle[op.file].length \in Nat
       /\ handle[op.file].length <= op.index + 1
       /\ table[handle[op.file].slot].length \in Nat
       /\ table[handle[op.file].slot].length <= op.index + 1
       /\ handle' = [handle EXCEPT ![op.file] = [slot |-> handle[op.file].slot, start |-> op.new,
                       blocks |-> op.index + 1, length |-> handle[op.file].length]]
       /\ table' = [table EXCEPT ![handle[op.file].slot] = [name |-> op.file, start |-> op.new,
                       blocks |-> op.index + 1, length |-> table[handle[op.file].slot].length]]
  BY <1>0, GrowCommitFacts
<1>1. KernelTypeOK'
  <2>2. [slot |-> handle[op.file].slot, start |-> op.new,
                        blocks |-> op.index + 1, length |-> handle[op.file].length] \in Handle
    BY <1>p0 DEF Handle, Slot
  <2>3. /\ handle' \in [File -> Handle]
        /\ \A g \in File : IsOpen(g)' => handle'[g].slot \in Slot
    BY <1>0, <1>p0, <2>2, SetHandle
  <2>4. table' \in [Slot -> Entry]
    BY <1>0, <1>p0, EntryChanged
  <2>5. bm_dirty' \in BOOLEAN /\ ft_dirty' \in BOOLEAN
    BY Zenon DEF GrowCommit
  <2>6. bitmap' \subseteq Block /\ pc' = "write" /\ op' = op
    BY <1>0 DEF KernelTypeOK, GrowCommit
  <2> QED BY <1>0, <2>3, <2>4, <2>5, <2>6 DEF KernelTypeOK, Handle
<1>2. DeviceTypeOK'
  BY <1>0, OnlyLeft DEF GrowCommit, Barrier, DeviceTypeOK
<1>3. GhostTypeOK'
  BY <1>0 DEF GrowCommit, Barrier, OldRun, GhostTypeOK
<1>4. HandleAgrees'
  <2>2. [slot |-> handle[op.file].slot, start |-> op.new,
                        blocks |-> op.index + 1, length |-> handle[op.file].length] \in Handle
    BY <1>p0 DEF Handle, Slot
  <2>3. /\ handle'[op.file] = [slot |-> handle[op.file].slot, start |-> op.new,
                        blocks |-> op.index + 1, length |-> handle[op.file].length]
        /\ \A g \in File \ {op.file} : handle'[g] = handle[g] /\ (IsOpen(g)' <=> IsOpen(g))
    BY <1>0, <1>p0, <2>2, SetHandle
  <2>4. /\ table'[handle[op.file].slot] = [name |-> op.file, start |-> op.new,
                        blocks |-> op.index + 1, length |-> table[handle[op.file].slot].length]
        /\ \A r \in Slot \ {handle[op.file].slot} : table'[r] = table[r]
    BY <1>0, <1>p0, EntryChanged
  <2>5. ASSUME NEW g \in File \ {op.file}, IsOpen(g)
        PROVE  handle[g].slot \in Slot \ {handle[op.file].slot}
    BY <1>0, <1>p0, <2>5 DEF HandleAgrees, KernelTypeOK
  <2>6. ASSUME NEW g \in File, IsOpen(g)'
        PROVE  LET h == handle'[g]  e == table'[h.slot]
               IN e.name = g /\ e.start = h.start /\ e.blocks = h.blocks /\ h.length <= h.blocks
    <3>1. CASE g = op.file
      BY <1>p0, <2>3, <2>4, <3>1
    <3>2. CASE g # op.file
      BY <1>0, <2>3, <2>4, <2>5, <2>6, <3>2 DEF HandleAgrees
    <3> QED BY <3>1, <3>2
  <2> QED BY <2>6 DEF HandleAgrees
<1>5. TablesSound'
  <2>1. GoodTable(table')
    BY <1>0, <1>p0, EntryChanged
  <2>2. medium'.ft = {cached.ft}
    BY <1>0, OnlyLeft DEF GrowCommit, Barrier, DeviceTypeOK
  <2> QED BY <1>0, <2>1, <2>2 DEF TablesSound, DeviceSound
<1>6. DeviceSound'
  <2>1. /\ medium'.sb = {cached'.sb} /\ medium'.bm = {cached'.bm} /\ medium'.ft = {cached'.ft}
        /\ \A b \in Block : medium'.data[b] = {cached'.data[b]}
    BY <1>0, OnlyLeft DEF GrowCommit, Barrier, DeviceTypeOK
  <2>2. cached' = cached /\ cached.sb = "valid" /\ pc' = "write" /\ ft_dirty'
    BY <1>0 DEF GrowCommit, DeviceSound
  <2> QED BY <2>1, <2>2 DEF DeviceSound, Mounted
<1>7. NothingInRam'
  BY <1>0 DEF GrowCommit, Barrier, OldRun, NothingInRam, Mounted
<1>8. CallSound'
  <2>1. [slot |-> handle[op.file].slot, start |-> op.new,
                        blocks |-> op.index + 1, length |-> handle[op.file].length] \in Handle
    BY <1>p0 DEF Handle, Slot
  <2>2. /\ handle'[op.file].blocks = op.index + 1 /\ handle'[op.file].slot \in Slot
    BY <1>0, <1>p0, <2>1, SetHandle
  <2>3. op' = op /\ pc' = "write" /\ op.index \in Index /\ op.index \in Nat
    BY <1>0 DEF GrowCommit, CallSound, KernelTypeOK
  <2>4. IsOpen(op.file)'
    BY <2>2, <2>3 DEF IsOpen, Closed, Slot
  <2> QED BY <1>p0, <2>2, <2>3, <2>4 DEF CallSound
<1> QED BY <1>1, <1>2, <1>3, <1>4, <1>5, <1>6, <1>7, <1>8 DEF Structure

\* A written block keeps the structure (WriteBlock).
LEMMA WriteBlockStructure ==
  ASSUME Structure, WriteBlock
  PROVE  Structure'
<1>0. /\ KernelTypeOK /\ DeviceTypeOK /\ GhostTypeOK /\ HandleAgrees
      /\ TablesSound /\ DeviceSound /\ NothingInRam /\ CallSound
  BY DEF Structure
<1>p0. /\ op.file \in File /\ IsOpen(op.file) /\ op.index \in Index
       /\ op.index < handle[op.file].blocks
  BY <1>0 DEF WriteBlock, CallSound
<1>p1. /\ handle[op.file].start \in Nat /\ handle[op.file].blocks \in Nat
       /\ handle[op.file].start + handle[op.file].blocks <= DataBlockCount
  BY <1>0, <1>p0, OpenFile
<1>p2. handle[op.file].start + op.index \in Block
  BY <1>p0, <1>p1 DEF Block, Index
<1>p3. calls \in Nat
  BY <1>0 DEF GhostTypeOK
<1>p4. PICK l \in Nat :
        /\ l <= handle[op.file].blocks
        /\ handle' = [handle EXCEPT ![op.file] = [slot |-> handle[op.file].slot,
             start |-> handle[op.file].start, blocks |-> handle[op.file].blocks, length |-> l]]
  BY <1>0, WriteBlockFacts
<1>p5. [slot |-> handle[op.file].slot, start |-> handle[op.file].start,
       blocks |-> handle[op.file].blocks, length |-> l] \in Handle
      /\ handle[op.file].slot \in Slot
  BY <1>0, <1>p0, <1>p1 DEF Handle, KernelTypeOK, Slot
<1>1. KernelTypeOK'
  <2>6. /\ handle' \in [File -> Handle]
        /\ \A g \in File : IsOpen(g)' => handle'[g].slot \in Slot
    BY <1>0, <1>p0, <1>p4, <1>p5, SetHandle
  <2> QED BY <1>0, <2>6, ValueFacts DEF WriteBlock, KernelTypeOK, Handle
<1>2. DeviceTypeOK' /\ TablesSound' /\ DeviceSound'
  <2>0. /\ op.file \in File /\ IsOpen(op.file) /\ op.index \in Index
        /\ op.index < handle[op.file].blocks
    BY <1>0 DEF WriteBlock, CallSound
  <2>1. /\ handle[op.file].start \in Nat /\ handle[op.file].blocks \in Nat
        /\ handle[op.file].start + handle[op.file].blocks <= DataBlockCount
    BY <1>0, <2>0, OpenFile
  <2>2. handle[op.file].start + op.index \in Block
    BY <2>0, <2>1 DEF Block, Index
  <2>3. calls \in Nat
    BY <1>0 DEF GhostTypeOK
  <2>4. /\ DeviceWrite([cached EXCEPT !.data[handle[op.file].start + op.index] = calls])
        /\ Mounted /\ pc' \in {"idle", "grow", "write"} /\ UNCHANGED <<table, ft_dirty>>
    BY DEF WriteBlock, Mounted
  <2> QED BY <1>0, <2>2, <2>3, <2>4, DataWritten
<1>3. GhostTypeOK'
  <2>1. op.file \in File /\ op.index \in Index /\ calls \in Nat /\ 0 \in Nat
    BY <1>0 DEF WriteBlock, CallSound, GhostTypeOK
  <2>2. (IF clean THEN calls ELSE 0) \in Nat
    BY <2>1
  <2>3. content' \in [File -> [Index -> Nat]] /\ committed' \in [File -> [Index -> Nat]]
    BY <1>0, <2>1, <2>2 DEF WriteBlock, GhostTypeOK
  <2> QED BY <1>0, <2>3 DEF WriteBlock, GhostTypeOK
<1>4. HandleAgrees'
  <2>6. /\ handle'[op.file] = [slot |-> handle[op.file].slot, start |-> handle[op.file].start,
              blocks |-> handle[op.file].blocks, length |-> l]
        /\ \A g \in File \ {op.file} : handle'[g] = handle[g] /\ (IsOpen(g)' <=> IsOpen(g))
    BY <1>0, <1>p0, <1>p4, <1>p5, SetHandle
  <2>7. table' = table
    BY DEF WriteBlock
  <2> QED BY <1>0, <1>p0, <1>p4, <2>6, <2>7 DEF HandleAgrees
<1>5. NothingInRam'
  BY <1>0 DEF WriteBlock, NoOp, NothingInRam, Mounted
<1>6. CallSound'
  BY <1>0 DEF WriteBlock, NoOp, CallSound, KernelTypeOK, IsOpen, HandleAgrees
<1> QED BY <1>1, <1>2, <1>3, <1>4, <1>5, <1>6 DEF Structure

\* A failed write keeps the structure (WriteFail).
LEMMA WriteFailStructure ==
  ASSUME Structure, WriteFail
  PROVE  Structure'
<1>0. /\ KernelTypeOK /\ DeviceTypeOK /\ GhostTypeOK /\ HandleAgrees
      /\ TablesSound /\ DeviceSound /\ NothingInRam /\ CallSound
  BY DEF Structure
<1>1. KernelTypeOK'
  BY <1>0, ValueFacts DEF WriteFail, KernelTypeOK, kernel, IsOpen
<1>2. DeviceTypeOK' /\ TablesSound' /\ DeviceSound'
  <2>0. /\ op.file \in File /\ IsOpen(op.file) /\ op.index \in Index
        /\ op.index < handle[op.file].blocks
    BY <1>0 DEF WriteFail, CallSound
  <2>1. /\ handle[op.file].start \in Nat /\ handle[op.file].blocks \in Nat
        /\ handle[op.file].start + handle[op.file].blocks <= DataBlockCount
    BY <1>0, <2>0, OpenFile
  <2>2. handle[op.file].start + op.index \in Block
    BY <2>0, <2>1 DEF Block, Index
  <2>3. calls \in Nat
    BY <1>0 DEF GhostTypeOK
  <2>4. Mounted /\ pc' = "idle" /\ UNCHANGED <<table, ft_dirty>>
    BY DEF WriteFail, Mounted, kernel
  <2>5. CASE UNCHANGED device
    BY <1>0, <2>4, <2>5 DEF device, DeviceTypeOK, TablesSound, DeviceSound, Mounted
  <2>6. CASE DeviceWrite([cached EXCEPT !.data[handle[op.file].start + op.index] = calls])
    BY <1>0, <2>2, <2>3, <2>4, <2>6, DataWritten
  <2> QED BY <2>5, <2>6 DEF WriteFail
<1>3. GhostTypeOK'
  BY <1>0 DEF WriteFail, NoOp, GhostTypeOK, kernel, device
<1>4. HandleAgrees'
  BY <1>0 DEF WriteFail, NoOp, HandleAgrees, KernelTypeOK, IsOpen, kernel, device
<1>5. NothingInRam'
  BY <1>0 DEF WriteFail, NoOp, NothingInRam, Mounted, kernel, device
<1>6. CallSound'
  BY <1>0 DEF WriteFail, NoOp, CallSound, KernelTypeOK, IsOpen, HandleAgrees, kernel, device
<1> QED BY <1>1, <1>2, <1>3, <1>4, <1>5, <1>6 DEF Structure

\* sync()'s first write keeps the structure (SyncBitmap).
LEMMA SyncBitmapStructure ==
  ASSUME Structure, SyncBitmap
  PROVE  Structure'
<1>0. /\ KernelTypeOK /\ DeviceTypeOK /\ GhostTypeOK /\ HandleAgrees
      /\ TablesSound /\ DeviceSound /\ NothingInRam /\ CallSound
  BY DEF Structure
<1>1. KernelTypeOK'
  <2>1. bm_dirty' \in BOOLEAN
    BY Zenon DEF SyncBitmap
  <2> QED BY <1>0, <2>1 DEF SyncBitmap, KernelTypeOK, IsOpen
<1>2. DeviceTypeOK' /\ TablesSound' /\ DeviceSound'
  <2>1. Mounted /\ pc' = "sync_ft" /\ UNCHANGED <<table, ft_dirty>> /\ bitmap \subseteq Block
    BY <1>0 DEF SyncBitmap, Mounted, KernelTypeOK
  <2>2. CASE UNCHANGED device
    BY <1>0, <2>1, <2>2 DEF device, DeviceTypeOK, TablesSound, DeviceSound, Mounted
  <2>3. CASE DeviceWrite(SavedBitmap)
    BY <1>0, <2>1, <2>3, BitmapWritten
  <2> QED BY <2>2, <2>3 DEF SyncBitmap
<1>3. GhostTypeOK'
  BY <1>0 DEF SyncBitmap, SavedBitmap, GhostTypeOK, device, ghost
<1>4. HandleAgrees'
  BY <1>0 DEF SyncBitmap, SavedBitmap, HandleAgrees, KernelTypeOK, IsOpen, device, ghost
<1>5. NothingInRam'
  BY <1>0 DEF SyncBitmap, SavedBitmap, NothingInRam, Mounted, device, ghost
<1>6. CallSound'
  BY <1>0 DEF SyncBitmap, SavedBitmap, CallSound, KernelTypeOK, IsOpen, HandleAgrees, device, ghost
<1> QED BY <1>1, <1>2, <1>3, <1>4, <1>5, <1>6 DEF Structure

\* sync()'s second write keeps the structure (SyncTable).
LEMMA SyncTableStructure ==
  ASSUME Structure, SyncTable
  PROVE  Structure'
<1>0. /\ KernelTypeOK /\ DeviceTypeOK /\ GhostTypeOK /\ HandleAgrees
      /\ TablesSound /\ DeviceSound /\ NothingInRam /\ CallSound
  BY DEF Structure
<1>1. KernelTypeOK'
  <2>1. ft_dirty' \in BOOLEAN
    BY Zenon DEF SyncTable
  <2> QED BY <1>0, <2>1 DEF SyncTable, KernelTypeOK, IsOpen
<1>2. DeviceTypeOK' /\ TablesSound' /\ DeviceSound'
  <2>1. Mounted /\ pc' = "sync_flush" /\ UNCHANGED table /\ ft_dirty' = FALSE
    BY DEF SyncTable, Mounted
  <2>2. CASE ~ft_dirty /\ UNCHANGED device
    BY <1>0, <2>1, <2>2 DEF device, DeviceTypeOK, TablesSound, DeviceSound, Mounted
  <2>3. CASE DeviceWrite(SavedTable)
    BY <1>0, <2>1, <2>3, TableWritten
  <2> QED BY <2>2, <2>3 DEF SyncTable
<1>3. GhostTypeOK'
  BY <1>0 DEF SyncTable, SavedTable, GhostTypeOK, device, ghost
<1>4. HandleAgrees'
  BY <1>0 DEF SyncTable, SavedTable, HandleAgrees, KernelTypeOK, IsOpen, device, ghost
<1>5. NothingInRam'
  BY <1>0 DEF SyncTable, SavedTable, NothingInRam, Mounted, device, ghost
<1>6. CallSound'
  BY <1>0 DEF SyncTable, SavedTable, CallSound, KernelTypeOK, IsOpen, HandleAgrees, device, ghost
<1> QED BY <1>1, <1>2, <1>3, <1>4, <1>5, <1>6 DEF Structure

\* The end of sync() keeps the structure (SyncFlush).
LEMMA SyncFlushStructure ==
  ASSUME Structure, SyncFlush
  PROVE  Structure'
<1>0. /\ KernelTypeOK /\ DeviceTypeOK /\ GhostTypeOK /\ HandleAgrees
      /\ TablesSound /\ DeviceSound /\ NothingInRam /\ CallSound
  BY DEF Structure
<1>p1. /\ medium'.sb = {cached'.sb} /\ medium'.bm = {cached'.bm} /\ medium'.ft = {cached'.ft}
       /\ \A b \in Block : medium'.data[b] = {cached'.data[b]}
  BY <1>0, OnlyLeft DEF SyncFlush, Flushed, Barrier, DeviceTypeOK
<1>1. KernelTypeOK'
  BY <1>0, ValueFacts DEF SyncFlush, KernelTypeOK, kernel, IsOpen
<1>2. DeviceTypeOK'
  BY <1>0, OnlyLeft DEF SyncFlush, Flushed, Barrier, DeviceTypeOK
<1>3. GhostTypeOK'
  BY <1>0 DEF SyncFlush, Flushed, Barrier, NoOp, GhostTypeOK, kernel
<1>4. HandleAgrees'
  BY <1>0 DEF SyncFlush, Flushed, Barrier, NoOp, HandleAgrees, KernelTypeOK, IsOpen, kernel
<1>5. TablesSound'
  <2> QED BY <1>0, <1>p1 DEF SyncFlush, TablesSound, DeviceSound, kernel
<1>6. DeviceSound'
  <2>2. /\ cached' = cached /\ cached.sb = "valid" /\ pc' = "idle"
        /\ UNCHANGED <<table, ft_dirty>> /\ (~ft_dirty => cached.ft = table)
    BY <1>0 DEF SyncFlush, DeviceSound, Mounted, kernel
  <2> QED BY <1>p1, <2>2 DEF DeviceSound, Mounted
<1>7. NothingInRam'
  BY <1>0 DEF SyncFlush, Flushed, Barrier, NoOp, NothingInRam, Mounted, kernel
<1>8. CallSound'
  BY <1>0 DEF SyncFlush, Flushed, Barrier, NoOp, CallSound, KernelTypeOK, IsOpen, HandleAgrees,
     kernel
<1> QED BY <1>1, <1>2, <1>3, <1>4, <1>5, <1>6, <1>7, <1>8 DEF Structure

\* A failed sync() keeps the structure (SyncFail).
LEMMA SyncFailStructure ==
  ASSUME Structure, SyncFail
  PROVE  Structure'
<1>0. /\ KernelTypeOK /\ DeviceTypeOK /\ GhostTypeOK /\ HandleAgrees
      /\ TablesSound /\ DeviceSound /\ NothingInRam /\ CallSound
  BY DEF Structure
<1>1. KernelTypeOK'
  BY <1>0, ValueFacts DEF SyncFail, KernelTypeOK, kernel, IsOpen
<1>2. DeviceTypeOK' /\ TablesSound' /\ DeviceSound'
  <2>1. Mounted /\ pc' = "idle" /\ UNCHANGED <<table, ft_dirty>> /\ bitmap \subseteq Block
    BY <1>0 DEF SyncFail, Mounted, kernel, KernelTypeOK
  <2>2. CASE UNCHANGED device
    BY <1>0, <2>1, <2>2 DEF device, DeviceTypeOK, TablesSound, DeviceSound, Mounted
  <2>3. CASE DeviceWrite(SavedBitmap)
    BY <1>0, <2>1, <2>3, BitmapWritten
  <2>4. CASE DeviceWrite(SavedTable)
    BY <1>0, <2>1, <2>4, TableWritten
  <2> QED BY <2>2, <2>3, <2>4 DEF SyncFail
<1>3. GhostTypeOK'
  BY <1>0 DEF SyncFail, SavedBitmap, SavedTable, NoOp, GhostTypeOK, kernel, device, ghost
<1>4. HandleAgrees'
  BY <1>0 DEF SyncFail, SavedBitmap, SavedTable, NoOp, HandleAgrees, KernelTypeOK, IsOpen, kernel,
     device, ghost
<1>5. NothingInRam'
  BY <1>0 DEF SyncFail, SavedBitmap, SavedTable, NoOp, NothingInRam, Mounted, kernel, device, ghost
<1>6. CallSound'
  BY <1>0 DEF SyncFail, SavedBitmap, SavedTable, NoOp, CallSound, KernelTypeOK, IsOpen,
     HandleAgrees, kernel, device, ghost
<1> QED BY <1>1, <1>2, <1>3, <1>4, <1>5, <1>6 DEF Structure

-----------------------------------------------------------------------------
(* The extents: bitmap and table stay in agreement.                        *)

\* The blocks of all entries but one.
Others(t, s) == UNION {Extent(t[r]) : r \in Slot \ {s}}

\* Tables with the same extents.
LEMMA SameExtents ==
  ASSUME NEW t, NEW u, \A s \in Slot : Extent(u[s]) = Extent(t[s])
  PROVE  Extents(u) = Extents(t) /\ (Disjoint(u) <=> Disjoint(t))
BY DEF Extents, Disjoint

\* A table and what it is after a change of one entry to a run that no other
\* entry has a block of.
LEMMA OneEntry ==
  ASSUME NEW t, NEW u, NEW s \in Slot, \A r \in Slot \ {s} : u[r] = t[r],
         Disjoint(t), Extent(u[s]) \cap Others(t, s) = {}
  PROVE  /\ Disjoint(u) /\ Extents(u) = Others(t, s) \cup Extent(u[s])
         /\ Extents(t) = Others(t, s) \cup Extent(t[s])
         /\ Others(t, s) \cap Extent(t[s]) = {}
<1>1. \A x : x \in Others(t, s) <=> \E r \in Slot \ {s} : x \in Extent(t[r])
  BY DEF Others
<1>2. \A x : x \in Extents(t) <=> \E r \in Slot : x \in Extent(t[r])
  BY DEF Extents
<1>3. \A x : x \in Extents(u) <=> \E r \in Slot : x \in Extent(u[r])
  BY DEF Extents
<1>4. \A r \in Slot \ {s} : Extent(u[r]) = Extent(t[r])
  OBVIOUS
<1>5. Extents(t) = Others(t, s) \cup Extent(t[s])
  BY <1>1, <1>2
<1>6. Extents(u) = Others(t, s) \cup Extent(u[s])
  BY <1>1, <1>3, <1>4
<1>7. Others(t, s) \cap Extent(t[s]) = {}
  BY <1>1 DEF Disjoint
<1>8. Disjoint(u)
  <2> SUFFICES ASSUME NEW p \in Slot, NEW q \in Slot, p # q
               PROVE  Extent(u[p]) \cap Extent(u[q]) = {}
    BY DEF Disjoint
  <2>1. CASE p = s
    BY <1>1, <1>4, <2>1
  <2>2. CASE q = s
    BY <1>1, <1>4, <2>2
  <2>3. CASE p # s /\ q # s
    BY <1>4, <2>3 DEF Disjoint
  <2> QED BY <2>1, <2>2, <2>3
<1> QED BY <1>5, <1>6, <1>7, <1>8

\* The steps that change neither bitmap nor table.
LEMMA ExtentsUntouched ==
  ASSUME ExtentsOwned, Mounted, UNCHANGED <<bitmap, table, clean>>,
         \/ pc # "grow" /\ pc' # "grow"
         \/ pc = "grow" /\ pc' = "grow" /\ op'.new = op.new /\ op'.index = op.index
  PROVE  ExtentsOwned' /\ (Mounted /\ Mounted' /\ clean => Leaked' \subseteq Leaked)
<1>1. InFlight' = InFlight
  BY DEF InFlight
<1> QED BY <1>1 DEF ExtentsOwned, Leaked

\* close() and sync() save a length.
LEMMA ExtentsSaved ==
  ASSUME Structure, ExtentsOwned, NEW f \in File, IsOpen(f),
         table' = [table EXCEPT ![handle[f].slot].length = handle[f].length],
         UNCHANGED <<bitmap, clean>>, pc = "idle", pc' \in {"idle", "sync_bm"}
  PROVE  ExtentsOwned' /\ (Mounted /\ Mounted' /\ clean => Leaked' \subseteq Leaked)
<1>0. KernelTypeOK /\ HandleAgrees /\ TablesSound
  BY DEF Structure
<1>1. /\ handle[f].slot \in Slot /\ table[handle[f].slot].start = handle[f].start
      /\ table[handle[f].slot].blocks = handle[f].blocks /\ handle[f].start \in Nat
      /\ handle[f].blocks \in Nat /\ handle[f].length \in Nat
      /\ handle[f].start + handle[f].blocks <= DataBlockCount
      /\ handle[f].length <= handle[f].blocks
  BY <1>0, OpenFile
<1>2. table' = [table EXCEPT ![handle[f].slot] =
                  [name |-> f, start |-> handle[f].start, blocks |-> handle[f].blocks,
                   length |-> handle[f].length]]
  BY <1>0, LengthSaved
<1>3. /\ table'[handle[f].slot].start = handle[f].start
      /\ table'[handle[f].slot].blocks = handle[f].blocks
      /\ \A r \in Slot \ {handle[f].slot} : table'[r] = table[r]
  BY <1>0, <1>1, <1>2, EntryChanged
<1>4. \A s \in Slot : Extent(table'[s]) = Extent(table[s])
  BY <1>1, <1>3 DEF Extent
<1>5. Extents(table') = Extents(table) /\ (Disjoint(table') <=> Disjoint(table))
  BY <1>4, SameExtents, ZenonT(40)
<1> QED BY <1>5 DEF ExtentsOwned, Mounted, Agree, InFlight, Leaked

\* A file is created in blocks that were free.
LEMMA OpenCreateExtents ==
  ASSUME Structure, ExtentsOwned, NEW f \in File, OpenCreate(f)
  PROVE  ExtentsOwned' /\ (Mounted /\ Mounted' /\ clean => Leaked' \subseteq Leaked)
<1>0. KernelTypeOK /\ TablesSound
  BY DEF Structure
<1>1. PICK b \in FirstFit(InitialBlocks), s \in FreeSlot :
        /\ bitmap' = bitmap \cup Run(b, InitialBlocks)
        /\ table' = [table EXCEPT ![s] =
             [name |-> f, start |-> b, blocks |-> InitialBlocks, length |-> 0]]
  BY DEF OpenCreate
<1>2. Run(b, InitialBlocks) \cap bitmap = {}
  BY FirstFitFacts
<1>3. s \in Slot /\ table[s].name = NoFile
  BY DEF FreeSlot
<1>4. /\ table'[s] = [name |-> f, start |-> b, blocks |-> InitialBlocks, length |-> 0]
      /\ \A r \in Slot \ {s} : table'[r] = table[r]
  BY <1>0, <1>1, <1>3 DEF KernelTypeOK
<1>5. Extent(table'[s]) = Run(b, InitialBlocks)
  BY <1>4 DEF Extent
<1>6. SUFFICES ASSUME clean
               PROVE  /\ Agree(bitmap', table')
                      /\ bitmap' \ Extents(table') \subseteq bitmap \ Extents(table)
  <2>1. pc = "idle" /\ pc' = "idle" /\ clean' = clean
    BY DEF OpenCreate, Call, ghost
  <2> QED BY <1>6, <2>1 DEF ExtentsOwned, InFlight, Leaked
<1>7. Disjoint(table) /\ Extents(table) \subseteq bitmap
  BY <1>6 DEF ExtentsOwned, OpenCreate, Call, Mounted, Agree
<1>8. Others(table, s) \subseteq Extents(table)
  BY DEF Others, Extents
<1>9. /\ Disjoint(table') /\ Extents(table') = Others(table, s) \cup Extent(table'[s])
      /\ Extents(table) = Others(table, s) \cup Extent(table[s])
  BY <1>2, <1>3, <1>4, <1>5, <1>7, <1>8, OneEntry
<1>10. Extent(table[s]) = {}
  <2>1. table[s].blocks = 0 /\ table[s].start \in Nat
    BY <1>0, <1>3 DEF KernelTypeOK, Entry, TablesSound, GoodTable
  <2> QED BY <2>1 DEF Extent, Run
<1> QED BY <1>1, <1>5, <1>7, <1>9, <1>10 DEF Agree

\* delete() gives back the extent of the entry it empties.
LEMMA DeleteExtents ==
  ASSUME Structure, ExtentsOwned, NEW f \in File, Delete(f)
  PROVE  ExtentsOwned' /\ (Mounted /\ Mounted' /\ clean => Leaked' \subseteq Leaked)
<1>1. PICK s \in Lookup(f) : /\ table' = [table EXCEPT ![s] = Empty]
                             /\ bitmap' = bitmap \ Extent(table[s])
  BY DEF Delete
<1>2. s \in Slot /\ table'[s] = Empty /\ \A r \in Slot \ {s} : table'[r] = table[r]
  BY <1>1 DEF Structure, KernelTypeOK, Lookup
<1>3. Extent(table'[s]) = {}
  BY <1>2 DEF Extent, Run, Empty
<1>4. SUFFICES ASSUME clean
               PROVE  /\ Agree(bitmap', table')
                      /\ bitmap' \ Extents(table') \subseteq bitmap \ Extents(table)
  <2>1. pc = "idle" /\ pc' = "idle" /\ clean' = clean
    BY DEF Delete, Call
  <2> QED BY <1>4, <2>1 DEF ExtentsOwned, InFlight, Leaked
<1>5. Disjoint(table) /\ Extents(table) \subseteq bitmap
  BY <1>4 DEF ExtentsOwned, Delete, Call, Mounted, Agree
<1>6. /\ Disjoint(table') /\ Extents(table') = Others(table, s) \cup Extent(table'[s])
      /\ Extents(table) = Others(table, s) \cup Extent(table[s])
      /\ Others(table, s) \cap Extent(table[s]) = {}
  <2>1. Extent(table'[s]) \cap Others(table, s) = {}
    BY <1>3
  <2> QED BY <1>2, <1>5, <2>1, OneEntry
<1> QED BY <1>1, <1>3, <1>5, <1>6 DEF Agree

\* truncate() gives back the end of the extent, and no other block.
LEMMA TruncateExtents ==
  ASSUME Structure, ExtentsOwned, NEW f \in File, NEW n \in 0 .. MaxLength, Truncate(f, n)
  PROVE  ExtentsOwned' /\ (Mounted /\ Mounted' /\ clean => Leaked' \subseteq Leaked)
<1>0. KernelTypeOK /\ HandleAgrees /\ TablesSound
  BY DEF Structure
<1>1. PICK m \in Nat :
        /\ n <= m /\ m <= handle[f].blocks
        /\ \/ /\ table' = [table EXCEPT ![handle[f].slot] =
                    [name |-> f, start |-> handle[f].start, blocks |-> m, length |-> n]]
              /\ bitmap' = bitmap \ Excess(handle[f], m) /\ m < handle[f].blocks
           \/ UNCHANGED <<bitmap, table>>
  BY <1>0, TruncateFacts
<1>2. pc = "idle" /\ pc' = "idle" /\ clean' = clean /\ IsOpen(f)
  BY DEF Truncate, Call
<1>3. CASE UNCHANGED <<bitmap, table>>
  BY <1>2, <1>3, ExtentsUntouched DEF Mounted
<1>4. CASE /\ table' = [table EXCEPT ![handle[f].slot] =
                    [name |-> f, start |-> handle[f].start, blocks |-> m, length |-> n]]
           /\ bitmap' = bitmap \ Excess(handle[f], m) /\ m < handle[f].blocks
  <2> DEFINE h == handle[f]
             s == h.slot
  <2>1. /\ s \in Slot /\ h.start \in Nat /\ h.blocks \in Nat
        /\ table[s].start = h.start /\ table[s].blocks = h.blocks /\ m <= h.blocks
    BY <1>0, <1>1, <1>2, OpenFile
  <2>2. /\ table'[s].start = h.start /\ table'[s].blocks = m
        /\ \A r \in Slot \ {s} : table'[r] = table[r]
    BY <1>0, <1>4, <2>1 DEF KernelTypeOK
  <2> HIDE DEF s, h
  <2>3. /\ Extent(table'[s]) \subseteq Extent(table[s])
        /\ Excess(h, m) \cap Extent(table'[s]) = {}
        /\ Excess(h, m) \cup Extent(table'[s]) = Extent(table[s])
    BY <2>1, <2>2 DEF Extent, Excess, Run
  <2>4. SUFFICES ASSUME clean
                 PROVE  /\ Agree(bitmap', table')
                        /\ bitmap' \ Extents(table') \subseteq bitmap \ Extents(table)
    BY <1>2, <2>4 DEF ExtentsOwned, InFlight, Leaked
  <2>5. Disjoint(table) /\ Extents(table) \subseteq bitmap
    BY <1>2, <2>4 DEF ExtentsOwned, Mounted, Agree
  <2>6. Extent(table'[s]) \cap Others(table, s) = {}
    BY <2>1, <2>3, <2>5 DEF Others, Disjoint
  <2>7. /\ Disjoint(table') /\ Extents(table') = Others(table, s) \cup Extent(table'[s])
        /\ Extents(table) = Others(table, s) \cup Extent(table[s])
        /\ Others(table, s) \cap Extent(table[s]) = {}
    BY <2>1, <2>2, <2>5, <2>6, OneEntry
  <2>8. bitmap' = bitmap \ Excess(h, m)
    BY <1>4 DEF h
  <2> QED BY <2>3, <2>5, <2>7, <2>8 DEF Agree
<1> QED BY <1>1, <1>3, <1>4

\* A growth allocates a run that nobody has.
LEMMA GrowCallExtents ==
  ASSUME Structure, ExtentsOwned, NEW f \in File, NEW k \in Index, GrowCall(f, k)
  PROVE  ExtentsOwned' /\ (Mounted /\ Mounted' /\ clean => Leaked' \subseteq Leaked)
<1>1. PICK b \in FirstFit(k + 1) :
        bitmap' = bitmap \cup Run(b, k + 1) /\ op' = [file |-> f, index |-> k, new |-> b, blk |-> 0]
  BY DEF GrowCall
<1>2. k + 1 \in Nat
  BY DEF Index
<1>3. Run(b, k + 1) \cap bitmap = {}
  BY <1>2, FirstFitFacts
<1>4. InFlight' = Run(b, k + 1)
  BY <1>1 DEF GrowCall, InFlight
<1>5. table' = table /\ clean' = clean /\ pc = "idle" /\ InFlight = {}
  BY DEF GrowCall, Call, ghost, InFlight
<1> QED BY <1>1, <1>3, <1>4, <1>5 DEF ExtentsOwned, Mounted, Agree, Leaked

\* A failed growth gives its run back.
LEMMA GrowFailExtents ==
  ASSUME ExtentsOwned, GrowFail
  PROVE  ExtentsOwned' /\ (Mounted /\ Mounted' /\ clean => Leaked' \subseteq Leaked)
<1>1. bitmap' = bitmap \ InFlight /\ InFlight' = {}
  BY DEF GrowFail, UndoGrow, InFlight
<1>2. table' = table /\ clean' = clean /\ pc = "grow"
  BY DEF GrowFail, ghost
<1> QED BY <1>1, <1>2 DEF ExtentsOwned, Mounted, Agree, Leaked

\* The end of a growth: the file has the new run, and the old one is free.
LEMMA GrowCommitExtents ==
  ASSUME Structure, ExtentsOwned, GrowCommit
  PROVE  ExtentsOwned' /\ (Mounted /\ Mounted' /\ clean => Leaked' \subseteq Leaked)
<1> DEFINE h == handle[op.file]
           s == h.slot
<1>0. KernelTypeOK /\ HandleAgrees /\ TablesSound /\ CallSound
  BY DEF Structure
<1>1. /\ op.file \in File /\ IsOpen(op.file) /\ s \in Slot
      /\ table' = [table EXCEPT ![s] = [name |-> op.file, start |-> op.new,
                      blocks |-> op.index + 1, length |-> table[s].length]]
  BY <1>0, GrowCommitFacts
<1>2. table[s].start = h.start /\ table[s].blocks = h.blocks
  BY <1>0, <1>1, OpenFile
<1>3. /\ table'[s].start = op.new /\ table'[s].blocks = op.index + 1
      /\ \A r \in Slot \ {s} : table'[r] = table[r]
  BY <1>0, <1>1 DEF KernelTypeOK
<1>4. pc = "grow" /\ pc' = "write" /\ clean' = clean
      /\ bitmap' = bitmap \ Run(h.start, h.blocks)
  BY DEF GrowCommit, OldRun
<1> HIDE DEF s, h
<1>5. /\ Extent(table'[s]) = InFlight /\ bitmap' = bitmap \ Extent(table[s])
  BY <1>2, <1>3, <1>4 DEF Extent, InFlight
<1>6. SUFFICES ASSUME clean
               PROVE  /\ Agree(bitmap', table')
                      /\ bitmap' \ Extents(table') \subseteq bitmap \ (Extents(table) \cup InFlight)
  BY <1>4, <1>6 DEF ExtentsOwned, InFlight, Leaked
<1>7. /\ Disjoint(table) /\ Extents(table) \subseteq bitmap
      /\ InFlight \subseteq bitmap /\ InFlight \cap Extents(table) = {}
  BY <1>4, <1>6 DEF ExtentsOwned, Mounted, Agree
<1>8. Others(table, s) \subseteq Extents(table) /\ Extent(table[s]) \subseteq Extents(table)
  BY <1>1 DEF Others, Extents
<1>9. /\ Disjoint(table') /\ Extents(table') = Others(table, s) \cup Extent(table'[s])
      /\ Extents(table) = Others(table, s) \cup Extent(table[s])
      /\ Others(table, s) \cap Extent(table[s]) = {}
  <2>1. Extent(table'[s]) \cap Others(table, s) = {}
    BY <1>5, <1>7, <1>8
  <2>2. s \in Slot /\ Disjoint(table) /\ \A r \in Slot \ {s} : table'[r] = table[r]
    BY <1>1, <1>3, <1>7
  <2> QED BY <2>1, <2>2, OneEntry
<1> QED BY <1>5, <1>7, <1>8, <1>9 DEF Agree

\* Every action keeps bitmap and table in agreement, and loses no block if there
\* is a free slot in the table.
LEMMA NextExtents ==
  ASSUME Structure, ExtentsOwned, [Next]_vars
  PROVE  /\ ExtentsOwned'
         /\ Mounted /\ Mounted' /\ clean /\ FreeSlot # {} => Leaked' \subseteq Leaked
<1> DEFINE Kept == Mounted /\ Mounted' /\ clean /\ FreeSlot # {} => Leaked' \subseteq Leaked
<1>1. CASE Crash \/ LoadError \/ FormatSuperblock \/ FormatBitmap \/ FormatTable
  BY <1>1 DEF Crash, LoadError, FormatSuperblock, FormatBitmap, FormatTable, FormatWrite,
              ExtentsOwned, Mounted
<1>2. CASE Mount
  BY <1>2 DEF Mount, ExtentsOwned, InFlight, Mounted
<1>3. CASE FormatFlush
  <2>1. table' = EmptyTable /\ bitmap' = {} /\ pc' = "idle"
    BY <1>3 DEF FormatFlush, kernel, Structure, NothingInRam, Mounted
  <2> QED BY <1>3, <2>1, EmptyTableFacts DEF FormatFlush, ExtentsOwned, Agree, InFlight, Mounted
<1>4. ASSUME NEW f \in File, OpenExisting(f)
      PROVE  ExtentsOwned' /\ Kept
  BY <1>4, ExtentsUntouched DEF OpenExisting, Call, ghost, Mounted
<1>5. ASSUME NEW f \in File, OpenTableFull(f)
      PROVE  ExtentsOwned' /\ Kept
  <2>1. bitmap \subseteq bitmap' /\ table' = table /\ clean' = clean /\ pc = "idle" /\ pc' = "idle"
    BY <1>5 DEF OpenTableFull, Call, ghost
  <2>2. FreeSlot = {}
    BY <1>5 DEF OpenTableFull
  <2> QED BY <2>1, <2>2 DEF ExtentsOwned, Mounted, Agree, InFlight
<1>6. ASSUME NEW f \in File, Close(f) \/ SyncCall(f)
      PROVE  ExtentsOwned' /\ Kept
  BY <1>6, ExtentsSaved DEF Close, SyncCall, Call, ghost
<1>7. ASSUME NEW f \in File, NEW k \in Index, WriteCall(f, k)
      PROVE  ExtentsOwned' /\ Kept
  BY <1>7, ExtentsUntouched DEF WriteCall, Call, kernel, ghost, Mounted
<1>8. CASE CopyBlock
  <2>1. op'.new = op.new /\ op'.index = op.index
    BY <1>8 DEF CopyBlock, Structure, KernelTypeOK
  <2> QED BY <1>8, <2>1, ExtentsUntouched DEF CopyBlock, kernel, ghost, Mounted
<1>9. CASE WriteBlock \/ WriteFail \/ SyncBitmap \/ SyncTable \/ SyncFlush \/ SyncFail
  BY <1>9, ExtentsUntouched DEF WriteBlock, WriteFail, SyncBitmap, SyncTable, SyncFlush, SyncFail,
                                kernel, ghost, Mounted
<1>10. CASE UNCHANGED vars
  BY <1>10 DEF vars, kernel, ghost, ExtentsOwned, Mounted, InFlight, Leaked
<1> QED BY <1>1, <1>2, <1>3, <1>4, <1>5, <1>6, <1>7, <1>8, <1>9, <1>10,
           OpenCreateExtents, DeleteExtents, TruncateExtents, GrowCallExtents, GrowFailExtents,
           GrowCommitExtents DEF Next

-----------------------------------------------------------------------------
(* The contents: what is read, and what survives a power loss.             *)

Contents == /\ ReadYourWrites /\ SyncedSurvives /\ CopiedSoFar
            /\ CommittedSound /\ SettledInPlace

\* The length of f, in its handle or in its entry s.
LengthOf(f, s) == IF IsOpen(f) THEN handle[f].length ELSE table[s].length

\* f's block k is where f's entry says, and has the expected value.
InPlace(f, k) ==
  \E s \in Lookup(f) :
    k < LengthOf(f, s) /\ cached.data[table[s].start + k] = content[f][k]

\* f's block k is within the length of f's entry.
InLength(f, k) == \E s \in Lookup(f) : k < table[s].length

\* What is read is in place, and in the extent of the file ...
LEMMA Located ==
  ASSUME Structure, ReadYourWrites, Mounted, clean,
         NEW f \in File, NEW k \in Index, content[f][k] # 0
  PROVE  \E s \in Lookup(f) :
           /\ k < LengthOf(f, s) /\ cached.data[table[s].start + k] = content[f][k]
           /\ k < table[s].blocks
<1>0. KernelTypeOK /\ HandleAgrees /\ TablesSound
  BY DEF Structure
<1>1. CASE IsOpen(f)
  <2>1. k < handle[f].length /\ cached.data[handle[f].start + k] = content[f][k]
    BY <1>1 DEF ReadYourWrites
  <2>2. /\ handle[f].slot \in Lookup(f) /\ table[handle[f].slot].start = handle[f].start
        /\ table[handle[f].slot].blocks = handle[f].blocks
        /\ handle[f].length <= handle[f].blocks
        /\ handle[f].length \in Nat /\ handle[f].blocks \in Nat
    BY <1>0, <1>1, OpenFile
  <2>3. LengthOf(f, handle[f].slot) = handle[f].length
    BY <1>1 DEF LengthOf
  <2>4. k \in Nat
    BY DEF Index
  <2> QED BY <2>1, <2>2, <2>3, <2>4
<1>2. CASE ~IsOpen(f)
  <2>1. PICK s \in Lookup(f) :
          k < table[s].length /\ cached.data[table[s].start + k] = content[f][k]
    BY <1>2 DEF ReadYourWrites
  <2>2. /\ s \in Slot /\ table[s].length \in Nat /\ table[s].blocks \in Nat
        /\ table[s].length <= table[s].blocks
    BY <1>0 DEF Lookup, KernelTypeOK, Entry, TablesSound, GoodTable
  <2>3. LengthOf(f, s) = table[s].length
    BY <1>2 DEF LengthOf
  <2>4. k \in Nat
    BY DEF Index
  <2> QED BY <2>1, <2>2, <2>3, <2>4
<1> QED BY <1>1, <1>2

\* ... and what is in place is read.
LEMMA InPlaceRead ==
  ASSUME Structure', Mounted' /\ clean' =>
           \A f \in File, k \in Index : content'[f][k] # 0 => InPlace(f, k)'
  PROVE  ReadYourWrites'
<1> SUFFICES ASSUME Mounted', clean', NEW f \in File, NEW k \in Index, content'[f][k] # 0
             PROVE  IF IsOpen(f)'
                      THEN /\ k < handle'[f].length
                           /\ cached'.data[handle'[f].start + k] = content'[f][k]
                      ELSE \E s \in Lookup(f)' :
                             /\ k < table'[s].length
                             /\ cached'.data[table'[s].start + k] = content'[f][k]
  BY DEF ReadYourWrites
<1>1. PICK s \in Lookup(f)' :
        k < LengthOf(f, s)' /\ cached'.data[table'[s].start + k] = content'[f][k]
  BY DEF InPlace
<1>2. CASE IsOpen(f)'
  <2>1. /\ handle'[f].slot \in Slot /\ table'[handle'[f].slot].name = f
        /\ table'[handle'[f].slot].start = handle'[f].start
    BY <1>2 DEF Structure, KernelTypeOK, HandleAgrees
  <2>2. s \in Slot /\ table'[s].name = f /\ f # NoFile
    BY DEF Lookup
  <2>3. s = handle'[f].slot
    BY <2>1, <2>2 DEF Structure, TablesSound, GoodTable
  <2> QED BY <1>1, <1>2, <2>1, <2>3 DEF LengthOf
<1>3. CASE ~IsOpen(f)'
  BY <1>1, <1>3 DEF LengthOf
<1> QED BY <1>2, <1>3

\* When nothing is expected.
LEMMA NothingExpected ==
  ASSUME settled' \subseteq File, pc' \notin {"off", "grow"},
         \A f \in File, k \in Index : content'[f][k] = 0 /\ committed'[f][k] = 0
  PROVE  Contents'
BY DEF Contents, ReadYourWrites, SyncedSurvives, CopiedSoFar, CommittedSound, SettledInPlace

\* ... as on a file system that was not in agreement, or is being formatted.
LEMMA NothingWas ==
  ASSUME CommittedSound, ~clean \/ (~Mounted /\ pc # "off")
  PROVE  \A f \in File, k \in Index : content[f][k] = 0 /\ committed[f][k] = 0
BY DEF CommittedSound

\* A step of a call, in RAM: each file of which something is expected keeps its
\* slot and the start of its extent, and the lengths cover what is expected.
LEMMA InRam ==
  ASSUME Structure, Structure', Contents, pc = "idle", pc' \in {"idle", "sync_bm"},
         UNCHANGED <<cached, medium, settled, clean>>,
         \A g \in File, k \in Index :
           /\ content'[g][k] # 0 =>
                content'[g][k] = content[g][k] /\ \A s \in Lookup(g) :
                  /\ s \in Lookup(g)' /\ table'[s].start = table[s].start
                  /\ k < LengthOf(g, s) => k < LengthOf(g, s)'
           /\ committed'[g][k] # 0 =>
                /\ committed'[g][k] = committed[g][k] /\ content'[g][k] = content[g][k]
                /\ InLength(g, k) /\ clean => InLength(g, k)'
                /\ \A s \in Lookup(g)' : s \in Lookup(g) /\ table'[s].start = table[s].start
  PROVE  Contents'
<1>0. /\ ReadYourWrites /\ SyncedSurvives /\ CommittedSound /\ SettledInPlace
      /\ Mounted /\ Mounted' /\ settled \subseteq File
  BY DEF Contents, Mounted, Structure, GhostTypeOK
<1>1. ReadYourWrites'
  <2> SUFFICES ASSUME Mounted', clean', NEW f \in File, NEW k \in Index, content'[f][k] # 0
               PROVE  InPlace(f, k)'
    BY InPlaceRead
  <2>1. PICK s \in Lookup(f) :
          k < LengthOf(f, s) /\ cached.data[table[s].start + k] = content[f][k]
    BY <1>0, Located
  <2> QED BY <2>1 DEF InPlace
<1>2. SyncedSurvives'
  BY <1>0, SMTT(30) DEF SyncedSurvives, Recoverable
<1>3. CopiedSoFar'
  BY DEF CopiedSoFar
<1>4. CommittedSound'
  <2>1. ASSUME ~clean' PROVE \A f \in File, k \in Index : content'[f][k] = 0
    BY <1>0, <2>1 DEF CommittedSound
  <2>2. ASSUME NEW f \in File, NEW k \in Index, committed'[f][k] # 0
        PROVE  content'[f][k] = committed'[f][k] /\ InLength(f, k)'
    <3>1. /\ committed'[f][k] = committed[f][k] /\ content'[f][k] = content[f][k]
          /\ InLength(f, k) /\ clean => InLength(f, k)'
      BY <2>2
    <3>2. content[f][k] = committed[f][k] /\ InLength(f, k) /\ clean
      BY <1>0, <2>2, <3>1 DEF CommittedSound, InLength
    <3> QED BY <3>1, <3>2
  <2> QED BY <1>0, <2>1, <2>2 DEF CommittedSound, InLength
<1>5. SettledInPlace'
  BY <1>0 DEF SettledInPlace
<1> QED BY <1>1, <1>2, <1>3, <1>4, <1>5 DEF Contents

\* Nothing is expected of a file that does not exist.
LEMMA Absent ==
  ASSUME Structure, Contents, Mounted, NEW f \in File, Lookup(f) = {}, NEW k \in Index
  PROVE  content[f][k] = 0 /\ committed[f][k] = 0
<1>0. ReadYourWrites /\ CommittedSound
  BY DEF Contents
<1>1. CASE clean
  <2>1. content[f][k] = 0
    BY <1>0, <1>1, Located
  <2> QED BY <1>0, <2>1 DEF CommittedSound
<1>2. CASE ~clean
  BY <1>0, <1>2, NothingWas
<1> QED BY <1>1, <1>2

\* A file has one slot.
LEMMA OneSlot ==
  ASSUME Structure, NEW f \in File, NEW r \in Lookup(f), NEW s \in Lookup(f)
  PROVE  r = s
<1>1. f # NoFile /\ r \in Slot /\ s \in Slot /\ table[r].name = f /\ table[s].name = f
  BY DEF Lookup
<1> QED BY <1>1 DEF Structure, TablesSound, GoodTable

\* open() of a file: the handle has the length of the entry.
LEMMA OpenExistingContents ==
  ASSUME Structure, Structure', Contents, NEW f \in File, OpenExisting(f)
  PROVE  Contents'
<1>1. PICK s \in Lookup(f) : handle' = [handle EXCEPT ![f] =
        [slot |-> s, start |-> table[s].start, blocks |-> table[s].blocks, length |-> table[s].length]]
  BY DEF OpenExisting
<1>2. /\ pc = "idle" /\ pc' = "idle" /\ UNCHANGED <<cached, medium, settled, clean>>
      /\ table' = table /\ content' = content /\ committed' = committed /\ ~IsOpen(f)
  BY DEF OpenExisting, Call, device, ghost
<1>3. \A g \in File : Lookup(g)' = Lookup(g)
  BY <1>2 DEF Lookup
<1>4. /\ handle'[f].length = table[s].length
      /\ \A g \in File \ {f} : handle'[g] = handle[g]
  BY <1>1 DEF Structure, KernelTypeOK
<1>5. ASSUME NEW g \in File, NEW r \in Lookup(g) PROVE LengthOf(g, r)' = LengthOf(g, r)
  <2>1. CASE g = f
    <3>1. r = s
      BY <2>1, OneSlot
    <3> QED BY <1>2, <1>4, <2>1, <3>1 DEF LengthOf
  <2>2. CASE g # f
    BY <1>2, <1>4, <2>2 DEF LengthOf, IsOpen
  <2> QED BY <2>1, <2>2
<1>6. \A g \in File, k \in Index : InLength(g, k)' <=> InLength(g, k)
  BY <1>2, <1>3 DEF InLength
<1> QED
  <2>1. ASSUME NEW g \in File, NEW k \in Index
        PROVE  /\ content'[g][k] # 0 =>
                    content'[g][k] = content[g][k] /\ \A r \in Lookup(g) :
                      /\ r \in Lookup(g)' /\ table'[r].start = table[r].start
                      /\ k < LengthOf(g, r) => k < LengthOf(g, r)'
               /\ committed'[g][k] # 0 =>
                    /\ committed'[g][k] = committed[g][k] /\ content'[g][k] = content[g][k]
                    /\ InLength(g, k) /\ clean => InLength(g, k)'
                    /\ \A r \in Lookup(g)' : r \in Lookup(g) /\ table'[r].start = table[r].start
    BY <1>2, <1>3, <1>5, <1>6
  <2> QED BY <1>2, <2>1, InRam

\* open() that creates a file, and delete(): one slot changes hands, and nothing
\* is expected of the file it belongs to.
LEMMA SlotContents ==
  ASSUME Structure, Structure', Contents, NEW f \in File, NEW s \in Slot,
         pc = "idle", pc' = "idle", UNCHANGED <<cached, medium, settled, clean>>,
         \A g \in File \ {f} : table[s].name # g /\ table'[s].name # g,
         \A r \in Slot \ {s} : table'[r] = table[r],
         \A g \in File \ {f} : handle'[g] = handle[g],
         \A k \in Index : content'[f][k] = 0 /\ committed'[f][k] = 0,
         \A g \in File \ {f} : content'[g] = content[g] /\ committed'[g] = committed[g]
  PROVE  Contents'
<1>1. ASSUME NEW g \in File \ {f} PROVE Lookup(g)' = Lookup(g) /\ s \notin Lookup(g)
  BY DEF Lookup
<1>2. ASSUME NEW g \in File \ {f}, NEW r \in Lookup(g)
      PROVE  r \in Lookup(g)' /\ table'[r] = table[r] /\ LengthOf(g, r)' = LengthOf(g, r)
  <2>1. r \in Slot \ {s}
    BY <1>1 DEF Lookup
  <2> QED BY <1>1, <2>1 DEF LengthOf, IsOpen
<1>3. ASSUME NEW g \in File, NEW k \in Index
      PROVE  /\ content'[g][k] # 0 =>
                  content'[g][k] = content[g][k] /\ \A r \in Lookup(g) :
                    /\ r \in Lookup(g)' /\ table'[r].start = table[r].start
                    /\ k < LengthOf(g, r) => k < LengthOf(g, r)'
             /\ committed'[g][k] # 0 =>
                  /\ committed'[g][k] = committed[g][k] /\ content'[g][k] = content[g][k]
                  /\ InLength(g, k) /\ clean => InLength(g, k)'
                  /\ \A r \in Lookup(g)' : r \in Lookup(g) /\ table'[r].start = table[r].start
  <2>1. CASE g = f
    BY <2>1
  <2>2. CASE g # f
    BY <1>1, <1>2, <2>2 DEF InLength
  <2> QED BY <2>1, <2>2
<1> QED BY <1>3, InRam

\* open() that creates a file keeps what is expected of the others.
LEMMA OpenCreateContents ==
  ASSUME Structure, Structure', Contents, NEW f \in File, OpenCreate(f)
  PROVE  Contents'
<1>1. PICK b \in FirstFit(InitialBlocks), s \in FreeSlot :
        /\ table' = [table EXCEPT ![s] =
             [name |-> f, start |-> b, blocks |-> InitialBlocks, length |-> 0]]
        /\ handle' = [handle EXCEPT ![f] =
             [slot |-> s, start |-> b, blocks |-> InitialBlocks, length |-> 0]]
  BY DEF OpenCreate
<1>2. s \in Slot /\ table[s].name = NoFile
  BY DEF FreeSlot
<1>3. /\ table'[s].name = f /\ \A r \in Slot \ {s} : table'[r] = table[r]
      /\ \A g \in File \ {f} : handle'[g] = handle[g]
  BY <1>1, <1>2 DEF Structure, KernelTypeOK
<1>4. /\ pc = "idle" /\ pc' = "idle" /\ UNCHANGED <<cached, medium, settled, clean>>
      /\ content' = content /\ committed' = committed /\ Lookup(f) = {} /\ Mounted
  BY DEF OpenCreate, Call, device, ghost, Mounted
<1>5. \A k \in Index : content'[f][k] = 0 /\ committed'[f][k] = 0
  BY <1>4, Absent
<1>6. \A g \in File \ {f} : table[s].name # g /\ table'[s].name # g
  BY <1>2, <1>3
<1> QED BY <1>2, <1>3, <1>4, <1>5, <1>6, SlotContents

\* delete() keeps what is expected of the others.
LEMMA DeleteContents ==
  ASSUME Structure, Structure', Contents, NEW f \in File, Delete(f)
  PROVE  Contents'
<1>1. PICK s \in Lookup(f) : table' = [table EXCEPT ![s] = Empty]
  BY DEF Delete
<1>2. s \in Slot /\ table[s].name = f
  BY DEF Lookup
<1>3. table'[s].name = NoFile /\ \A r \in Slot \ {s} : table'[r] = table[r]
  BY <1>1, <1>2 DEF Structure, KernelTypeOK, Empty
<1>4. /\ pc = "idle" /\ pc' = "idle" /\ UNCHANGED <<cached, medium, settled, clean>>
      /\ content' = Cut(content, f, 0) /\ committed' = Cut(committed, f, 0) /\ handle' = handle
  BY DEF Delete, Call, device
<1>5. /\ \A k \in Index : content'[f][k] = 0 /\ committed'[f][k] = 0
      /\ \A g \in File \ {f} : content'[g] = content[g] /\ committed'[g] = committed[g]
  <2>1. content \in [File -> [Index -> Nat]] /\ committed \in [File -> [Index -> Nat]]
    BY DEF Structure, GhostTypeOK
  <2>2. 0 \in Nat /\ \A k \in Index : ~(k < 0)
    BY DEF Index
  <2>3. ASSUME NEW values \in [File -> [Index -> Nat]]
        PROVE  /\ \A k \in Index : Cut(values, f, 0)[f][k] = 0
               /\ \A g \in File \ {f} : Cut(values, f, 0)[g] = values[g]
    BY <2>2 DEF Cut
  <2> QED BY <1>4, <2>1, <2>3
<1>6. \A g \in File \ {f} : table[s].name # g /\ table'[s].name # g
  BY <1>2, <1>3
<1> QED BY <1>2, <1>3, <1>4, <1>5, <1>6, SlotContents

\* The entry s of an open file changes, but not its start: the length that counts
\* is the handle's while the file is open and the entry's after close().
LEMMA EntryContents ==
  ASSUME Structure, Structure', Contents, NEW f \in File, IsOpen(f), NEW s \in Slot,
         handle[f].slot = s, NEW n \in Nat,
         pc = "idle", pc' \in {"idle", "sync_bm"}, UNCHANGED <<cached, medium, settled, clean>>,
         \A r \in Slot \ {s} : table'[r] = table[r],
         table'[s].name = f, table'[s].start = table[s].start,
         \A g \in File \ {f} : handle'[g] = handle[g],
         LengthOf(f, s)' = n, table'[s] = table[s] \/ table'[s].length = n,
         \A g \in File, k \in Index :
           /\ content'[g][k] # 0 => content'[g][k] = content[g][k]
           /\ committed'[g][k] # 0 =>
                committed'[g][k] = committed[g][k] /\ content'[g][k] = content[g][k],
         \A k \in Index : content'[f][k] # 0 /\ k < handle[f].length => k < n
  PROVE  Contents'
<1>0. /\ KernelTypeOK /\ HandleAgrees /\ TablesSound /\ ReadYourWrites /\ CommittedSound /\ Mounted
  BY DEF Structure, Contents, Mounted
<1>1. table[s].name = f /\ Lookup(f) = {s} /\ f # NoFile
  BY <1>0, OpenFile
<1>2. \A g \in File : Lookup(g)' = Lookup(g)
  BY <1>1 DEF Lookup
<1>3. \A r \in Slot : table'[r].start = table[r].start
  OBVIOUS
<1>4. LengthOf(f, s) = handle[f].length
  BY DEF LengthOf
<1>5. ASSUME NEW g \in File \ {f}, NEW r \in Lookup(g)
      PROVE  table'[r] = table[r] /\ LengthOf(g, r)' = LengthOf(g, r)
  <2>1. r \in Slot \ {s}
    BY <1>1 DEF Lookup
  <2> QED BY <2>1 DEF LengthOf, IsOpen
<1>6. ASSUME NEW k \in Index, committed'[f][k] # 0, clean, InLength(f, k)
      PROVE  InLength(f, k)'
  <2>1. committed[f][k] # 0 /\ content[f][k] # 0 /\ content'[f][k] # 0
    BY <1>0, <1>6 DEF CommittedSound
  <2>2. k < handle[f].length
    BY <1>0, <1>1, <1>4, <1>6, <2>1, Located
  <2>3. k < n
    BY <2>1, <2>2
  <2>4. k < table'[s].length
    BY <1>1, <1>6, <2>3 DEF InLength
  <2> QED BY <1>1, <1>2, <2>4 DEF InLength
<1>7. ASSUME NEW g \in File, NEW k \in Index
      PROVE  /\ content'[g][k] # 0 =>
                  content'[g][k] = content[g][k] /\ \A r \in Lookup(g) :
                    /\ r \in Lookup(g)' /\ table'[r].start = table[r].start
                    /\ k < LengthOf(g, r) => k < LengthOf(g, r)'
             /\ committed'[g][k] # 0 =>
                  /\ committed'[g][k] = committed[g][k] /\ content'[g][k] = content[g][k]
                  /\ InLength(g, k) /\ clean => InLength(g, k)'
                  /\ \A r \in Lookup(g)' : r \in Lookup(g) /\ table'[r].start = table[r].start
  <2>0. \A r \in Lookup(g) : r \in Slot
    BY DEF Lookup
  <2>1. CASE g = f
    BY <1>1, <1>2, <1>3, <1>4, <1>6, <2>1
  <2>2. CASE g # f
    BY <1>2, <1>3, <1>5, <2>0, <2>2 DEF InLength
  <2> QED BY <2>1, <2>2
<1> QED BY <1>7, InRam

\* close() and sync() save the length of the handle.
LEMMA SavedContents ==
  ASSUME Structure, Structure', Contents, NEW f \in File, IsOpen(f),
         table' = [table EXCEPT ![handle[f].slot].length = handle[f].length],
         pc = "idle", pc' \in {"idle", "sync_bm"},
         UNCHANGED <<cached, medium, content, committed, settled, clean>>,
         handle' = handle \/ handle' = [handle EXCEPT ![f] = Closed]
  PROVE  Contents'
<1>0. KernelTypeOK /\ HandleAgrees /\ TablesSound
  BY DEF Structure
<1>1. PICK s \in Slot : s = handle[f].slot
  BY <1>0, OpenFile
<1>2. PICK n \in Nat : n = handle[f].length
  BY <1>0, OpenFile
<1>3. /\ handle[f].start \in Nat /\ handle[f].blocks \in Nat /\ handle[f].length \in Nat
      /\ handle[f].start + handle[f].blocks <= DataBlockCount
      /\ handle[f].length <= handle[f].blocks /\ table[s].start = handle[f].start
  BY <1>0, <1>1, OpenFile
<1>4. table' = [table EXCEPT ![handle[f].slot] =
                  [name |-> f, start |-> handle[f].start, blocks |-> handle[f].blocks,
                   length |-> handle[f].length]]
  BY <1>0, LengthSaved
<1>5. /\ table'[s] = [name |-> f, start |-> handle[f].start, blocks |-> handle[f].blocks,
                      length |-> handle[f].length]
      /\ \A r \in Slot \ {s} : table'[r] = table[r]
  BY <1>0, <1>1, <1>3, <1>4, EntryChanged
<1>6. /\ \A g \in File \ {f} : handle'[g] = handle[g]
      /\ handle'[f] = handle[f] \/ handle'[f] = Closed
  BY <1>0 DEF KernelTypeOK
<1>7. LengthOf(f, s)' = n
  BY <1>2, <1>5, <1>6 DEF LengthOf, IsOpen
<1>8. /\ table'[s].name = f /\ table'[s].start = table[s].start /\ table'[s].length = n
      /\ \A k \in Index : content'[f][k] # 0 /\ k < handle[f].length => k < n
  BY <1>2, <1>3, <1>5
<1> QED BY <1>1, <1>5, <1>6, <1>7, <1>8, EntryContents

\* truncate(): what is expected is cut with the length.
LEMMA TruncateContents ==
  ASSUME Structure, Structure', Contents, NEW f \in File, NEW n \in 0 .. MaxLength, Truncate(f, n)
  PROVE  Contents'
<1>0. KernelTypeOK /\ HandleAgrees /\ TablesSound /\ CommittedSound
  BY DEF Structure, Contents
<1>1. /\ pc = "idle" /\ pc' = "idle" /\ UNCHANGED <<cached, medium, settled, clean>> /\ IsOpen(f)
      /\ content' = Cut(content, f, n) /\ committed' = Cut(committed, f, n)
  BY DEF Truncate, Call, device
<1>2. PICK s \in Slot : s = handle[f].slot
  BY <1>0, <1>1, OpenFile
<1>3. table[s].start = handle[f].start /\ table[s].name = f
  BY <1>0, <1>1, <1>2, OpenFile
<1>4. PICK m \in Nat :
        /\ handle' = [handle EXCEPT ![f] = [slot |-> handle[f].slot, start |-> handle[f].start,
                                            blocks |-> m, length |-> n]]
        /\ \/ table' = [table EXCEPT ![handle[f].slot] =
                    [name |-> f, start |-> handle[f].start, blocks |-> m, length |-> n]]
           \/ UNCHANGED <<bitmap, table>>
  BY <1>0, TruncateFacts
<1>5. /\ handle'[f].slot = s /\ handle'[f].length = n
      /\ \A g \in File \ {f} : handle'[g] = handle[g]
  BY <1>0, <1>2, <1>4 DEF KernelTypeOK
<1>6. LengthOf(f, s)' = n
  BY <1>5 DEF LengthOf, IsOpen, Closed, Slot
<1>7. /\ table'[s].name = f /\ table'[s].start = table[s].start
      /\ table'[s] = table[s] \/ table'[s].length = n
      /\ \A r \in Slot \ {s} : table'[r] = table[r]
  BY <1>0, <1>2, <1>3, <1>4 DEF KernelTypeOK
<1>8. /\ \A g \in File, k \in Index :
           /\ content'[g][k] # 0 => content'[g][k] = content[g][k]
           /\ committed'[g][k] # 0 =>
                committed'[g][k] = committed[g][k] /\ content'[g][k] = content[g][k]
      /\ \A k \in Index : content'[f][k] # 0 /\ k < handle[f].length => k < n
  <2>1. content \in [File -> [Index -> Nat]] /\ committed \in [File -> [Index -> Nat]]
    BY DEF Structure, GhostTypeOK
  <2>2. n \in Nat
    OBVIOUS
  <2>3. ASSUME NEW values \in [File -> [Index -> Nat]]
        PROVE  /\ \A k \in Index : Cut(values, f, n)[f][k] = IF k < n THEN values[f][k] ELSE 0
               /\ \A g \in File \ {f} : Cut(values, f, n)[g] = values[g]
    BY <2>2, CutFacts, SMTT(30)
  <2>4. /\ \A k \in Index : content'[f][k] = IF k < n THEN content[f][k] ELSE 0
        /\ \A g \in File \ {f} : content'[g] = content[g]
    BY <1>1, <2>1, <2>3
  <2>5. /\ \A k \in Index : committed'[f][k] = IF k < n THEN committed[f][k] ELSE 0
        /\ \A g \in File \ {f} : committed'[g] = committed[g]
    BY <1>1, <2>1, <2>3
  <2> QED BY <2>4, <2>5
<1>9. n \in Nat
  OBVIOUS
<1> QED BY <1>1, <1>2, <1>5, <1>6, <1>7, <1>8, <1>9, EntryContents

\* What is committed and settled is, in every table on the medium, in the slot
\* and at the start of the table in RAM, within the extent there.
LEMMA SettledAt ==
  ASSUME Structure, Contents, Mounted, clean, NEW f \in settled, NEW k \in Index,
         committed[f][k] # 0, NEW ft \in medium.ft, NEW p \in Slot, ft[p].name = f
  PROVE  /\ p \in Lookup(f) /\ ft[p].start = table[p].start
         /\ k < table[p].length /\ k < table[p].blocks
<1>0. CommittedSound /\ SettledInPlace /\ TablesSound /\ KernelTypeOK /\ f \in File
  BY DEF Structure, Contents, GhostTypeOK
<1>1. PICK s \in Lookup(f) : k < table[s].length
  BY <1>0 DEF CommittedSound
<1>2. ft[s].name = f /\ ft[s].start = table[s].start
  BY <1>0 DEF SettledInPlace
<1>3. s \in Slot /\ f # NoFile
  BY <1>0 DEF Lookup
<1>4. s = p
  BY <1>0, <1>2, <1>3 DEF TablesSound, GoodTable
<1>5. table[s].length <= table[s].blocks /\ table[s].length \in Nat /\ table[s].blocks \in Nat
  BY <1>0, <1>3 DEF TablesSound, GoodTable, KernelTypeOK, Entry
<1>6. k \in Nat
  BY DEF Index
<1> QED BY <1>1, <1>2, <1>4, <1>5, <1>6

\* A block of a file is on the device.
LEMMA OnDevice ==
  ASSUME Structure, NEW s \in Slot, NEW k \in Index, k < table[s].blocks
  PROVE  table[s].start + k \in Block /\ table[s].start + k \in Extent(table[s])
<1>1. table[s].start \in Nat /\ table[s].blocks \in Nat /\ k \in Nat
  BY DEF Structure, KernelTypeOK, Entry, Index
<1>2. table[s].start + table[s].blocks <= DataBlockCount
  BY DEF Structure, TablesSound, GoodTable
<1> QED BY <1>1, <1>2 DEF Block, Extent, Run

\* Block b of the device is written: no expected block of any file is there, but
\* one that is expected to have changed.
LEMMA BlockContents ==
  ASSUME Structure, Structure', Contents, Mounted, Mounted', clean, NEW b \in Block,
         medium'.sb = medium.sb, medium'.ft = medium.ft,
         \A c \in Block \ {b} : cached'.data[c] = cached.data[c] /\ medium'.data[c] = medium.data[c],
         UNCHANGED <<table, settled, clean>>, CopiedSoFar',
         \A g \in File, k \in Index :
           /\ content'[g][k] # 0 =>
                InPlace(g, k)' \/ (content'[g][k] = content[g][k] /\ \A s \in Lookup(g) :
                  /\ k < LengthOf(g, s) => k < LengthOf(g, s)'
                  /\ k < table[s].blocks => table[s].start + k # b)
           /\ committed'[g][k] # 0 =>
                /\ committed'[g][k] = committed[g][k] /\ content'[g][k] = content[g][k]
                /\ \A s \in Lookup(g) : k < table[s].blocks => table[s].start + k # b
  PROVE  Contents'
<1>0. /\ ReadYourWrites /\ SyncedSurvives /\ CommittedSound /\ SettledInPlace /\ settled \subseteq File
  BY DEF Contents, Structure, GhostTypeOK
<1>1. \A g \in File : Lookup(g)' = Lookup(g)
  BY DEF Lookup
<1>2. ReadYourWrites'
  <2> SUFFICES ASSUME NEW f \in File, NEW k \in Index, content'[f][k] # 0
               PROVE  InPlace(f, k)'
    BY InPlaceRead
  <2>1. CASE InPlace(f, k)'
    BY <2>1
  <2>2. CASE content'[f][k] = content[f][k] /\ \A s \in Lookup(f) :
               /\ k < LengthOf(f, s) => k < LengthOf(f, s)'
               /\ k < table[s].blocks => table[s].start + k # b
    <3>1. PICK s \in Lookup(f) :
            /\ k < LengthOf(f, s) /\ cached.data[table[s].start + k] = content[f][k]
            /\ k < table[s].blocks
      BY <1>0, <2>2, Located
    <3>2. s \in Slot
      BY DEF Lookup
    <3>3. table[s].start + k \in Block \ {b}
      BY <2>2, <3>1, <3>2, OnDevice
    <3>4. cached'.data[table'[s].start + k] = content'[f][k]
      BY <2>2, <3>1, <3>3
    <3>5. k < LengthOf(f, s)' /\ s \in Lookup(f)'
      BY <1>1, <2>2, <3>1
    <3> QED BY <3>4, <3>5 DEF InPlace
  <2> QED BY <2>1, <2>2
<1>3. SyncedSurvives'
  <2> SUFFICES ASSUME NEW f \in settled, NEW k \in Index, committed'[f][k] # 0
               PROVE  Recoverable(f, k, committed[f][k])'
    BY DEF SyncedSurvives
  <2>1. /\ committed'[f][k] = committed[f][k] /\ f \in File
        /\ \A s \in Lookup(f) : k < table[s].blocks => table[s].start + k # b
    BY <1>0
  <2>2. Recoverable(f, k, committed[f][k])
    BY <1>0, <2>1 DEF SyncedSurvives
  <2>3. ASSUME NEW ft \in medium.ft
        PROVE  \E s \in Slot : /\ ft[s].name = f /\ k < ft[s].length
                               /\ medium'.data[ft[s].start + k] = {committed[f][k]}
    <3>1. PICK s \in Slot : /\ ft[s].name = f /\ k < ft[s].length
                            /\ medium.data[ft[s].start + k] = {committed[f][k]}
      BY <2>2 DEF Recoverable
    <3>2. s \in Lookup(f) /\ ft[s].start = table[s].start /\ k < table[s].blocks
      BY <2>1, <3>1, SettledAt
    <3>3. ft[s].start + k \in Block \ {b}
      BY <2>1, <3>2, OnDevice
    <3> QED BY <3>1, <3>3
  <2>4. \A ft \in medium'.ft : \E s \in Slot :
          ft[s].name = f /\ k < ft[s].length /\ medium'.data[ft[s].start + k] = {committed'[f][k]}
    BY <2>1, <2>3
  <2>5. medium'.sb = {"valid"}
    BY <2>2 DEF Recoverable
  <2> QED BY <2>4, <2>5 DEF Recoverable
<1>4. CommittedSound'
  BY <1>0, <1>1 DEF CommittedSound, Mounted
<1>5. SettledInPlace'
  BY <1>0, <1>1 DEF SettledInPlace
<1> QED BY <1>2, <1>3, <1>4, <1>5 DEF Contents

\* The block that an open file writes is in no other file.
LEMMA OwnBlock ==
  ASSUME Structure, ExtentsOwned, Mounted, clean, NEW f \in File, IsOpen(f),
         NEW i \in Index, i < handle[f].blocks,
         NEW g \in File, NEW s \in Lookup(g), NEW k \in Index, k < table[s].blocks,
         g # f \/ k # i
  PROVE  table[s].start + k # handle[f].start + i
<1>0. KernelTypeOK /\ HandleAgrees /\ TablesSound
  BY DEF Structure
<1>1. PICK r \in Slot : r = handle[f].slot
  BY <1>0, OpenFile
<1>2. /\ Lookup(f) = {r} /\ table[r].start = handle[f].start /\ table[r].blocks = handle[f].blocks
      /\ table[r].name = f /\ table[r].start \in Nat
  BY <1>0, <1>1, OpenFile
<1>3. s \in Slot /\ table[s].name = g
  BY DEF Lookup
<1>4. table[r].start + i \in Extent(table[r])
  BY <1>1, <1>2, OnDevice
<1>5. table[s].start + k \in Extent(table[s])
  BY <1>3, OnDevice
<1>6. CASE g = f
  <2>1. s = r /\ k # i /\ k \in Nat /\ i \in Nat
    BY <1>2, <1>6 DEF Index
  <2> QED BY <1>2, <2>1
<1>7. CASE g # f
  <2>1. s # r
    BY <1>2, <1>3, <1>7
  <2>2. Extent(table[s]) \cap Extent(table[r]) = {}
    BY <1>3, <2>1 DEF ExtentsOwned, Agree, Disjoint
  <2> QED BY <1>2, <1>4, <1>5, <2>2
<1> QED BY <1>6, <1>7

\* A block is copied to the new run, which no file has yet.
LEMMA CopyBlockContents ==
  ASSUME Structure, Structure', ExtentsOwned, Contents, CopyBlock
  PROVE  Contents'
<1> DEFINE f == op.file
           b == op.new + op.blk
           a == handle[f].start + op.blk
<1>0. /\ KernelTypeOK /\ DeviceTypeOK /\ HandleAgrees /\ TablesSound /\ DeviceSound /\ CallSound
      /\ CommittedSound /\ CopiedSoFar
  BY DEF Structure, Contents
<1>1. /\ f \in File /\ IsOpen(f) /\ op.index \in Nat /\ op.new \in Nat /\ op.blk \in Nat
      /\ op.new + op.index + 1 <= DataBlockCount /\ handle[f].blocks <= op.index
      /\ op.blk < handle[f].blocks /\ pc = "grow" /\ pc' = "grow" /\ Mounted /\ Mounted'
  BY <1>0 DEF CopyBlock, CallSound, KernelTypeOK, Mounted
<1>2. /\ handle[f].start \in Nat /\ handle[f].blocks \in Nat
      /\ handle[f].start + handle[f].blocks <= DataBlockCount
  BY <1>0, <1>1, OpenFile
<1>3. b \in Block /\ a \in Block /\ b \in InFlight
  BY <1>1, <1>2 DEF Block, InFlight, Run
<1>4. cached.data[a] \in Nat
  BY <1>0, <1>3, DeviceParts
<1>5. /\ DeviceWrite([cached EXCEPT !.data[b] = cached.data[a]])
      /\ UNCHANGED <<table, ft_dirty, handle, content, committed, settled, clean>>
      /\ op' = [op EXCEPT !.blk = op.blk + 1]
  BY DEF CopyBlock, CopyFrom, kernel, ghost
<1>6. op'.file = f /\ op'.new = op.new /\ op'.blk = op.blk + 1
  BY <1>0, <1>5 DEF KernelTypeOK
<1> HIDE DEF a, b
<1>7. /\ medium'.sb = medium.sb /\ medium'.ft = medium.ft /\ cached'.data[b] = cached.data[a]
      /\ \A c \in Block \ {b} :
           cached'.data[c] = cached.data[c] /\ medium'.data[c] = medium.data[c]
  <2>1. pc' \in {"idle", "grow", "write"} /\ UNCHANGED <<table, ft_dirty>>
    BY <1>1, <1>5
  <2> QED BY <1>0, <1>1, <1>3, <1>4, <1>5, <2>1, DataWritten
<1>8. CASE ~clean
  <2>1. /\ settled' \subseteq File
        /\ \A g \in File, k \in Index : content[g][k] = 0 /\ committed[g][k] = 0
    BY <1>0, <1>8, NothingWas DEF Structure, GhostTypeOK
  <2>2. CopiedSoFar'
    BY <1>5, <1>8 DEF CopiedSoFar
  <2> QED BY <1>1, <1>5, <2>1, <2>2
          DEF Contents, ReadYourWrites, SyncedSurvives, CommittedSound, SettledInPlace
<1>9. CASE clean
  <2>1. InFlight \cap Extents(table) = {}
    BY <1>1, <1>9 DEF ExtentsOwned
  <2>2. ASSUME NEW s \in Slot, NEW k \in Index, k < table[s].blocks PROVE table[s].start + k # b
    <3>1. table[s].start + k \in Extents(table)
      BY <2>2, OnDevice DEF Extents
    <3> QED BY <1>3, <2>1, <3>1
  <2>3. CopiedSoFar'
    <3> SUFFICES ASSUME NEW i \in 0 .. op.blk
                 PROVE  cached'.data[op.new + i] = cached'.data[handle[f].start + i]
      BY <1>1, <1>5, <1>6 DEF CopiedSoFar
    <3>1. PICK s \in Slot : /\ s = handle[f].slot /\ table[s].start = handle[f].start
                            /\ table[s].blocks = handle[f].blocks
      BY <1>0, <1>1, OpenFile
    <3>2. i \in Nat /\ i < handle[f].blocks
      BY <1>1, <1>2
    <3>3. handle[f].start + i \in Block /\ handle[f].start + i \in Extents(table)
      <4>1. handle[f].start + i \in Extent(table[s])
        BY <1>2, <3>1, <3>2 DEF Extent, Run
      <4> QED BY <1>2, <3>2, <4>1 DEF Block, Extents
    <3>4. cached'.data[handle[f].start + i] = cached.data[handle[f].start + i]
      BY <1>3, <1>7, <2>1, <3>3
    <3>5. CASE i = op.blk
      BY <1>7, <3>4, <3>5 DEF a, b
    <3>6. CASE i # op.blk
      <4>1. i \in 0 .. op.blk - 1 /\ op.new + i \in Block \ {b}
        <5>1. i < op.blk /\ op.blk < op.index + 1
          BY <1>1, <1>2, <3>2, <3>6
        <5>2. op.new + i < DataBlockCount /\ op.new + i # op.new + op.blk /\ op.new + i \in Nat
          BY <1>1, <3>2, <5>1
        <5>3. i \in 0 .. op.blk - 1
          BY <1>1, <3>2, <5>1
        <5> QED BY <5>2, <5>3 DEF b, Block
      <4>2. cached.data[op.new + i] = cached.data[handle[f].start + i]
        BY <1>0, <1>1, <1>9, <4>1 DEF CopiedSoFar
      <4> QED BY <1>7, <3>4, <4>1, <4>2
    <3> QED BY <3>5, <3>6
  <2>4. ASSUME NEW g \in File, NEW k \in Index
        PROVE  /\ content'[g][k] # 0 =>
                    content'[g][k] = content[g][k] /\ \A s \in Lookup(g) :
                      /\ k < LengthOf(g, s) => k < LengthOf(g, s)'
                      /\ k < table[s].blocks => table[s].start + k # b
               /\ committed'[g][k] # 0 =>
                    /\ committed'[g][k] = committed[g][k] /\ content'[g][k] = content[g][k]
                    /\ \A s \in Lookup(g) : k < table[s].blocks => table[s].start + k # b
    <3>1. \A s \in Lookup(g) : s \in Slot
      BY DEF Lookup
    <3>2. \A s \in Lookup(g) : LengthOf(g, s)' = LengthOf(g, s)
      BY <1>5 DEF LengthOf, IsOpen
    <3> QED BY <1>5, <2>2, <3>1, <3>2
  <2>5. UNCHANGED <<table, settled, clean>>
    BY <1>5
  <2> QED BY <1>1, <1>3, <1>7, <1>9, <2>3, <2>4, <2>5, BlockContents
<1> QED BY <1>8, <1>9

\* The client's block is written, or may have been.
LEMMA WriteContents ==
  ASSUME Structure, Structure', ExtentsOwned, Contents, WriteBlock \/ WriteFail
  PROVE  Contents'
<1>0. /\ KernelTypeOK /\ DeviceTypeOK /\ HandleAgrees /\ TablesSound /\ DeviceSound /\ CallSound
      /\ CommittedSound
  BY DEF Structure, Contents
<1>1. PICK f \in File : f = op.file /\ IsOpen(f)
  BY <1>0 DEF CallSound, WriteBlock, WriteFail
<1>2. PICK i \in Index : i = op.index /\ i < handle[f].blocks
  BY <1>0, <1>1 DEF CallSound, WriteBlock, WriteFail
<1>3. /\ pc = "write" /\ pc' = "idle" /\ Mounted /\ Mounted' /\ calls \in Nat
      /\ UNCHANGED <<table, ft_dirty, settled, clean>>
  BY DEF WriteBlock, WriteFail, kernel, Mounted, Structure, GhostTypeOK
<1>4. PICK s \in Slot : /\ s = handle[f].slot /\ table[s].start = handle[f].start
                        /\ table[s].blocks = handle[f].blocks /\ Lookup(f) = {s}
  BY <1>0, <1>1, OpenFile
<1>5. PICK b \in Block : b = handle[f].start + i
  BY <1>2, <1>4, OnDevice
<1>6. /\ content \in [File -> [Index -> Nat]] /\ committed \in [File -> [Index -> Nat]]
      /\ settled' \subseteq File /\ 0 \in Nat
  BY <1>3 DEF Structure, GhostTypeOK
<1>7. /\ \A g \in File, k \in Index : g # f \/ k # i =>
           content'[g][k] = content[g][k] /\ committed'[g][k] = committed[g][k]
      /\ committed'[f][i] = 0
      /\ content'[f][i] # 0 => WriteBlock /\ content'[f][i] = calls
      /\ ~clean => content'[f][i] = 0
  <2>1. CASE WriteBlock
    BY <1>1, <1>2, <1>6, <2>1 DEF WriteBlock
  <2>2. CASE WriteFail
    BY <1>1, <1>2, <1>6, <2>2 DEF WriteFail
  <2> QED BY <2>1, <2>2
<1>8. CASE ~clean
  <2>1. \A g \in File, k \in Index : content[g][k] = 0 /\ committed[g][k] = 0
    BY <1>0, <1>8, NothingWas
  <2>2. \A g \in File, k \in Index : content'[g][k] = 0 /\ committed'[g][k] = 0
    BY <1>7, <1>8, <2>1
  <2> QED BY <1>3, <1>6, <2>2, NothingExpected
<1>9. CASE clean
  <2>1. /\ medium'.sb = medium.sb /\ medium'.ft = medium.ft
        /\ WriteBlock => cached'.data[b] = calls
        /\ \A c \in Block \ {b} :
             cached'.data[c] = cached.data[c] /\ medium'.data[c] = medium.data[c]
    <3>1. CASE UNCHANGED device /\ ~WriteBlock
      BY <3>1 DEF device
    <3>2. CASE DeviceWrite([cached EXCEPT !.data[b] = calls])
      <4>1. pc' \in {"idle", "grow", "write"} /\ UNCHANGED <<table, ft_dirty>>
        BY <1>3
      <4> QED BY <1>0, <1>3, <3>2, <4>1, DataWritten
    <3> QED BY <1>1, <1>2, <1>5, <3>1, <3>2 DEF WriteBlock, WriteFail
  <2>2. /\ \A g \in File \ {f} : handle'[g] = handle[g]
        /\ handle'[f].slot = s /\ handle[f].length <= handle'[f].length
        /\ handle[f].length \in Nat /\ handle'[f].length \in Nat
        /\ WriteBlock => i < handle'[f].length
    <3>1. CASE handle' = handle /\ ~WriteBlock
      BY <1>0, <1>4, <3>1 DEF KernelTypeOK
    <3>2. CASE WriteBlock
      <4>1. PICK l \in Nat :
              /\ handle[f].length <= l /\ i < l
              /\ handle' = [handle EXCEPT ![f] = [slot |-> handle[f].slot,
                   start |-> handle[f].start, blocks |-> handle[f].blocks, length |-> l]]
        BY <1>0, <1>1, <1>2, <3>2, WriteBlockFacts
      <4> QED BY <1>0, <1>4, <4>1 DEF KernelTypeOK
    <3> QED BY <3>1, <3>2 DEF WriteFail, kernel
  <2>3. ASSUME NEW g \in File, NEW r \in Lookup(g), NEW k \in Index, k < LengthOf(g, r)
        PROVE  k < LengthOf(g, r)'
    <3>0. k \in Nat
      BY DEF Index
    <3>1. CASE g = f
      <4>1. LengthOf(g, r) = handle[f].length /\ LengthOf(g, r)' = handle'[f].length
        BY <1>1, <2>2, <3>1 DEF LengthOf, IsOpen, Closed, Slot
      <4> QED BY <2>2, <2>3, <3>0, <4>1
    <3>2. CASE g # f
      BY <1>3, <2>2, <2>3, <3>2 DEF LengthOf, IsOpen
    <3> QED BY <3>1, <3>2
  <2>4. content'[f][i] # 0 => InPlace(f, i)'
    <3>1. SUFFICES ASSUME content'[f][i] # 0 PROVE InPlace(f, i)'
      OBVIOUS
    <3>2. cached'.data[table'[s].start + i] = content'[f][i] /\ i < handle'[f].length
      BY <1>3, <1>4, <1>5, <1>7, <2>1, <2>2, <3>1
    <3>3. s \in Lookup(f)' /\ LengthOf(f, s)' = handle'[f].length
      BY <1>3, <1>4, <2>2 DEF Lookup, LengthOf, IsOpen, Closed, Slot
    <3> QED BY <3>2, <3>3 DEF InPlace
  <2>5. ASSUME NEW g \in File, NEW k \in Index, g # f \/ k # i, NEW r \in Lookup(g), k < table[r].blocks
        PROVE  table[r].start + k # b
    BY <1>1, <1>2, <1>3, <1>5, <1>9, <2>5, OwnBlock
  <2>6. ASSUME NEW g \in File, NEW k \in Index
        PROVE  /\ content'[g][k] # 0 =>
                    InPlace(g, k)' \/ (content'[g][k] = content[g][k] /\ \A r \in Lookup(g) :
                      /\ k < LengthOf(g, r) => k < LengthOf(g, r)'
                      /\ k < table[r].blocks => table[r].start + k # b)
               /\ committed'[g][k] # 0 =>
                    /\ committed'[g][k] = committed[g][k] /\ content'[g][k] = content[g][k]
                    /\ \A r \in Lookup(g) : k < table[r].blocks => table[r].start + k # b
    <3>1. CASE g = f /\ k = i
      BY <1>7, <2>4, <3>1
    <3>2. CASE g # f \/ k # i
      BY <1>7, <2>3, <2>5, <3>2
    <3> QED BY <3>1, <3>2
  <2>7. CopiedSoFar' /\ UNCHANGED <<table, settled, clean>>
    BY <1>3 DEF CopiedSoFar
  <2> QED BY <1>3, <1>9, <2>1, <2>6, <2>7, BlockContents
<1> QED BY <1>8, <1>9

\* A flush leaves on the medium what was recoverable before it.
LEMMA FlushKeeps ==
  ASSUME Structure, cached' = cached, medium' = Only(cached), NEW f \in File, NEW k \in Index,
         NEW v, Recoverable(f, k, v)
  PROVE  /\ medium'.sb = {"valid"} /\ medium'.ft = {cached.ft}
         /\ \E s \in Slot : /\ cached.ft[s].name = f /\ k < cached.ft[s].length
                            /\ cached.data[cached.ft[s].start + k] = v
                            /\ medium'.data[cached.ft[s].start + k] = {v}
<1>0. DeviceTypeOK /\ DeviceSound /\ TablesSound
  BY DEF Structure
<1>1. /\ medium'.sb = {cached.sb} /\ medium'.ft = {cached.ft}
      /\ \A b \in Block : medium'.data[b] = {cached.data[b]}
  BY <1>0, OnlyFacts DEF DeviceTypeOK
<1>2. cached.sb = "valid" /\ cached.ft \in medium.ft
  BY <1>0 DEF DeviceSound, Recoverable
<1>3. PICK s \in Slot : /\ cached.ft[s].name = f /\ k < cached.ft[s].length
                        /\ medium.data[cached.ft[s].start + k] = {v}
  BY <1>2 DEF Recoverable
<1>4. cached.ft[s].start + k \in Block
  <2>1. /\ cached.ft[s].start \in Nat /\ cached.ft[s].length \in Nat /\ cached.ft[s].blocks \in Nat
        /\ k \in Nat
    BY <1>0, DeviceParts DEF Entry, Index
  <2>2. /\ cached.ft[s].length <= cached.ft[s].blocks
        /\ cached.ft[s].start + cached.ft[s].blocks <= DataBlockCount
    BY <1>0, <1>2 DEF TablesSound, GoodTable
  <2> QED BY <1>3, <2>1, <2>2 DEF Block
<1>5. cached.data[cached.ft[s].start + k] = v
  BY <1>0, <1>3, <1>4 DEF DeviceSound
<1> QED BY <1>1, <1>2, <1>3, <1>4, <1>5

\* The end of a growth: the new run has what the old one had, and what else was
\* recoverable still is.
LEMMA GrowCommitContents ==
  ASSUME Structure, Structure', Contents, GrowCommit
  PROVE  Contents'
<1>0. /\ KernelTypeOK /\ DeviceTypeOK /\ HandleAgrees /\ TablesSound /\ DeviceSound /\ CallSound
      /\ ReadYourWrites /\ SyncedSurvives /\ CopiedSoFar /\ CommittedSound /\ SettledInPlace
      /\ settled \subseteq File
  BY DEF Structure, Contents, GhostTypeOK
<1>1. PICK f \in File : f = op.file /\ IsOpen(f)
  BY <1>0 DEF CallSound, GrowCommit
<1>2. PICK s \in Slot : s = handle[f].slot
  BY <1>0, <1>1, OpenFile
<1>3. /\ table[s].name = f /\ Lookup(f) = {s} /\ f # NoFile
      /\ handle[f].start = table[s].start /\ handle[f].length <= handle[f].blocks
      /\ handle[f].length \in Nat /\ handle[f].blocks \in Nat
  BY <1>0, <1>1, <1>2, OpenFile
<1>4. /\ handle' = [handle EXCEPT ![f] = [slot |-> handle[f].slot, start |-> op.new,
                       blocks |-> op.index + 1, length |-> handle[f].length]]
      /\ table' = [table EXCEPT ![s] = [name |-> f, start |-> op.new,
                       blocks |-> op.index + 1, length |-> table[s].length]]
  BY <1>0, <1>1, <1>2, GrowCommitFacts
<1>5. /\ handle'[f].length = handle[f].length /\ handle'[f].slot = s
      /\ \A g \in File \ {f} : handle'[g] = handle[g]
      /\ table'[s].name = f /\ table'[s].start = op.new /\ table'[s].length = table[s].length
      /\ \A r \in Slot \ {s} : table'[r] = table[r]
  BY <1>0, <1>2, <1>4 DEF KernelTypeOK
<1>6. /\ pc = "grow" /\ pc' = "write" /\ op' = op /\ cached' = cached /\ medium' = Only(cached)
      /\ UNCHANGED <<content, committed, clean>> /\ settled' = settled \ {f}
      /\ op.blk = handle[f].blocks /\ Mounted /\ Mounted'
  BY <1>1 DEF GrowCommit, Barrier, Mounted
<1>7. \A g \in File : Lookup(g)' = Lookup(g)
  BY <1>3, <1>5 DEF Lookup
<1>8. ASSUME NEW g \in File \ {f}, NEW r \in Lookup(g)
      PROVE  table'[r] = table[r] /\ LengthOf(g, r)' = LengthOf(g, r)
  <2>1. r \in Slot \ {s}
    BY <1>3 DEF Lookup
  <2> QED BY <1>5, <2>1 DEF LengthOf, IsOpen
<1>9. ReadYourWrites'
  <2> SUFFICES ASSUME clean, NEW g \in File, NEW k \in Index, content[g][k] # 0
               PROVE  InPlace(g, k)'
    BY <1>6, InPlaceRead
  <2>1. PICK r \in Lookup(g) :
          k < LengthOf(g, r) /\ cached.data[table[r].start + k] = content[g][k]
    BY <1>0, <1>6, Located
  <2>2. CASE g # f
    <3>1. k < LengthOf(g, r)' /\ cached'.data[table'[r].start + k] = content'[g][k] /\ r \in Lookup(g)'
      BY <1>6, <1>7, <1>8, <2>1, <2>2
    <3> QED BY <3>1 DEF InPlace
  <2>3. CASE g = f
    <3>1. LengthOf(f, s) = handle[f].length /\ LengthOf(f, s)' = handle[f].length
      BY <1>1, <1>5 DEF LengthOf, IsOpen, Closed, Slot
    <3>2. r = s /\ k < handle[f].length /\ k \in Nat
      BY <1>3, <2>1, <2>3, <3>1 DEF Index
    <3>3. k \in 0 .. op.blk - 1
      BY <1>3, <1>6, <3>2
    <3>4. cached.data[op.new + k] = cached.data[table[s].start + k]
      BY <1>0, <1>1, <1>3, <1>6, <3>3 DEF CopiedSoFar
    <3>5. cached'.data[table'[s].start + k] = content'[f][k] /\ k < LengthOf(f, s)' /\ s \in Lookup(f)'
      BY <1>3, <1>5, <1>6, <1>7, <2>1, <2>3, <3>1, <3>2, <3>4
    <3> QED BY <2>3, <3>5 DEF InPlace
  <2> QED BY <2>2, <2>3
<1>10. SyncedSurvives'
  <2> SUFFICES ASSUME clean, NEW g \in settled, NEW k \in Index, committed[g][k] # 0
               PROVE  Recoverable(g, k, committed[g][k])'
    BY <1>6 DEF SyncedSurvives
  <2>1. Recoverable(g, k, committed[g][k]) /\ g \in File
    BY <1>0 DEF SyncedSurvives
  <2>2. /\ medium'.sb = {"valid"} /\ medium'.ft = {cached.ft}
        /\ \E r \in Slot : /\ cached.ft[r].name = g /\ k < cached.ft[r].length
                           /\ medium'.data[cached.ft[r].start + k] = {committed[g][k]}
    BY <1>6, <2>1, FlushKeeps
  <2> QED BY <1>6, <2>2 DEF Recoverable
<1>11. CopiedSoFar'
  BY <1>6 DEF CopiedSoFar
<1>12. CommittedSound'
  <2>1. ASSUME NEW g \in File, NEW k \in Index, committed[g][k] # 0
        PROVE  \E r \in Lookup(g)' : k < table'[r].length
    <3>1. PICK r \in Lookup(g) : k < table[r].length
      BY <1>0, <1>6, <2>1 DEF CommittedSound
    <3> QED BY <1>3, <1>5, <1>7, <1>8, <3>1
  <2> QED BY <1>0, <1>6, <2>1 DEF CommittedSound
<1>13. SettledInPlace'
  <2>1. medium'.ft = {cached.ft} /\ cached.ft \in medium.ft
    BY <1>0, <1>6, OnlyFacts DEF DeviceTypeOK, DeviceSound
  <2> QED BY <1>0, <1>6, <1>7, <1>8, <2>1 DEF SettledInPlace
<1> QED BY <1>9, <1>10, <1>11, <1>12, <1>13 DEF Contents

\* sync() writes the table: one more table that a power loss may leave.
LEMMA TableContents ==
  ASSUME Structure, Structure', Contents, Mounted, pc' \in {"idle", "sync_flush"},
         DeviceWrite(SavedTable), pc' = "sync_flush" => ~ft_dirty',
         UNCHANGED <<table, handle, content, committed, settled, clean>>
  PROVE  Contents'
<1>0. /\ KernelTypeOK /\ DeviceTypeOK /\ TablesSound /\ DeviceSound
      /\ ReadYourWrites /\ SyncedSurvives /\ CommittedSound /\ SettledInPlace
      /\ settled \subseteq File
  BY DEF Structure, Contents, GhostTypeOK
<1>1. /\ medium'.sb = medium.sb /\ medium'.ft = medium.ft \cup {table}
      /\ cached'.data = cached.data /\ medium'.data = medium.data
  BY <1>0, TableWritten
<1>2. Mounted' /\ \A g \in File : Lookup(g)' = Lookup(g)
  BY DEF Mounted, Lookup
<1>3. ReadYourWrites'
  BY <1>0, <1>1, <1>2 DEF ReadYourWrites, IsOpen
<1>4. SyncedSurvives'
  <2> SUFFICES ASSUME clean, NEW f \in settled, NEW k \in Index, committed[f][k] # 0
               PROVE  Recoverable(f, k, committed[f][k])'
    BY DEF SyncedSurvives
  <2>1. Recoverable(f, k, committed[f][k])
    BY <1>0 DEF SyncedSurvives
  <2>2. cached.ft \in medium.ft
    BY <1>0 DEF DeviceSound
  <2>3. PICK s \in Slot : /\ cached.ft[s].name = f
                          /\ medium.data[cached.ft[s].start + k] = {committed[f][k]}
    BY <2>1, <2>2 DEF Recoverable
  <2>4. s \in Lookup(f) /\ cached.ft[s].start = table[s].start /\ k < table[s].length
    BY <2>2, <2>3, SettledAt
  <2>5. /\ table[s].name = f /\ k < table[s].length
        /\ medium.data[table[s].start + k] = {committed[f][k]}
    BY <2>3, <2>4 DEF Lookup
  <2> QED BY <1>1, <2>1, <2>5 DEF Recoverable
<1>5. CopiedSoFar'
  BY DEF CopiedSoFar
<1>6. CommittedSound'
  BY <1>0, <1>2 DEF CommittedSound
<1>7. SettledInPlace'
  BY <1>0, <1>1, <1>2 DEF SettledInPlace, Lookup
<1> QED BY <1>3, <1>4, <1>5, <1>6, <1>7 DEF Contents

\* The end of sync(): the table on the medium is the one in RAM, with the length
\* of the file that is committed.
LEMMA SyncFlushContents ==
  ASSUME Structure, Structure', Contents, SyncFlush
  PROVE  Contents'
<1>0. /\ KernelTypeOK /\ DeviceTypeOK /\ HandleAgrees /\ TablesSound /\ DeviceSound /\ CallSound
      /\ ReadYourWrites /\ CommittedSound
  BY DEF Structure, Contents
<1>1. PICK f \in File : f = op.file /\ IsOpen(f)
  BY <1>0 DEF CallSound, SyncFlush
<1>2. PICK s \in Slot : s = handle[f].slot /\ Lookup(f) = {s} /\ table[s].length = handle[f].length
  BY <1>0, <1>1, OpenFile DEF CallSound, SyncFlush
<1>3. /\ pc = "sync_flush" /\ pc' = "idle" /\ cached' = cached /\ medium' = Only(cached)
      /\ UNCHANGED <<table, handle, content, clean>> /\ settled' = File
      /\ committed' = [committed EXCEPT ![f] = content[f]] /\ Mounted /\ Mounted'
  BY <1>1 DEF SyncFlush, Flushed, Barrier, kernel, Mounted
<1>4. cached.ft = table /\ cached.sb = "valid"
  BY <1>0, <1>3 DEF DeviceSound, Mounted
<1>5. /\ medium'.sb = {"valid"} /\ medium'.ft = {table}
      /\ \A b \in Block : medium'.data[b] = {cached.data[b]}
  BY <1>0, <1>3, <1>4, OnlyFacts DEF DeviceTypeOK
<1>6. \A g \in File : Lookup(g)' = Lookup(g)
  BY <1>3 DEF Lookup
<1>7. ASSUME NEW g \in File, NEW k \in Index, committed'[g][k] # 0
      PROVE  /\ content[g][k] = committed'[g][k] /\ clean
             /\ \E r \in Lookup(g) : k < table[r].length
  <2>1. committed \in [File -> [Index -> Nat]]
    BY DEF Structure, GhostTypeOK
  <2>2. CASE g = f
    <3>1. content[f][k] = committed'[f][k]
      BY <1>3, <2>1
    <3>2. clean
      BY <1>0, <1>7, <2>2, <3>1 DEF CommittedSound
    <3>3. PICK r \in Lookup(f) : k < LengthOf(f, r)
      BY <1>0, <1>3, <1>7, <2>2, <3>1, <3>2, Located
    <3>4. r = s /\ LengthOf(f, r) = table[s].length
      BY <1>1, <1>2 DEF LengthOf
    <3> QED BY <2>2, <3>1, <3>2, <3>3, <3>4
  <2>3. CASE g # f
    <3>1. committed'[g] = committed[g]
      BY <1>3, <2>1, <2>3
    <3> QED BY <1>0, <1>3, <1>7, <3>1 DEF CommittedSound
  <2> QED BY <2>2, <2>3
<1>8. ReadYourWrites'
  BY <1>0, <1>3, <1>6 DEF ReadYourWrites, IsOpen
<1>9. SyncedSurvives'
  <2> SUFFICES ASSUME NEW g \in File, NEW k \in Index, committed'[g][k] # 0
               PROVE  Recoverable(g, k, committed[g][k])'
    BY <1>3 DEF SyncedSurvives
  <2>1. content[g][k] = committed'[g][k] /\ clean /\ \E r \in Lookup(g) : k < table[r].length
    BY <1>7
  <2>2. PICK r \in Lookup(g) : k < table[r].length
    BY <2>1
  <2>3. PICK q \in Lookup(g) : /\ cached.data[table[q].start + k] = content[g][k]
                               /\ k < table[q].blocks
    BY <1>0, <1>3, <2>1, Located
  <2>4. q = r /\ r \in Slot /\ table[r].name = g
    BY OneSlot DEF Lookup
  <2>5. table[r].start + k \in Block
    BY <2>3, <2>4, OnDevice
  <2>6. medium'.data[table[r].start + k] = {committed'[g][k]}
    BY <1>5, <2>1, <2>3, <2>4, <2>5
  <2> QED BY <1>5, <2>2, <2>4, <2>6 DEF Recoverable
<1>10. CopiedSoFar'
  BY <1>3 DEF CopiedSoFar
<1>11. CommittedSound'
  BY <1>0, <1>3, <1>6, <1>7 DEF CommittedSound
<1>12. SettledInPlace'
  BY <1>3, <1>5, <1>6 DEF SettledInPlace, Lookup
<1> QED BY <1>8, <1>9, <1>10, <1>11, <1>12 DEF Contents

\* A power loss: what was recoverable is on the device.
LEMMA CrashContents ==
  ASSUME Structure, Contents, Crash
  PROVE  Contents'
<1>0. /\ DeviceTypeOK /\ TablesSound /\ SyncedSurvives /\ CommittedSound /\ settled \subseteq File
  BY DEF Structure, Contents, GhostTypeOK
<1>1. /\ cached' \in Device /\ medium' = Only(cached')
      /\ cached'.sb \in medium.sb /\ cached'.ft \in medium.ft
      /\ \A b \in Block : cached'.data[b] \in medium.data[b]
  BY <1>0, CrashFacts
<1>2. /\ medium'.sb = {cached'.sb} /\ medium'.ft = {cached'.ft}
      /\ \A b \in Block : medium'.data[b] = {cached'.data[b]}
  BY <1>1, OnlyLeft
<1>3. pc' = "off" /\ clean' = clean /\ settled' = File /\ content' = committed' /\ ~Mounted'
  BY DEF Crash, Mounted
<1>4. ASSUME NEW f \in File, NEW k \in Index, committed'[f][k] # 0
      PROVE  f \in settled /\ committed'[f][k] = committed[f][k] /\ clean
  <2>1. f \in settled /\ committed'[f] = committed[f]
    BY <1>4 DEF Crash
  <2>2. committed[f][k] # 0
    BY <1>4, <2>1
  <2>3. clean
    BY <1>0, <2>2 DEF CommittedSound
  <2> QED BY <2>1, <2>3
<1>5. SyncedSurvives'
  <2> SUFFICES ASSUME NEW f \in File, NEW k \in Index, committed'[f][k] # 0
               PROVE  Recoverable(f, k, committed[f][k])'
    BY <1>3 DEF SyncedSurvives
  <2>1. f \in settled /\ committed'[f][k] = committed[f][k] /\ clean
    BY <1>4
  <2>2. Recoverable(f, k, committed[f][k])
    BY <1>0, <2>1 DEF SyncedSurvives
  <2>3. cached'.sb = "valid"
    BY <1>1, <2>2 DEF Recoverable
  <2>4. PICK s \in Slot : /\ cached'.ft[s].name = f /\ k < cached'.ft[s].length
                          /\ medium.data[cached'.ft[s].start + k] = {committed[f][k]}
    BY <1>1, <2>2 DEF Recoverable
  <2>5. cached'.ft[s].start + k \in Block
    <3>1. /\ cached'.ft[s].start \in Nat /\ cached'.ft[s].length \in Nat /\ k \in Nat
          /\ cached'.ft[s].blocks \in Nat
      BY <1>1 DEF Device, Entry, Index
    <3>2. /\ cached'.ft[s].length <= cached'.ft[s].blocks
          /\ cached'.ft[s].start + cached'.ft[s].blocks <= DataBlockCount
      BY <1>0, <1>1 DEF TablesSound, GoodTable
    <3> QED BY <2>4, <3>1, <3>2 DEF Block
  <2>6. medium'.data[cached'.ft[s].start + k] = {committed'[f][k]}
    BY <1>1, <1>2, <2>1, <2>4, <2>5
  <2> QED BY <1>2, <2>3, <2>4, <2>6 DEF Recoverable
<1>6. CommittedSound'
  BY <1>3, <1>4 DEF CommittedSound
<1> QED BY <1>3, <1>5, <1>6 DEF Contents, ReadYourWrites, CopiedSoFar, SettledInPlace

\* Mounting: what is on the device is what is read.
LEMMA MountContents ==
  ASSUME Structure, Structure', Contents, Mount
  PROVE  Contents'
<1>0. /\ DeviceTypeOK /\ DeviceSound /\ NothingInRam /\ SyncedSurvives /\ CommittedSound
  BY DEF Structure, Contents
<1>1. /\ pc = "off" /\ pc' = "idle" /\ table' = cached.ft /\ handle' = handle
      /\ cached' = cached /\ medium' = medium /\ settled' = settled
      /\ clean' = Agree(cached.bm, cached.ft)
      /\ content' = (IF clean' THEN content ELSE Unknown)
      /\ committed' = (IF clean' THEN committed ELSE Unknown)
  BY DEF Mount, device
<1>2. settled = File /\ content = committed /\ medium = Only(cached) /\ ~Mounted /\ Mounted'
  BY <1>0, <1>1 DEF CommittedSound, DeviceSound, Mounted
<1>3. CASE ~clean'
  <2>1. \A f \in File, k \in Index : content'[f][k] = 0 /\ committed'[f][k] = 0
    BY <1>1, <1>3, ValueFacts
  <2> QED BY <1>1, <1>2, <2>1, NothingExpected
<1>4. CASE clean'
  <2>0. content' = content /\ committed' = content
    BY <1>1, <1>2, <1>4
  <2>1. ASSUME NEW f \in File, NEW k \in Index, content[f][k] # 0
        PROVE  clean /\ Recoverable(f, k, content[f][k])
    <3>1. clean
      BY <1>0, <2>1 DEF CommittedSound
    <3> QED BY <1>0, <1>2, <2>1, <3>1 DEF SyncedSurvives
  <2>2. medium'.ft = {cached.ft}
    BY <1>0, <1>1, <1>2, OnlyFacts DEF DeviceTypeOK
  <2>3. ASSUME NEW f \in File, NEW k \in Index, content[f][k] # 0
        PROVE  \E s \in Lookup(f)' : /\ k < table'[s].length
                                     /\ cached'.data[table'[s].start + k] = content'[f][k]
    <3>1. \E s \in Slot : /\ cached.ft[s].name = f /\ k < cached.ft[s].length
                          /\ cached.data[cached.ft[s].start + k] = content[f][k]
      BY <1>1, <1>2, <2>1, <2>3, FlushKeeps
    <3> QED BY <1>1, <2>0, <3>1 DEF Lookup
  <2>4. \A f \in File : ~IsOpen(f)'
    BY <1>0, <1>1, <1>2 DEF NothingInRam, IsOpen
  <2>5. ReadYourWrites'
    BY <2>0, <2>3, <2>4 DEF ReadYourWrites
  <2>6. SyncedSurvives'
    BY <1>1, <1>2, <2>0, <2>1 DEF SyncedSurvives, Recoverable
  <2>7. CommittedSound'
    BY <1>1, <1>2, <1>4, <2>0, <2>3 DEF CommittedSound
  <2>8. SettledInPlace'
    BY <1>1, <2>2 DEF SettledInPlace, Lookup
  <2> QED BY <1>1, <2>5, <2>6, <2>7, <2>8 DEF Contents, CopiedSoFar
<1> QED BY <1>3, <1>4

\* The steps that change no table, handle, data or expectation.
LEMMA ContentsUntouched ==
  ASSUME Contents, Mounted, Mounted', cached'.data = cached.data,
         medium'.sb = medium.sb, medium'.ft = medium.ft, medium'.data = medium.data,
         UNCHANGED <<table, handle, content, committed, settled, clean>>, CopiedSoFar'
  PROVE  Contents'
<1>0. \A f : (IsOpen(f)' <=> IsOpen(f)) /\ Lookup(f)' = Lookup(f)
  BY DEF IsOpen, Lookup
<1>1. ReadYourWrites'
  BY <1>0 DEF Contents, ReadYourWrites
<1>2. SyncedSurvives'
  BY DEF Contents, SyncedSurvives, Recoverable
<1>3. CommittedSound'
  BY <1>0 DEF Contents, CommittedSound, Mounted
<1>4. SettledInPlace'
  BY <1>0 DEF Contents, SettledInPlace
<1> QED BY <1>1, <1>2, <1>3, <1>4 DEF Contents

\* Every action keeps the contents.
LEMMA NextContents ==
  ASSUME Structure, Structure', ExtentsOwned, Contents, [Next]_vars
  PROVE  Contents'
<1>0. /\ KernelTypeOK /\ DeviceTypeOK /\ TablesSound /\ DeviceSound /\ CommittedSound
      /\ settled' \subseteq File
  BY DEF Structure, Contents, GhostTypeOK
<1>1. CASE LoadError
  BY <1>0, <1>1, NothingExpected, ValueFacts DEF LoadError
<1>2. CASE FormatSuperblock \/ FormatBitmap \/ FormatTable \/ FormatFlush
  <2>1. /\ pc \notin {"off"} /\ ~Mounted /\ pc' \notin {"off", "grow"}
        /\ UNCHANGED <<content, committed>>
    BY <1>2 DEF FormatSuperblock, FormatBitmap, FormatTable, FormatWrite, FormatFlush, Mounted,
       ghost
  <2> QED BY <1>0, <2>1, NothingWas, NothingExpected
<1>3. ASSUME NEW f \in File, OpenTableFull(f) PROVE Contents'
  <2>1. CopiedSoFar'
    BY <1>3 DEF OpenTableFull, Call, CopiedSoFar
  <2> QED BY <1>3, <2>1, ContentsUntouched DEF OpenTableFull, Call, device, ghost, Mounted
<1>4. ASSUME NEW f \in File, Close(f) \/ SyncCall(f) PROVE Contents'
  BY <1>4, SavedContents DEF Close, SyncCall, Call, device, ghost
<1>5. ASSUME NEW f \in File, NEW k \in Index, WriteCall(f, k) PROVE Contents'
  <2>1. CopiedSoFar'
    BY <1>5 DEF WriteCall, CopiedSoFar
  <2> QED BY <1>5, <2>1, ContentsUntouched DEF WriteCall, Call, kernel, device, ghost, Mounted
<1>6. ASSUME NEW f \in File, NEW k \in Index, GrowCall(f, k) PROVE Contents'
  <2>1. CopiedSoFar'
    <3>1. op'.blk = 0
      BY <1>6 DEF GrowCall
    <3> QED BY <3>1 DEF CopiedSoFar
  <2> QED BY <1>6, <2>1, ContentsUntouched DEF GrowCall, Call, device, ghost, Mounted
<1>7. CASE GrowFail
  <2>1. CopiedSoFar'
    BY <1>7 DEF GrowFail, CopiedSoFar
  <2> QED BY <1>7, <2>1, ContentsUntouched DEF GrowFail, device, ghost, Mounted
<1>8. CASE SyncBitmap \/ SyncTable \/ SyncFail
  <2>1. /\ Mounted /\ Mounted' /\ pc' \in {"idle", "sync_ft", "sync_flush"} /\ CopiedSoFar'
        /\ UNCHANGED <<table, handle, content, committed, settled, clean>>
        /\ UNCHANGED device \/ DeviceWrite(SavedBitmap) \/ DeviceWrite(SavedTable)
    BY <1>8 DEF SyncBitmap, SyncTable, SyncFail, kernel, ghost, Mounted, CopiedSoFar
  <2>2. CASE UNCHANGED device
    BY <2>1, <2>2, ContentsUntouched DEF Contents, device
  <2>3. CASE ~UNCHANGED device /\ (SyncBitmap \/ (SyncFail /\ pc = "sync_bm"))
    <3>1. /\ DeviceWrite(SavedBitmap) /\ pc' \in {"idle", "sync_ft"} /\ UNCHANGED <<table, ft_dirty>>
          /\ bitmap \subseteq Block
      BY <1>0, <2>3 DEF SyncBitmap, SyncFail, kernel, KernelTypeOK
    <3>2. /\ medium'.sb = medium.sb /\ medium'.ft = medium.ft
          /\ cached'.data = cached.data /\ medium'.data = medium.data
      BY <1>0, <2>1, <3>1, BitmapWritten
    <3> QED BY <2>1, <3>2, ContentsUntouched DEF Contents
  <2>4. CASE ~UNCHANGED device /\ (SyncTable \/ (SyncFail /\ pc # "sync_bm"))
    <3>1. /\ DeviceWrite(SavedTable) /\ pc' \in {"idle", "sync_flush"}
          /\ pc' = "sync_flush" => ~ft_dirty'
      BY <2>4 DEF SyncTable, SyncFail
    <3> QED BY <2>1, <3>1, TableContents
  <2> QED BY <1>8, <2>2, <2>3, <2>4
<1>9. CASE UNCHANGED vars
  BY <1>9 DEF vars, kernel, device, ghost, Contents, ReadYourWrites, SyncedSurvives, CopiedSoFar,
              CommittedSound, SettledInPlace, Recoverable, Mounted, IsOpen, Lookup
<1> QED BY <1>1, <1>2, <1>3, <1>4, <1>5, <1>6, <1>7, <1>8, <1>9, CrashContents, MountContents,
           OpenExistingContents, OpenCreateContents, DeleteContents, TruncateContents,
           CopyBlockContents, GrowCommitContents, WriteContents, SyncFlushContents DEF Next

-----------------------------------------------------------------------------
(* The invariant.                                                          *)

\* The parts of the invariant.
LEMMA Parts == IInv <=> Structure /\ ExtentsOwned /\ Contents
BY DEF IInv, TablesConsistent, TypeOK, Structure, Contents

\* A device that has never been used.
LEMMA InitInv == Init => IInv
<1> SUFFICES ASSUME Init PROVE Structure /\ ExtentsOwned /\ Contents
  BY Parts
<1>1. pc = "off" /\ ~Mounted /\ cached.sb = "blank" /\ cached.ft = EmptyTable
  BY DEF Init, Mounted
<1>2. \A f \in File : ~IsOpen(f)
  BY DEF Init, IsOpen
<1>3. KernelTypeOK
  <2>1. bm_dirty \in BOOLEAN /\ ft_dirty \in BOOLEAN
    BY Zenon DEF Init
  <2>2. handle \in [File -> [slot : Int, start : Nat, blocks : Nat, length : Nat]]
    BY DEF Init, Closed
  <2> QED BY <1>2, <2>1, <2>2, EmptyTableFacts, ValueFacts DEF Init, KernelTypeOK
<1>4. cached \in Device
  BY EmptyTableFacts DEF Init, Device
<1>5. /\ DeviceTypeOK /\ medium.sb = {cached.sb} /\ medium.bm = {cached.bm} /\ medium.ft = {cached.ft}
      /\ medium = Only(cached) /\ \A b \in Block : medium.data[b] = {cached.data[b]}
  BY <1>4, OnlyFacts DEF Init, DeviceTypeOK
<1>6. GhostTypeOK
  <2>1. clean \in BOOLEAN
    BY Zenon DEF Init
  <2> QED BY <2>1 DEF Init, GhostTypeOK
<1>7. TablesSound
  BY <1>1, <1>5, EmptyTableFacts DEF Init, TablesSound
<1>8. DeviceSound
  BY <1>1, <1>5 DEF DeviceSound, Mounted
<1>9. NothingInRam
  BY DEF Init, NothingInRam
<1>10. CallSound /\ HandleAgrees
  BY <1>1, <1>2 DEF CallSound, HandleAgrees
<1>11. Structure
  BY <1>3, <1>5, <1>6, <1>7, <1>8, <1>9, <1>10 DEF Structure
<1>12. ExtentsOwned
  BY <1>1 DEF ExtentsOwned
<1>13. \A f \in File, k \in Index : content[f][k] = 0 /\ committed[f][k] = 0
  BY DEF Init
<1>14. Contents
  BY <1>1, <1>13 DEF Init, Contents, ReadYourWrites, SyncedSurvives, CopiedSoFar, CommittedSound,
                     SettledInPlace
<1> QED BY <1>11, <1>12, <1>14

\* Every action keeps the structure.
LEMMA NextStructure ==
  ASSUME Structure, [Next]_vars
  PROVE  Structure'
<1>1. CASE UNCHANGED vars
  BY <1>1 DEF vars, kernel, device, ghost, Structure, KernelTypeOK, DeviceTypeOK, GhostTypeOK,
              HandleAgrees, TablesSound, DeviceSound, NothingInRam, CallSound, IsOpen, Mounted
<1> QED BY <1>1, CrashStructure, MountStructure, LoadErrorStructure, FormatSuperblockStructure,
           FormatBitmapStructure, FormatTableStructure, FormatFlushStructure, OpenExistingStructure,
           OpenCreateStructure, OpenTableFullStructure, CloseStructure, SyncCallStructure,
           DeleteStructure, WriteCallStructure, GrowCallStructure, TruncateStructure,
           CopyBlockStructure, GrowFailStructure, GrowCommitStructure, WriteBlockStructure,
           WriteFailStructure, SyncBitmapStructure, SyncTableStructure, SyncFlushStructure,
           SyncFailStructure DEF Next

\* The VFS keeps its invariant, through every call, failed device command and
\* power loss.
THEOREM Invariance == Spec => []IInv
<1>1. Init => IInv
  BY InitInv
<1>2. IInv /\ [Next]_vars => IInv'
  <2> SUFFICES ASSUME IInv, [Next]_vars PROVE IInv'
    OBVIOUS
  <2>1. Structure /\ ExtentsOwned /\ Contents
    BY Parts
  <2>2. Structure'
    BY <2>1, NextStructure
  <2>3. ExtentsOwned'
    BY <2>1, NextExtents
  <2>4. Contents'
    BY <2>1, <2>2, NextContents
  <2> QED BY <2>2, <2>3, <2>4 DEF IInv, TablesConsistent, TypeOK, Structure, Contents
<1> QED BY <1>1, <1>2, PTL DEF Spec

\* Table, bitmap and handles say the same about every file, through every step,
\* failure and restart (sqlite_vfs.rs keeps each fact in three places).
THEOREM TablesCorrect == Spec => []TablesConsistent
<1>1. IInv => TablesConsistent
  BY DEF IInv
<1> QED BY <1>1, Invariance, PTL

\* A block reads as it was last written, wherever the file has moved since.
THEOREM ReadsCorrect == Spec => []ReadYourWrites
<1>1. IInv => ReadYourWrites
  BY DEF IInv
<1> QED BY <1>1, Invariance, PTL

\* What sync() has committed survives a power loss at any later point, as long as
\* the file has not moved since.
THEOREM SyncCorrect == Spec => []SyncedSurvives
<1>1. IInv => SyncedSurvives
  BY DEF IInv
<1> QED BY <1>1, Invariance, PTL

\* No call loses blocks unless it is an open() that finds the table full.
THEOREM NothingLeaks == Spec => NoLeak
<1>1. IInv /\ [Next]_vars =>
        [Mounted /\ Mounted' /\ clean /\ FreeSlot # {} => Leaked' \subseteq Leaked]_vars
  <2> SUFFICES ASSUME IInv, [Next]_vars
               PROVE  Mounted /\ Mounted' /\ clean /\ FreeSlot # {} => Leaked' \subseteq Leaked
    OBVIOUS
  <2>1. Structure /\ ExtentsOwned
    BY Parts
  <2> QED BY <2>1, NextExtents
<1> QED BY <1>1, Invariance, PTL DEF Spec, NoLeak
=============================================================================
