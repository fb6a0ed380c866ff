----------------------------- MODULE FatDiskbuf -----------------------------
(***************************************************************************)
(* The block cache of the FAT driver (fs/fat/fat.c): the array diskbuf of  *)
(* at most options.diskbuf_count entries, each holding one sector or one   *)
(* cluster, and the read, write and flush operations on it.                *)
(*                                                                         *)
(* Sector numbers are relative to the start of the partition.  The data of *)
(* an entry is one abstract value per sector; a cluster entry has          *)
(* SectorsPerCluster of them and a sector entry uses the first.  Memory    *)
(* nothing has written yet is Undef.  Sectors have 512 bytes, which mount  *)
(* takes for granted when it reads the first; FatDiskbufRoom is about the  *)
(* sizes of the buffers.                                                   *)
(***************************************************************************)
EXTENDS Integers, FiniteSets

CONSTANTS
  DiskbufCount,       \* options.diskbuf_count, 32 by default
  UsageTagMax,        \* USAGE_TAG_MAX, 8191 in the code
  Fat32,              \* fat_type = FAT_TYPE_FAT32
  SectorsPerCluster,
  DataAreaBegin,      \* fs->data_area_begin: reserved sectors and FATs end here
  RootSectorCount,    \* fs->root_sector_count
  SectorLbas,         \* sectors read through read_sector: boot, FSINFO, FATs, root
  Clusters,           \* clusters read through read_cluster
  Value,              \* contents of a sector
  Undef,              \* contents of memory that was never written
  NoEntry,            \* a NULL element of diskbuf
  DriveFaults         \* TRUE iff the drive may transfer fewer sectors than asked

\* With fewer than two entries allocate_diskbuf_*_entry may leave
\* target_entry_idx at -1 (fat.c:351): the model starts where it has a victim.
ASSUME DiskbufAssumption ==
  /\ DiskbufCount \in Nat /\ DiskbufCount >= 2
  /\ UsageTagMax \in Nat /\ UsageTagMax >= 1
  /\ Fat32 \in BOOLEAN
  /\ DriveFaults \in BOOLEAN

Index   == 0 .. DiskbufCount - 1
Offsets == 0 .. SectorsPerCluster - 1

\* Blocks: what a diskbuf entry can hold, by type and by lba or cluster.
SectorBlock(lba)   == [type |-> "SECTOR", at |-> lba]
ClusterBlock(clus) == [type |-> "CLUSTER", at |-> clus]
Block == {SectorBlock(l) : l \in SectorLbas} \cup {ClusterBlock(c) : c \in Clusters}

\* cluster_to_sector: the root directory of FAT12/16 lies before cluster 2.
ClusterArea == DataAreaBegin + (IF Fat32 THEN 0 ELSE RootSectorCount)
ClusterToSector(clus) == (clus - 2) * SectorsPerCluster + ClusterArea

Span(b)     == IF b.type = "SECTOR" THEN {0} ELSE Offsets
LbaOf(b, o) == IF b.type = "SECTOR" THEN b.at ELSE ClusterToSector(b.at) + o
Lba         == UNION {{LbaOf(b, o) : o \in Span(b)} : b \in Block}

\* The callers keep the two kinds apart: read_sector is only asked for sectors
\* before the cluster area, read_cluster for clusters, which start at 2.
ASSUME GeometryAssumption ==
  /\ SectorsPerCluster \in Nat \ {0}
  /\ DataAreaBegin \in Nat /\ RootSectorCount \in Nat
  /\ SectorLbas \in SUBSET (0 .. ClusterArea - 1)
  /\ Clusters \in SUBSET {c \in Nat : c >= 2}
  /\ 0 \in SectorLbas /\ (Fat32 => 1 \in SectorLbas)
  /\ Value # {} /\ Undef \notin Value

Datum == Value \cup {Undef}
Entry == [block : Block, dirty : BOOLEAN, data_valid : BOOLEAN,
          usage_tag : 0 .. UsageTagMax, data : [Offsets -> Datum]]

ASSUME NoEntryAssumption == NoEntry \notin Entry /\ NoEntry \notin Index

VARIABLES
  disk,       \* the sectors on the drive
  diskbuf,    \* the cache: NoEntry or an Entry at every index
  mounted,    \* fs->mounted
  held        \* the entry index the last call gave its caller, or NoEntry

vars == <<disk, diskbuf, mounted, held>>

Used == {i \in Index : diskbuf[i] # NoEntry}
Free == {i \in Index : diskbuf[i] = NoEntry}

TypeOK ==
  /\ disk \in [Lba -> Datum]
  /\ diskbuf \in [Index -> Entry \cup {NoEntry}]
  /\ mounted \in BOOLEAN
  /\ held \in Used \cup {NoEntry}

-----------------------------------------------------------------------------
\* The drive: ofsl_drive_read_sector and ofsl_drive_write_sector return how
\* many sectors they transferred, a count the cache never looks at.

Transferred(b) ==
  LET all == IF b.type = "SECTOR" THEN 1 ELSE SectorsPerCluster
  IN  IF DriveFaults THEN 0 .. all ELSE {all}

\* The buffer of block b after n of its sectors were read from d.
ReadInto(data, b, n, d) ==
  [o \in Offsets |-> IF o \in Span(b) /\ o < n THEN d[LbaOf(b, o)] ELSE data[o]]

\* The drive after the first n sectors of entry e were written.
WrittenBack(e, n) ==
  [l \in Lba |-> IF \E o \in Span(e.block) : o < n /\ LbaOf(e.block, o) = l
                 THEN e.data[CHOOSE o \in Span(e.block) : LbaOf(e.block, o) = l]
                 ELSE disk[l]]

-----------------------------------------------------------------------------
\* allocate_diskbuf_sector_entry and allocate_diskbuf_cluster_entry.

\* Mutant: only entries marked valid match.
ValidHits(b) == {i \in Used : diskbuf[i].block = b /\ diskbuf[i].data_valid}

Hits(b) == {i \in Used : diskbuf[i].block = b}

\* Mutant: the scan stops at the first entry below UsageTagMax.
IsFirstUnused(i) ==
  /\ diskbuf[i].usage_tag < UsageTagMax
  /\ \A j \in Used : diskbuf[j].usage_tag < UsageTagMax => i <= j

\* The scan keeps the first entry with the smallest usage tag, and no entry
\* whose tag is still UsageTagMax.
IsVictim(i) ==
  /\ diskbuf[i].usage_tag < UsageTagMax
  /\ \A j \in Used : \/ diskbuf[i].usage_tag < diskbuf[j].usage_tag
                     \/ diskbuf[i].usage_tag = diskbuf[j].usage_tag /\ i <= j

\* CACHED: the last matching entry.  SHOULD_ALLOC: the first NULL.
\* SHOULD_REALLOC: the victim.
IsCached(b, i)  == i \in Hits(b) /\ \A j \in Hits(b) : j <= i
IsAlloc(b, i)   == Hits(b) = {} /\ i \in Free /\ \A j \in Free : i <= j
IsRealloc(b, i) == Hits(b) = {} /\ Free = {} /\ i \in Index /\ IsVictim(i)
IsTarget(b, i)  == IsCached(b, i) \/ IsAlloc(b, i) \/ IsRealloc(b, i)

\* malloc leaves the buffer undefined; realloc, called when the type changes,
\* keeps what fits in both sizes.
Malloc == [o \in Offsets |-> Undef]
Realloc(e, b) ==
  [o \in Offsets |-> IF o \in Span(e.block) /\ o \in Span(b) THEN e.data[o] ELSE Undef]

\* Mutant: data_valid is not reset.
StaleEntry(b, data) == [block |-> b, dirty |-> FALSE, data_valid |-> TRUE,
                        usage_tag |-> UsageTagMax, data |-> data]

NewEntry(b, data) == [block |-> b, dirty |-> FALSE, data_valid |-> FALSE,
                      usage_tag |-> UsageTagMax, data |-> data]

\* Mutant: a hit does not renew the usage tag.
UnrenewedEntry(b, i) ==
  IF IsCached(b, i) THEN diskbuf[i]
  ELSE NewEntry(b, IF i \in Used THEN Realloc(diskbuf[i], b) ELSE Malloc)

Allocated(b, i) ==
  IF IsCached(b, i) THEN [diskbuf[i] EXCEPT !.usage_tag = UsageTagMax]
  ELSE NewEntry(b, IF i \in Used THEN Realloc(diskbuf[i], b) ELSE Malloc)

\* Mutant: the victim is replaced without being written.
NoFlush(b, i) == UNCHANGED disk

\* flush_diskbuf_entry: a dirty victim goes to the drive before it is replaced.
Flush(b, i) ==
  IF IsRealloc(b, i) /\ diskbuf[i].dirty
  THEN \E n \in Transferred(diskbuf[i].block) : disk' = WrittenBack(diskbuf[i], n)
  ELSE UNCHANGED disk

\* Mutants: the decrement without its guard, and no decrement at all.
AgedPastZero(e) ==
  IF e = NoEntry THEN NoEntry ELSE [e EXCEPT !.usage_tag = @ - 1]
NeverAged(e) == e

\* Every entry the scan passes loses one from its usage tag, down to 0.
Aged(e) ==
  IF e = NoEntry THEN NoEntry
  ELSE [e EXCEPT !.usage_tag = IF @ > 0 THEN @ - 1 ELSE 0]

\* Entry i becomes e, the others age, and the caller gets index i.
Settle(i, e) ==
  /\ diskbuf' = [j \in Index |-> IF j = i THEN e ELSE Aged(diskbuf[j])]
  /\ held' = i

-----------------------------------------------------------------------------
\* The operations.

\* read_sector and read_cluster: the buffer is filled unless it is marked
\* valid, and then marked valid whatever the drive transferred.
Filled(e, n, d) ==
  IF e.data_valid THEN e
  ELSE [e EXCEPT !.data = ReadInto(@, e.block, n, d), !.data_valid = TRUE]

Read(b) ==
  /\ mounted
  /\ \E i \in Index, n \in Transferred(b) :
       /\ IsTarget(b, i)
       /\ Flush(b, i)
       /\ Settle(i, Filled(Allocated(b, i), n, disk'))
  /\ UNCHANGED mounted

\* Mutant: the dirty bit is not set.
OverwriteClean(e, values) ==
  [e EXCEPT !.data = [o \in Offsets |-> IF o \in Span(e.block) THEN values[o] ELSE @[o]]]

\* write_sector and write_cluster: data_valid is left as it was.
Overwrite(e, values) ==
  [e EXCEPT !.data = [o \in Offsets |-> IF o \in Span(e.block) THEN values[o] ELSE @[o]],
            !.dirty = TRUE]

Write(b, values) ==
  /\ mounted
  /\ \E i \in Index :
       /\ IsTarget(b, i)
       /\ Flush(b, i)
       /\ Settle(i, Overwrite(Allocated(b, i), values))
  /\ UNCHANGED mounted

\* The smaller changes the comment on write_sector describes: read, change the
\* entry's data in place, set its dirty bit.
Modify(o, value) ==
  /\ mounted /\ held # NoEntry
  /\ o \in Span(diskbuf[held].block) /\ diskbuf[held].data_valid
  /\ diskbuf' = [diskbuf EXCEPT ![held].data[o] = value, ![held].dirty = TRUE]
  /\ UNCHANGED <<disk, mounted, held>>

\* mount: a new array, the boot sector read into entry 0, on FAT32 FSINFO into
\* entry 1.  What an earlier mount left in the old array is forgotten.  The boot
\* sector is read as one of 512 bytes (fat.c:838).
BootEntry(n) ==
  [Filled(NewEntry(SectorBlock(0), Malloc), n, disk)
     EXCEPT !.usage_tag = IF Fat32 THEN UsageTagMax - 1 ELSE UsageTagMax]
FsinfoEntry(n) == Filled(NewEntry(SectorBlock(1), Malloc), n, disk)

Mount ==
  /\ \E n \in Transferred(SectorBlock(0)), m \in Transferred(SectorBlock(1)) :
       diskbuf' = [i \in Index |-> IF i = 0 THEN BootEntry(n)
                                   ELSE IF i = 1 /\ Fat32 THEN FsinfoEntry(m)
                                   ELSE NoEntry]
  /\ mounted' = TRUE /\ held' = NoEntry
  /\ UNCHANGED disk

\* unmount: every entry is freed, none is flushed.
Unmount ==
  /\ mounted
  /\ diskbuf' = [i \in Index |-> NoEntry]
  /\ mounted' = FALSE /\ held' = NoEntry
  /\ UNCHANGED disk

-----------------------------------------------------------------------------
Init ==
  /\ disk \in [Lba -> Value]
  /\ diskbuf = [i \in Index |-> NoEntry]
  /\ mounted = FALSE /\ held = NoEntry

\* What the driver does at this commit: no caller writes.
ReadNext == Mount \/ Unmount \/ \E b \in Block : Read(b)

\* The whole interface of the cache.
Next ==
  \/ ReadNext
  \/ \E b \in Block : \E values \in [Span(b) -> Value] : Write(b, values)
  \/ \E o \in Offsets, value \in Value : Modify(o, value)

ReadSpec == Init /\ [][ReadNext]_vars
Spec     == Init /\ [][Next]_vars
-----------------------------------------------------------------------------
\* Properties.

\* No block is cached twice: allocate_diskbuf_*_entry matches type and address
\* before it takes a NULL slot or a victim.  A second copy would let a write
\* through one copy be missed by readers of the other.
UniqueBlocks == \A i, j \in Used : diskbuf[i].block = diskbuf[j].block => i = j

\* A full cache always has an entry to replace: at most one usage tag is
\* UsageTagMax, so target_entry_idx is never left at -1 (fat.c:351, fat.c:490).
VictimExists == mounted /\ Free = {} => \E i \in Index : diskbuf[i].usage_tag < UsageTagMax

\* A buffer marked valid and not dirty holds what the drive holds, whatever
\* mixture of types, evictions, writes and in-place changes came before, as
\* long as the drive transfers what it is asked for.
CleanCoherent ==
  ~DriveFaults =>
    \A i \in Used : diskbuf[i].data_valid /\ ~diskbuf[i].dirty =>
      \A o \in Span(diskbuf[i].block) :
        diskbuf[i].data[o] = disk[LbaOf(diskbuf[i].block, o)]

\* What a sector holds for the driver: its dirty copy, else what is on the drive.
Covers(i, l) == \E o \in Span(diskbuf[i].block) : LbaOf(diskbuf[i].block, o) = l
Store ==
  [l \in Lba |->
     IF \E i \in Used : diskbuf[i].dirty /\ Covers(i, l)
     THEN LET i == CHOOSE i \in Used : diskbuf[i].dirty /\ Covers(i, l)
              o == CHOOSE o \in Span(diskbuf[i].block) : LbaOf(diskbuf[i].block, o) = l
          IN  diskbuf[i].data[o]
     ELSE disk[l]]

\* An access to one block never changes what any other sector holds: a dirty
\* victim is on the drive, in full and in its own place, before its buffer is
\* reused (flush_diskbuf_entry).
OtherSectorsKept ==
  [][held' # NoEntry =>
       \A l \in Lba : Store'[l] # Store[l] =>
         \E o \in Span(diskbuf'[held'].block) : LbaOf(diskbuf'[held'].block, o) = l]_vars

\* A read that returned 0 left the block's contents in the entry (the comment
\* on read_sector and read_cluster, fat.c:408 and fat.c:547).
SuccessMeansData ==
  held # NoEntry =>
    \A o \in Span(diskbuf[held].block) :
      diskbuf[held].data[o] = disk[LbaOf(diskbuf[held].block, o)]

\* For a client that only reads, the cache is invisible.
Reply == IF held = NoEntry THEN NoEntry
         ELSE [block |-> diskbuf[held].block,
               data  |-> [o \in Span(diskbuf[held].block) |-> diskbuf[held].data[o]]]

Volume == INSTANCE BlockStore WITH store <- disk, reply <- Reply, NoReply <- NoEntry

ImplementsBlockStore == Volume!ReadSpec
=============================================================================
