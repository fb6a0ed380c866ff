# OFSL in TLA+

OFSL is a C library that reads disk images and drives: a drive gives sectors, a
partition a range of them, a file system driver (FAT12/16/32, ISO 9660) gives
directories and files. It is single-threaded, keeps no background work and, at
this commit, writes nothing back: what is hard in it is not interleaving of
threads but long sequences of legal calls over shared state (a cache whose
entries change type, counters that guard frees, iterators that survive other
calls), loops whose progress depends on data, and integer widths.

## Inventory

| part | source | state | operations | what makes it correct |
|---|---|---|---|---|
| drive | `drive/rawimage.c`, `include/ofsl/drive` | an open file, sector size, `lba_max` | create, delete, read and write sectors; returns the number transferred | transfers the sectors asked for, in place; a write that was answered is at most one sector from the file, unless that sector then cannot be written |
| partition, GPT | `partition/` | the table's place and length; an iterator over its entries | create, delete, list_start, list_next, list_end | each used entry at the head of the table once, as recorded, in order |
| FAT block cache | `fs/fat/fat.c` 290-622 | `diskbuf`: entries with type, address, dirty, data_valid, usage tag, data | read/write sector and cluster, flush | invisible to readers; no block twice; always a victim; dirty victims reach the drive |
| FAT chains | `fs/fat/fat.c` 193-288 | none | `get_next_cluster` | finds the entry that was written, also across sectors; stops at the end |
| FAT geometry | `fs/fat/fat.c` 149-191, 844-871 | fields of `struct fs_fat` | mount, `cluster_to_sector`, `sector_to_cluster` | the formatter's type; clusters and their entries inside the volume, for every geometry |
| FAT names | `fs/fat/fat.c` 104-125, 700-809, 1271-1395, `codepage.c`, `codepage.h` | none | long and short names, comparison, labels, timestamps | names as recorded, found in any case; files sort by their dates |
| FAT directories | `fs/fat/fat.c` 920-1066, 1136-1395 | an iterator: block and entry index | iterate, look up a name, read the label | each entry once, in order, under its own name; lookups agree with listings; scans end |
| FAT files | `fs/fat/fat.c` 1444-1550 | `cursor` | read, seek, tell, iseof | a byte stream |
| FAT volume, handles | `fs/fat/fat.c` 831-903, 1077-1134, 1397-1442, 1552-1624 | mounted, options, `child_count` per directory | mount, unmount, open, close | parents outlive children; exactly the leaves close |
| ISO 9660 | `fs/iso9660/iso9660.c` | a read-only sector cache, iterators, cursors | mount (a loop over descriptors), iterate, look up, timestamps, read, seek | the cache holds what is on the disc; listings complete and in order whoever else uses the cache; a timestamp is its entry's; loops end |
| time | `src/time.c` | none | differences of times, conversion from `struct tm` | exact, whatever borrows |
| errors, CRC32 | `fs/fs.c`, `crypto/crc32.c` | none | conversions | - |
| VFS mount | `fsal/mount.c` | - | - | not built, does not compile |
| C++ wrapper | `c++/` | - | forwards | - |

A FAT directory scan or file read calls `get_next_cluster`, which reads FAT
sectors through the cache, and then `read_cluster` (or `read_sector` for the
fixed root directory); the cache calls the drive through its function table.
Callers share the cache and the volume's state; a handle holds a bare pointer to
its parent directory and to the volume. All calls run to their end on the
caller's thread. The C source never locks anything, so callers serialise calls on
one volume; the models interleave calls of different handles between calls, and
show the inside of a call only where it loops.

`PROJECT.json` lists, under "hazards", what in this code is hard to test, with
its line and the properties that watch it.

## Modules

| module | models | extends or instantiates |
|---|---|---|
| `BlockStore` | abstract: a volume of blocks, read and written at once | |
| `FatDiskbuf` | the FAT block cache | `BlockStore` (refined) |
| `FatDiskbufRecency` | the cache with a history of accesses | `FatDiskbuf` |
| `FatDiskbufRoom` | the cache with the sizes of its buffers | `FatDiskbuf` |
| `FatChain` | the file allocation table and `get_next_cluster` | |
| `ByteStream` | abstract: an open file | |
| `FatFile`, `MCFatFile` | `file_read`, `file_seek`, `file_tell`, `file_iseof` | `FatChain`, `ByteStream` (refined) |
| `FatDir`, `MCFatDir` | iteration, `match_name`, `get_volume_string` | `FatChain` |
| `FatHandles` | mount, options, handles, `child_count` | |
| `IsoDiskbuf` | the ISO 9660 sector cache | |
| `Iso9660`, `MCIso9660` | mount, root directory, iterators, `match_name`, timestamps of entries | `IsoDiskbuf` |
| `IsoFile` | ISO 9660 `file_read`, `file_seek`, `file_tell`, `file_iseof` | |
| `SectorDevice` | abstract: a device of sectors whose medium may lag by one | |
| `RawImage` | the raw image drive | |
| `Gpt`, `MCGpt` | the GPT and the whole-drive partition, over the drive | `RawImage`, `SectorDevice` (refined) |
| `FatGeometry` | what mount computes, clusters and sectors | `FatChain` |
| `FatCodepage`, `FatNames` | uppercase tables; names and dates | `CText`, `Calendar` |
| `Alphabets` | reference: the letters of the codepages in Unicode | |
| `IsoRecords` | names, dates and strings in the bytes of an ISO 9660 volume | `CText`, `Calendar` |
| `CText`, `Calendar` | C strings and padded fields; timegm | |
| `OfslTime` | differences of times | |
| `Conversions` | the inputs and references of the pure operators | `FatGeometry`, `FatNames`, `Alphabets`, `IsoRecords`, `OfslTime` |
| `*_proofs` | theorems about the module they extend | |

### FatDiskbuf

`diskbuf` is the C array; `NoEntry` is its NULL. An `Entry` has the fields of
`struct diskbuf_entry`, with the union of cluster and lba folded into `block`.
`disk` is the drive and `held` the entry index the last call gave out.
One action is one call: `Read(b)` is read_sector or read_cluster with everything
below it, i.e. the scan for a hit, a NULL or a victim (`IsTarget`), the ageing of
the tags (`Aged`), the flush of a dirty victim (`Flush`), malloc or realloc, and
the transfer (`Filled`). Where the code's scan keeps a running minimum, the model
says which index it ends at (`IsVictim`). `Modify` is the in-place change the
comment on write_sector tells callers to make. Contents of sectors are abstract
values; memory nothing wrote is `Undef`, also the tail a realloc adds.
`DriveFaults` lets the drive transfer fewer sectors than asked.

`FatDiskbufRoom` adds for how many sectors each entry has memory. The code allocates by
type and again only when the type of an entry changes; before it knows the size of a
sector, mount allocates 512 bytes (`BootRoom`). On a volume of larger sectors entry 0
is thus too short for the next sector read into it; the contents in `FatDiskbuf` are
those of volumes with 512-byte sectors, where all is in its place.

The abstraction starts at two entries: with none or one the code indexes the
array with -1. `ReadSpec` is what the driver does at this commit (write_sector and
write_cluster have no callers), `Spec` the whole interface of the cache.

### FatChain

`Hop` is one turn of the loop of get_next_cluster, `GetNextCluster` the walk;
`MaxEntry` keeps the FAT12 branch's comparison against FAT16_MAX_CLUSTER.
`Entry12`, `Entry16`, `Entry32` are the code's address arithmetic on the bytes of
the FAT, sector by sector. `FatOf` is the reference: the bytes a formatter writes,
digit by digit of the entries.

### FatFile

`call` holds the locals of a file_read in progress; `CopyLast` and `CopyOn` are
the two branches of its inner loop, `ReadBlock` and `ReadDone` the head of the
outer one. The two uint16_t locals are reduced modulo `Word`. The byte at offset o
of cluster c is the pair `<<c, o>>`, so a byte copied from the wrong place is a
different value. Clusters are read through the cache, which
FatDiskbuf shows to be invisible, so the model reads them directly. The
refinement mapping subtracts what a read in progress has already delivered from
the cursor, so a read is one step of `ByteStream`, when it returns. `Types`, `Chains` and
the size of the FAT are constants: the run has all three types, and a set of
chains must fit in the FAT of each type it is given with.

### FatDir

A directory is a sequence of entries in whole blocks, an entry its kind and its
owner; a name is `Long(owner)` or `Short(owner)`. `call` is a scan in progress: of
dir_iter_next for a listing (its position comes from and returns to `it`), of
match_name (dir_iter_next with an iterator of its own, over and over), or of
get_volume_string (a copy of the same loops with its own tests). `Fetch` is
the head of the outer loop, the other actions are the branches of the inner one.
On FAT12 and FAT16 get_volume_string branches on an uninitialised field, so labels
are modelled on FAT32.

### FatHandles

A handle is a piece of memory: `obj` says what it holds, and closing makes it free
for a later open, so a dangling parent pointer can come to point at another
object. child_count is a 32-bit counter (`CountWord`). `FreshCounts` is what malloc
may leave in the field dir_open does not set, and `began`, a history, what it did
leave in each object. `ClosesLeavesOnly` thus says what the code does also where it
goes wrong: a directory whose count began above 0 is refused for ever, and with it all above
it. `GetOption` hands out the pointer to the options as the code does, and
`SetCount` is a caller that writes through it, at any time after;
`ArrayFitsOptions`, which get_option's test of `mounted` is for, therefore does not hold and
no run checks it (finding at fat.c:1623). Iterators are not counted by the code.

### IsoDiskbuf, Iso9660, IsoFile

The ISO driver's cache only reads, so one access is a function of the array,
`ReadSector`: the scan (`IsTarget`), the entry taken (`Allocated`), the read
(`Filled`) and the ageing of the others (`Aged`). Its scan differs from the FAT
driver's: it stops looking at tags once it has a candidate, so it takes the first
element that is NULL or was not accessed last, and elements from the third on
stay NULL.

`Iso9660` composes that cache with its users: every call reads the sectors the code
reads, in its order. mount and match_name loop over sectors and are modelled one
turn to a step (`call` holds their locals); `Stepped` is how an iterator
passes a record, `Stamped` the second search for the record when a timestamp
is asked for. A directory record is where it starts in its sector, its owner, its size and
whether it has Rock Ridge entries, and the records of a sector lie one behind the other
(`LaidOut`); the volume descriptors are their kinds. What a listing should be (`Listing`)
is said of the places of the records, a sector and a position, in their order, and not of
the way an iterator goes. `case_sensitive` takes both
values, because ofsl_fs_iso9660_create leaves it as malloc gave it.
rootdir_open on a volume that is not mounted is outside the model: the code goes on
with a null pointer.

`IsoFile` is `FatFile`'s counterpart, with the arithmetic of this driver: the
mask instead of the remainder, and the counter that is not advanced. Machine
integers wrap at `Word`, so a loop that does not end is a cycle of states.

### SectorDevice, RawImage, Gpt

`SectorDevice` is what the layers above expect of a drive: reads answer with whole
sectors, writes replace whole sectors, and the medium is at most one sector behind.
What a caller can still count on when the device fails to bring its medium up to date are
actions of their own, `SettleFaulty`, `ReadFaulty` and `WriteFaulty`, each of which
counts one more of `faults`.
`RawImage` has the file as the file system knows it (`file`) and what the C library
took with fwrite and may keep until the next fseek or fclose (`unwritten`). One
action is one call; `Turns` and `WriteLoop` say how many turns its loop makes.
An fwrite may fail at any turn (`WriteFaults`) and makes none on a read-only drive;
`Crash` ends the process without fclose. The refinement mapping shows `unwritten`
as part of the device's image (`Contents`) and `file` as its medium: a crash loses
the last sector written and nothing else.

The code ignores the results of fseek and fclose (rawimage.c:29, 53, 70), which is where the
C library says that it could not write out what it kept. `FailedSeeks` are the
turns of a call in which that may happen, any of them that find a sector kept. The sector is then
lost although its write was answered, and the stream stays where it was to go
(`Landing`), so that the fread or fwrite of the same turn works there and reports
success: a read answers its first sector with another, a write puts sectors in the wrong place
(finding at rawimage.c:53). The run has a call that fails so
(`MaxFaults`) at every place of every behaviour, the theorems have any number of them.
`ImplementsDevice` says of such a call that the last
sector written is lost and no other, that a read misreads its first sector only, and that a
write puts nothing in the image but units of its own buffer.

`Gpt` puts the partition table on that drive. A unit is 128 bytes, the size of an
entry; a 512-byte buffer has four. The code reads the table again for every step
of an iterator and ignores the result of the read, so a sector that cannot be
read leaves in the buffer what the stack held (`Stack`). `ListNextPart` and
`ListNextNone` are the two results of list_next. `ListsInOrder` is about tables
that can be read (`TableReadable`), while no flush has failed; between two steps other
iterators, readers and writers of the drive may run.

### FatGeometry, FatNames, FatCodepage, IsoRecords, OfslTime, Conversions

These modules hold pure operators: what a function of the code returns. Their
references are in another form than the code: `FatGeometry` states the parameter block a
formatter writes (`Made`) and that every cluster and entry of it is found;
`Conversions` has the entries of a long name, the bytes of a character, the order of dates.
`CText` keeps a C buffer as an array in which unwritten memory is `Undef`, so that
a name that is not ended runs into it. `Conversions` is a machine that takes
one input and gives it back: its invariants judge one conversion each.

- `LongNamesKept`: the entries of a name give the name back, also in a buffer with an
  earlier name in it. The code counts the bytes of a character and one more, so
  names from 192 ASCII, 128 two-byte or 96 three-byte characters on lose their end;
  the property states that limit exactly.
- `ShortNamesFound`: for every codepage and every pair of bytes, a file is found
  exactly when the names have the same letters. Letters and their capitals are those that Unicode
  gives the codepages (`Alphabets`), and the entry of a file is the name under these capitals
  (`Stored`), so that no side of the comparison takes anything from the tables
  of `codepage.h`. In six codepages the tables also drop accents, as DOS does; `Unaccented` lists these
  (a name with A finds a file with A circumflex), and any other accent must tell names apart.
  `Misfolded` are the 49 bytes of 11 codepages for which the tables are wrong, 25 of them in codepage 864,
  which has the table of 437 (finding at codepage.h:48).
- `LabelsTrimmed`, `StampsOrdered`: labels and strings of both file systems in all
  buffers that have room; files and volumes sort by a timestamp as they were
  written, with timegm as the C library defines it.
  `created_tenth` is divided by 10 and not by 100, so the property stops at 20.
- `RecordsRead`: an ISO 9660 record is written with a name of even or odd length and
  extensions in any order, one of them unknown to the driver and full of the marks
  of others; the name and the dates found must be those written. `IsoRecords`
  works on the bytes, as the code does: it steps from extension to extension by
  their lengths. Dates in the long format are all 8 h 56 min 48 s late, because the
  code converts only ten of their digits (iso9660.c:125), so the property compares
  their distances. The names "." and ".." of records without Rock Ridge, which
  the code swaps (iso9660.c:441), are findings and not among the inputs.
- `ClustersInVolume`, `EntriesInFat`: on volumes about the limits of the FAT types.
- `DifferencesExact`: every positive dnsec borrows, because the comparison is unsigned;
  the two fields still add up to the right instant.

## Runs

| run | checks | bounds |
|---|---|---|
| diskbuf_read | readers cannot tell the cache from the volume (`ImplementsBlockStore`); replacement is least recently used until tags run out | 3 entries, 4 blocks (2 sectors, 2 clusters of 2 sectors), tags up to 2, 2 values |
| diskbuf_write | types, no block twice, a victim exists, clean buffers equal the drive, other sectors keep their contents, buffers have room | 2 entries, 3 blocks, tags up to 2, 2 values, every operation, a boot sector whose buffer has no room for another |
| diskbuf_faults | violation: success although nothing was transferred | a drive that may transfer less |
| fat_file | byte stream refinement, reads return | clusters of 2 bytes, 4 clusters, files to 7 bytes, all FAT types, contiguous and scattered chains, FAT sectors of 4 bytes so that FAT12 entries straddle sectors |
| fat_dir | listings, lookups, labels, termination | every directory of up to 4 entries before its end mark |
| fat_dir_full | violation: a directory of two blocks | 5 entries to a block, 6 files |
| fat_dir_label | violation: no volume id | one file |
| fat_handles | parents stay open; a directory is refused exactly if something in it is open or its count began above 0 | 4 handles over reused memory that holds 0 or 2 |
| iso | types, two entries used, cache coherent, listings complete, lookups and timestamps exact, mount and search end | 3 cache entries, 8 sectors, volumes with two primary descriptors, none, or no terminator; directories of up to 3 records in 1 or 2 sectors; 2 iterators |
| iso_file | violation: a block as large as a sector, or a cursor in an odd sector | sectors of 2 bytes, files to 5 bytes |
| storage | the drive is a device that loses at most a sector, and no more when a flush fails; the partition spans the image; listings in order | images of up to 24 units, sectors of 4 or 8 units, transfers of 1 or 2 sectors from sector 1 on, one call whose flush fails, a table of 5 entries in 2 sectors, 2 iterators |
| conversions | each pure operator against its reference | names of 13 lengths in 5 scripts, 17 codepages with 132 bytes each, labels and strings of 11, 32, 37 and 128 bytes, ISO records with up to 3 extensions in any order, 4 x 78 dates, 7 cluster counts in 3 types and 16 geometries, times of 3 seconds |

The bounds are the smallest at which each hazard occurs: two cache entries are
the least that evict, three distinguish least recently used from
merely colder; tags up to 2 run out after two accesses, so saturation is reached;
with sectors of one value and clusters of two, entries change type and realloc
both shrinks and grows. A file of four clusters has a first, an inner and a last
hop. Four handles are a root, a directory, a child and a piece of memory to reuse.
On the ISO volume a listing of two sectors, the path table and the descriptors
are more sectors than the two entries hold, so iterators and lookups evict each
other's sector.

Fairness: only `ReadStep` (FatFile, IsoFile), `ScanStep` (FatDir) and `LoopStep`
(Iso9660: the turns of mount and match_name) are weakly fair. They
are the turns of loops inside one C call, which run on the caller's thread
without waiting for anything. No call is ever forced to be made.

The machine of the conversions run uses the real limits of the code for names and
volumes; TLC's integers have 32 bits, so 2^32 and 2^64 are 2^30, which no volume of the
run reaches, and a second has 10 nanoseconds of at most 43, as 2^32 is a little over four
times a second. The theorems are about all values.

Two disagreements have no run of their own. With `ArrayFitsOptions` as an INVARIANT of
FatHandles.cfg, TLC takes the pointer to the options, mounts and changes the
count. With a `MaxSize` of 8 and 8 in `Sizes` in FatFile.cfg, a block as
wide as the code's uint16_t, it violates `ImplementsByteStream`.

The passing fat_dir run has end marks in the first block and the passing fat_file
run stays below the width of uint16_t, because the code's behaviour beyond these
limits is what the violation runs show.

## Proofs

`FatDiskbuf_proofs`, for every cache size from 2, tag range, geometry and volume:

- `TypeCorrect`: `TypeOK` is inductive.
- `BlocksUnique`, `AlwaysAVictim`: neither is inductive alone. `CacheInv` joins
  `UniqueBlocks` with `HotAtMostOne` (at most one entry has a tag of UsageTagMax): a
  call sets one tag to UsageTagMax and ages all others, so with two entries some tag is
  lower, so there is a victim; and a hit is taken before a new entry is made.
- `BuffersAlwaysHold`: over `FatDiskbufRoom`; the memory behind the target of an access has
  room for the block, whether it is new, resized or kept (`TargetHasRoom`), unless it is still
  what mount allocated for the boot sector.
- `CleanBuffersCoherent`: sectors of different blocks are disjoint
  (`SectorsDisjoint`, from `GeometryAssumption`), so writing back one entry leaves the
  sectors of the others (`FlushSparesOthers`).
- `CacheIsInvisible`: if the drive has no faults, `ReadSpec => ImplementsBlockStore`. The
  invariant is that no entry is dirty and every used entry is valid and equals the
  drive; each read then maps to a read of `BlockStore`, mount and unmount to its reset.

`FatHandles_proofs`: `HandleInv` adds to `ParentsOpen` that every child_count is
exactly what it began with and the number of open children (`CountsExact`). The one hypothesis of
`ParentsStayOpen` and `LeavesClose` is `NoWrap`: what memory holds when dir_open gets it is not
within the number of handles of 2^32. It is needed, for a count that wraps to 0 lets a
directory be closed under its children. `HandlesTyped` needs it not: counts
wrap inside their width (`CountsStayWords`).

`FatFile_proofs`: `FileIsStream`, `Spec => ImplementsByteStream`, and `FileTyped`, for
every set of chains that a volume can have (`ChainsAssumption`), every file, cluster
and FAT size, if blocks and clusters are below the width of the code's uint16_t
locals (`NarrowSizes`; without it the refinement is false). The invariant `FileInv` says of a
read in progress that what it has delivered are the bytes from where it began
(`Began`) to the cursor, as many as its counters say (`InBlock`, `InCopy`), that the
cluster at hand is the cursor's as long as the cursor is in the file, and that
the rest of the block fits in the file. `HopFollows` and `WalkArrives` rest on the theorems
about the FAT below; `Delivers` is one piece of a cluster; `ReadDoneRefines`
shows that the loop stops at the count ByteStream takes, the largest that fits. Only
`ReadDone` and the calls of one step are steps of the stream, the others stutter.

`FatChain_proofs`: `Fat12EntryRead`, for every sector size and every cluster whose
entry lies in the FAT, what Entry12 reads is the entry that was written. A position
is split into sector and offset (`SectorAndOffset`, `NextPosition`), the two bytes
into hexadecimal digits. `Fat16EntryRead` and `Fat32EntryRead` are the same for the other types,
whose entries fill their sectors exactly (`EntryInSector`). `WalkFollows` says that the
walk arrives, after any number of hops: the chain itself solves the equation of
the recursive function `walk`, and by induction (`SetInduction`, over a set, from the
well-foundedness of the numbers) nothing else does.

`FatDiskbuf_proofs` has three more. `OtherSectorsSpared`: with a drive that transfers all
it is asked for, an access to a block leaves what every other sector holds, whether that is in a
dirty copy or on the drive; the argument is about which entry a sector is in before and after,
and what is flushed is flushed to where it was cached from. `TagsAlwaysFollowRecency` and
`LeastRecentEvicted` are over `FatDiskbufRecency`: the order of tags is inductive together with
where an access puts an entry in the history (`AccessedProperties`).

`FatDir_proofs`: `DirTyped`, `ListingComplete`, `LabelFound` and `SearchMatchesListing`, for
blocks of any size, directories of any contents, chains and types of FAT, under
`Scannable`. Each of its clauses is a limit of the code, and the runs
fat_dir_full and fat_dir_label or a hazard shows what happens beyond it: the end mark is in
the first block and within the range of the uint8_t index (`EndsInBlock`; fat.c:1175, 1246), the
entries of a long name stand before their file (`LongNamesAttached`; a deleted entry leaves is_lfn
set, fat.c:1203), no volume id follows the end mark (`NoIdAfterEnd`; get_volume_string goes on
behind it), and a block has fewer entries than the counter's width. The invariant `IInv` says of a
scan in progress which position it stands at, that the long name in hand (`LfnAt`) is the one of the
entries just before, and, for a search, that no entry passed matches; of a listing, that it is
the beginning of the reference as long as its rank (`Rank`, the number of live entries up to a
position). One action moves the position by one entry and the rank by one exactly at a live entry
(`RankStep`). At the end mark the rank is the number of all (`RankEnds`): so an ended listing is
whole, and a search that ends has compared every name.

`Iso9660_proofs`, for every number of entries, iterators and sectors: `CacheUsesTwo`
and `CacheIsCoherent`, over the specification of all calls. The invariant
`CacheOK` adds that of the first two entries at most one has the tag of the entry
just accessed (`OneRecent`): so one of the two is always taken (`OneTarget`), and
the access leaves the other's tag below the limit (`OthersAged`). `ReadKeeps` shows
it for one access, `CacheSteps` that no call does anything else to the array.

The other four are about volumes of any records, under `Packed`: every sector of the directory but the
last is used up, for the code takes the zeros behind a record for the end of the directory
(iso9660.c:425). `IsoTyped`, `IsoListingComplete` (`ListsAll`, for any number of iterators that
share the cache with mounts, searches and each other), `IsoSearchMatchesListing` (`LookupExact`)
and `TimestampsOwn`. The invariant `IInv` joins the cache's with

- `MountPart`: the descriptors passed are signed, a primary one is known exactly if one
  was passed, and a volume once mounted will be mounted again (`Accepted`). So mount
  never runs out of the descriptors, and no call reads through lba_primary_desc before it is set.
- `IterPart`: an iterator stands at the start of a sector or at the end of a record (`Edge`), and what
  it has listed is the reference up to there (`Shown`). `ReadsDisk` takes the cache away:
  every read gives the sector on the disk. `SteppedOn` then shows that a step passes one
  record and no other, `SectorOver` and `NothingAhead` that where none is found, all are passed.
- `LookupPart`: the same place of a search, which has passed no name that matches.

`Gpt_proofs`: `GptTyped`, `WholeDrivePartition` (`SpansImage`), `DriveImplementsDevice`
(`GptSpec => ImplementsDevice`) and `ListingsInOrder`. A write is a sequence of
turns, each of which patches the file; `ScatteredTurns` shows that such a sequence exists for every
length, and the device's write, which is said by sectors, is what all turns together
make of the contents. Only the last turn's sector can be missing from the medium, so that a crash maps
to a crash of the device. Of a call whose flush failed `ScatteredMade` shows that the image
and the file are made of units they had, of zeros and of the buffer, wherever its
sectors went (`Made`), which is what `WriteFaulty` allows. The invariant `IInv` is the types of drive, table and iterators and
that an iterator has a table, and a table a drive, under it (`Held`). `ListingsInOrder` has a
hypothesis about the other users of the drive, `KeepsTable`: they do not clear used entries of an
open table, nor write sectors of it that the image did not have when it was opened. The
code reads the table again at each step, so an entry cleared behind an iterator makes its list
end early, or show what was not recorded when it began. Once a flush has failed nothing
is said of listings, since the write that opened a table's entries may be lost or elsewhere.

`Conversions_proofs` has the theorems about names, labels, records, volumes, dates and times.

- Volumes: for every formatted volume, `MountFinds` computes what mount makes of the parameter block
  (the subtraction does not wrap, `Unwrapped`; spare sectors do not add a cluster,
  `DivOfMultiple`; so the type is the formatter's, `TypeTold`). From it `EveryClusterInVolume` and
  `EveryEntryInFat`.
- Labels: `LabelTrimmed` is about a label of any length without zeros, with a character that is no
  space, in any longer buffer (the code writes behind a shorter one, see below).
  The first zero of the result is behind the last such character, where the code's loop stops.
- Loops: the code's loops over fragments, characters and extensions are folds and recursive functions in the
  model. An induction theorem cannot be cited for them, since it takes an operator, but the set of
  the numbers up to which a statement holds can be written down: `SetInduction` says that a set of
  naturals with 0 and with the successors of its elements has all. From it come `StepByStep` and `StepByStepDown`
  (a sequence of values, each made of the one before or behind it, exists), `FoldSolved` and `PartsOf` (a fold and `FlattenSeq` of
  the community modules go through such values), so that what holds at the first and from one to the next
  holds at the last.
- Short names: `Folds437` to `Folds869` compare each of the tables with the letters of its codepage: but for the bytes
  of `Misfolded`, a table takes a small letter to its capital, an accented letter of `Unaccented` to
  the plain capital, and leaves every other byte alone. `TablesFold` joins them and `FoldedLetter` says it of one byte:
  a table gives a byte and its capital the same, and that tells bytes of different letters apart. `NameText` is
  the name made of an entry, `CasedOnce` that folding it is folding each byte, with sfn_lowercase or without.
  `ShortNameFound` follows for all names of up to 8 and 3 bytes that are not of `Misfolded`, of which the run
  takes those of a letter and one more byte.
- Long names: the fragments are put at their places, from the last to the first, and each takes the 13
  places no other has, so that nothing of an earlier name is left in front of the end (`LongNameKept`, with
  `AreOffsets` for where the bytes of each character begin). Then the loop of the
  conversion writes the characters one by one, and decoding gives each back from its bytes (`Utf8Decoded`). The end is
  written if the bytes and one more for each character are fewer than the buffer; for all names of units
  the code encodes as UTF-8 does (not 127 and 2047) that fit into the first buffer, for all sizes of both
  (`NamesAssumption`; `LengthsAssumption`, that the lengths of the run are at most 247 and the first buffer holds them).
  Memory never written is no character (`UndefAssumption`).
- Directory records: a record is laid out from its parts (`RecordIs`), the extensions behind each other (`PartsOf`).
  `ExtensionFound` says that the driver's walk, which adds lengths, visits exactly the
  beginnings of the extensions, so that it stops at the first that has the mark looked for, whatever bytes are inside the others, and at none
  when there is none. `NameReadAt` and `DateReadAt` read what is at that place; a date lies behind as many dates as
  have a bit before its own (`DatesBefore`), and long dates are all moved alike
  (`LongTimesApart`). `RecordRead` joins them, for all names without zeros, and all orders, repetitions
  and numbers of extensions up to the 254 bytes a record has room for; `ExtensionsFit` shows that the run's have.
- Dates of files: days are counted as `Timegm` does. Years follow each other by 365 or 366 days (`YearsFollow`),
  months by theirs (`MonthsFollow`), so a date has no day past that of the next month (`DatesSort`);
  the second of a day sorts as hour, minute and second do (`ClockSorts`). `StampsSort`
  takes the three types of stamp by cases, each with the fields it records. Its hypothesis
  `IsStamp` is a valid date from 1980 to 2107 and a created_tenth below 20: from 20 on the
  code is wrong (finding at fat.c:1285).
- Dates of volumes: the code makes digits of the first ten characters only, so minutes and seconds
  are each 528 too many (finding at iso9660.c:125). `LongTimeOf` proves that this moves every date by the same 528 minutes and 528 seconds,
  whichever day it ends up in, and `MovedSorts` that what is moved alike sorts alike: `LongDatesSort`.
- Times: `MovesAreExact` and `RoundTripExact`, for every length of a second and width of nsec that
  `TimeAssumption` allows, by cases on the borrow, each of which leaves the instant as it is.

`ClustersAlwaysInVolume`, `EntriesAlwaysInFat`, `LabelsAlwaysTrimmed`, `StampsAlwaysOrdered`,
`DifferencesAlwaysExact`, `ShortNamesAlwaysFound`, `LongNamesAlwaysKept` and `RecordsAlwaysRead` carry these
to the properties of the run. Those of volumes and differences need no
invariant; for the others `LabelPart`, `StringPart`, `StampPart`, `DatesPart`, `ShortPart`, `LongPart` and `RecordPart`
say that every input the machine takes is of the kind the theorems are about.

Each inductive invariant was checked by TLC on the component's run before it was proved; of
`Scannable` and `Packed` TLC has confirmed that the directories of the passing runs satisfy them.

Only model-checked: the liveness properties `ReadReturns`, `ScanReturns` and `LoopsReturn`, since
fairness is out of the prover's reach, and the four runs that expect a violation, of which there is nothing
to prove. Every safety property of a passing run is stated by a theorem.

## Not modelled

- Long names of 248 characters and more, whose entries the code writes behind its
  buffer of 256 (fat.c:729); the characters 0x7F and 0x7FF, which it encodes with a byte
  too many; names under an unknown codepage, which it compares through a null
  pointer; labels in buffers no longer than they are.
- validate_sfn, validate_lfn and get_sfn_checksum, which nothing calls, and the writes
  of the cache by the driver: write_sector and write_cluster have no callers, so that
  unmount's dropping of dirty entries (fat.c:894) and a reload over the data of an uncached
  write (fat.c:461) do not occur.
- The attributes an iterator gives, the serial number, error
  codes and their strings; reading the clock.
- Contents of the cache on volumes with sectors of more than 512 bytes, once a sector was read
  behind the end of the boot sector's buffer (fat.c:838).
- Drives other than the raw image, and images whose offsets exceed 64 bits. A sector that cannot
  be written leaves nothing of itself in the file: sectors written in part are left out.
- Iterators outliving their directory, and file systems deleted while in use.
- ISO 9660: subdirectories (the same code from another sector), directory records
  with padding behind them in a sector (the code ends the listing there, hazard at
  iso9660.c:425), Joliet, and the timestamp of the last record of a full sector,
  which the code looks for in front of the next sector (iso9660.c:537).
- Corrupt volumes: chains shorter than their file, cycles, geometry with zeros.
- `fsal/mount.c`, the C++ wrapper, CRC32, `fs/fs.c`: see PROJECT.json.

## Plan

1. Done: the FAT driver's cache, chains, geometry, names, files, directories and
   handles; the ISO driver's cache, directories, files, names and dates; the raw image and the GPT;
   differences of times; the theorems above.
2. Done: every safety property of the runs is proved for every value of the constants.
3. Models: subdirectories on the ISO volume.
