----------------------------- MODULE IsoDiskbuf -----------------------------
(***************************************************************************)
(* The sector cache of the ISO 9660 driver (fs/iso9660/iso9660.c).  It is  *)
(* read only, and its allocation differs from the FAT driver's: an unused  *)
(* element and an entry below USAGE_TAG_MAX are taken alike, whichever     *)
(* comes first.                                                            *)
(*                                                                         *)
(* ReadSector is a function of the array, because one call of the driver   *)
(* may read several sectors.                                               *)
(***************************************************************************)
EXTENDS Integers

CONSTANTS
  DiskbufCount,   \* options.diskbuf_count, 32 by default
  UsageTagMax,    \* USAGE_TAG_MAX, 32767 in the code
  Lba,            \* the sectors of the volume
  Undef,          \* contents of memory that was never written
  NoEntry         \* a NULL element of diskbuf

\* With one entry the second sector read finds none to take: target_entry_idx
\* stays at -1.
ASSUME IsoDiskbufAssumption ==
  /\ DiskbufCount \in Nat /\ DiskbufCount >= 2
  /\ UsageTagMax \in Nat /\ UsageTagMax >= 1

VARIABLES
  disk,      \* the contents of the sectors; nothing writes them
  diskbuf    \* the cache: NoEntry or an entry at every index

Index == 0 .. DiskbufCount - 1
Empty == [i \in Index |-> NoEntry]

Used(buf)      == {i \in Index : buf[i] # NoEntry}
Hits(buf, lba) == {i \in Used(buf) : buf[i].lba = lba}

\* Mutant: as long as an element is NULL, no entry is replaced.
TakeableLast(buf) ==
  IF Used(buf) # Index THEN Index \ Used(buf)
  ELSE {i \in Index : buf[i].usage_tag < UsageTagMax}

\* The elements an access that hits nothing may take.
Takeable(buf) == {i \in Index : buf[i] = NoEntry \/ buf[i].usage_tag < UsageTagMax}

\* The scan ends at the last hit or, without one, at the first takeable index.
IsTarget(buf, lba, i) ==
  \/ i \in Hits(buf, lba) /\ \A j \in Hits(buf, lba) : j <= i
  \/ Hits(buf, lba) = {} /\ i \in Takeable(buf) /\ \A j \in Takeable(buf) : i <= j

\* Mutant: data_valid is not reset when the entry gets another sector.
AllocatedStale(buf, lba, i) ==
  IF buf[i] = NoEntry
  THEN [lba |-> lba, data_valid |-> FALSE, usage_tag |-> UsageTagMax, data |-> Undef]
  ELSE [buf[i] EXCEPT !.usage_tag = UsageTagMax, !.lba = lba]

\* The entry after allocate_diskbuf_sector_entry.
Allocated(buf, lba, i) ==
  IF Hits(buf, lba) # {} THEN [buf[i] EXCEPT !.usage_tag = UsageTagMax]
  ELSE [lba |-> lba, data_valid |-> FALSE, usage_tag |-> UsageTagMax,
        data |-> IF buf[i] = NoEntry THEN Undef ELSE buf[i].data]

\* read_sector reads unless the entry is marked valid, and ignores how much the
\* drive transferred; here the drive transfers everything.
Filled(e) == IF e.data_valid THEN e
             ELSE [e EXCEPT !.data = disk[e.lba], !.data_valid = TRUE]

Aged(e) == IF e = NoEntry THEN NoEntry
           ELSE [e EXCEPT !.usage_tag = IF @ > 0 THEN @ - 1 ELSE 0]

\* The array after read_sector, and what it put into the caller's hands.
ReadSector(buf, lba) ==
  [i \in Index |-> IF IsTarget(buf, lba, i) THEN Filled(Allocated(buf, lba, i)) ELSE Aged(buf[i])]
DataRead(buf, lba) ==
  LET i == CHOOSE i \in Index : IsTarget(buf, lba, i) IN Filled(Allocated(buf, lba, i)).data

-----------------------------------------------------------------------------
\* Properties.

\* Whatever diskbuf_count is, only the first two elements are ever used: a miss
\* takes element 0 unless that was accessed last, and then element 1
\* (iso9660.c:196 to 210).
OnlyTwoUsed == Used(diskbuf) \subseteq {0, 1}

\* Each used entry holds its own sector, and no sector is held twice: an entry
\* taken for another sector is reread (iso9660.c:224), a held sector is a hit.
CacheCoherent ==
  /\ \A i \in Used(diskbuf) : diskbuf[i].data_valid /\ diskbuf[i].data = disk[diskbuf[i].lba]
  /\ \A i, j \in Used(diskbuf) : diskbuf[i].lba = diskbuf[j].lba => i = j
=============================================================================
