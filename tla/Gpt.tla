-------------------------------- MODULE Gpt --------------------------------
(***************************************************************************)
(* The GPT partition table (partition/gpt/gpt.c) and the whole-drive       *)
(* partition (partition/partition.c) over a raw image.                     *)
(*                                                                         *)
(* A unit of the image is the size of a struct gpt_part_entry, 128 bytes,  *)
(* so a sector_buf of 512 bytes has four.  A unit is                       *)
(*   "zero"    zero bytes, as an entry: unused;                            *)
(*   "mbr"     the end of a protective MBR: lba is the header's sector;    *)
(*   "header"  a GPT header with a right checksum: its entries' first      *)
(*             sector and their count;                                     *)
(*   "part"    a used entry, id standing for its range, GUID and name;     *)
(*   "data"    anything else.                                              *)
(* The results of ofsl_drive_read_sector are ignored by the code: a read   *)
(* that fails leaves in sector_buf what the stack held, one of Stack.      *)
(***************************************************************************)
EXTENDS RawImage

CONSTANTS
  Iter,         \* iterators (struct part_gpt)
  Stack,        \* what an uninitialised sector_buf may hold
  NoTable, NoIter, NoEntry

BufSize == 4    \* sizeof(sector_buf), in units

ASSUME GptAssumption ==
  /\ Stack \subseteq [1 .. BufSize -> Unit]
  /\ \A unit \in Unit : /\ unit.kind = "mbr" => unit.lba \in Nat
                        /\ unit.kind = "header" => unit.entries \in Nat /\ unit.count \in Nat

VARIABLES
  table,    \* the struct ptbl_gpt, or NoTable
  part      \* for each iterator the struct part_gpt, or NoIter

vars == <<file, drv, unwritten, faults, reply, table, part>>

Table == [lba_part_entry_start : Nat, part_entry_count : Nat]

\* What list_next gives its caller is the entry it read; the name field of
\* the entry is copied with its range.
PartInfo == [idx : Nat, valid : BOOLEAN, entry : Unit \cup {NoEntry}]

TypeOK ==
  /\ DriveTypeOK
  /\ table \in Table \cup {NoTable}
  /\ part \in [Iter -> PartInfo \cup {NoIter}]

Started == {i \in Iter : part[i] # NoIter}

-----------------------------------------------------------------------------
\* sector_buf after ofsl_drive_read_sector(drv, sector_buf, lba, 512, 1), if it
\* held old and the stream is at at.
SectorBuf(old, f, at) ==
  IF BufSize <= drv.sector_size /\ InFile(f, at, BufSize)
  THEN Sector(f, at, BufSize) ELSE old

\* A read begins with fseek, whether or not it then finds the sector.
BufSeeks == IF BufSize <= drv.sector_size THEN FailedSeeks(0) ELSE {{}}

SoughtBySector(F) == IF BufSize <= drv.sector_size THEN Sought(F)
                     ELSE UNCHANGED <<file, unwritten, faults>>

IsUsed(unit) == unit.kind # "zero"      \* guid_sum is not 0

\* ofsl_ptbl_gpt_create: NULL unless the MBR and the header are right.
TableOf(mbr, header) ==
  IF mbr[4].kind = "mbr" /\ header[1].kind = "header"
  THEN [lba_part_entry_start |-> header[1].entries,
        part_entry_count |-> header[1].count]
  ELSE NoTable

CreateTable ==
  /\ drv # NoDrive /\ table = NoTable
  /\ \E F \in BufSeeks, stack \in Stack :
       LET mbr    == SectorBuf(stack, Start(F), Landing(F, 0, 0))
           header == SectorBuf(mbr, Start(F), Offset(mbr[4].lba))
       IN  /\ table' = IF mbr[4].kind = "mbr" THEN TableOf(mbr, header) ELSE NoTable
           /\ SoughtBySector(F)
  /\ reply' = NoReply
  /\ UNCHANGED <<drv, part>>

\* _delete frees the table; its iterators point to it, so callers end them first.
DeleteTable ==
  /\ table # NoTable /\ Started = {}
  /\ table' = NoTable
  /\ reply' = NoReply
  /\ UNCHANGED <<file, drv, unwritten, faults, part>>

\* list_start sets valid only; idx is what malloc left until list_next.
ListStart(i) ==
  /\ table # NoTable /\ part[i] = NoIter
  /\ part' = [part EXCEPT ![i] = [idx |-> 0, valid |-> FALSE, entry |-> NoEntry]]
  /\ reply' = NoReply
  /\ UNCHANGED <<file, drv, unwritten, faults, table>>

\* The sector of entry idx and its place there: four entries to a sector.
EntrySector(idx) == table.lba_part_entry_start + idx \div 4
EntryPlace(idx)  == (idx % 4) + 1

\* What list_next takes for entry idx.
EntryFound(F, stack, idx) ==
  SectorBuf(stack, Start(F), Landing(F, EntrySector(idx), 0))[EntryPlace(idx)]

\* Mutant: the comparison with the count lets one more through.
HasOneMoreEntry(idx) == idx <= table.part_entry_count

HasEntry(idx) == idx < table.part_entry_count

Passed(i, idx, entry) ==
  [part EXCEPT ![i] = [idx |-> idx + 1, valid |-> TRUE, entry |-> entry]]

\* list_next returning 1: behind the last entry, or at an unused one.
ListNextNone(i) ==
  /\ part[i] # NoIter
  /\ LET idx == IF part[i].valid THEN part[i].idx ELSE 0
     IN  /\ part' = [part EXCEPT ![i].idx = idx]
         /\ \/ ~HasEntry(idx) /\ UNCHANGED <<file, unwritten, faults>>
            \/ /\ HasEntry(idx)
               /\ \E F \in BufSeeks, stack \in Stack :
                    ~IsUsed(EntryFound(F, stack, idx)) /\ SoughtBySector(F)
  /\ reply' = NoReply
  /\ UNCHANGED <<drv, table>>

\* list_next returning 0.
ListNextPart(i) ==
  /\ part[i] # NoIter
  /\ LET idx == IF part[i].valid THEN part[i].idx ELSE 0
     IN  /\ HasEntry(idx)
         /\ \E F \in BufSeeks, stack \in Stack :
              LET entry == EntryFound(F, stack, idx)
              IN  /\ IsUsed(entry) /\ part' = Passed(i, idx, entry)
                  /\ SoughtBySector(F)
  /\ reply' = NoReply
  /\ UNCHANGED <<drv, table>>

ListEnd(i) ==
  /\ part[i] # NoIter
  /\ part' = [part EXCEPT ![i] = NoIter]
  /\ reply' = NoReply
  /\ UNCHANGED <<file, drv, unwritten, faults, table>>

\* ofsl_partition_from_drive: the whole drive as one partition.
PartitionFromDrive == [lba_start |-> 0, lba_end |-> drv.lba_max]

-----------------------------------------------------------------------------
\* The drive is deleted after what points to it; the end of the process takes
\* everything with it.
DeleteDrive == table = NoTable /\ Delete

ProcessEnds == /\ Crash
               /\ table' = NoTable
               /\ part' = [i \in Iter |-> NoIter]

GptInit == /\ Init
           /\ table = NoTable
           /\ part = [i \in Iter |-> NoIter]

Next ==
  \/ \E size \in SectorSizes, readonly \in BOOLEAN :
       Create(size, readonly) /\ UNCHANGED <<table, part>>
  \/ DeleteDrive /\ UNCHANGED <<table, part>>
  \/ \E lba \in Lbas, size \in SectorSizes, cnt \in 1 .. MaxCount :
       Read(lba, size, cnt) /\ UNCHANGED <<table, part>>
  \/ \E lba \in Lbas, size \in SectorSizes, cnt \in 1 .. MaxCount, buf \in Buffers :
       Write(lba, size, cnt, buf) /\ UNCHANGED <<table, part>>
  \/ ProcessEnds
  \/ CreateTable
  \/ DeleteTable
  \/ \E i \in Iter : \/ ListStart(i)
                     \/ ListNextNone(i)
                     \/ ListNextPart(i)
                     \/ ListEnd(i)

Spec == GptInit /\ [][Next]_vars

-----------------------------------------------------------------------------
\* A drive is a device that reads and writes whole sectors and can lose at
\* most the last one written (rawimage.c:18-71): the loop over sectors, the
\* file's gaps and what the library keeps between calls do not show.  What a
\* call does in which the library could not write out what it kept is bounded
\* by SectorDevice's other actions: the caller is not told (rawimage.c:29, 53).
Device == INSTANCE SectorDevice WITH
            Sizes  <- SectorSizes,
            image  <- Contents,
            medium <- file,
            sector <- IF drv = NoDrive THEN 0 ELSE drv.sector_size

ImplementsDevice == Device!Spec

\* All sectors of the partition that spans the drive are in the image, also
\* after writes and crashes (partition.c:28, rawimage.c:92): lba_max is taken
\* from the file once.  No such drives are those of an image that was empty
\* when it was opened, whose lba_max wrapped, and of sectors of 2^16 bytes.
SpansImage ==
  drv # NoDrive /\ drv.sector_size # 0 /\ drv.lba_max # LbaWord - 1 =>
    \A lba \in PartitionFromDrive.lba_start .. PartitionFromDrive.lba_end :
      InFile(file, Offset(lba), drv.sector_size)

\* The table as the GPT format lays it out: entries one behind the other from
\* the start of a sector of 512 bytes on.
TableEntry(k) == Contents[table.lba_part_entry_start * BufSize + k + 1]

\* The entries of the table lie in the image, on a drive of 512-byte sectors.
TableReadable ==
  /\ drv.sector_size = BufSize
  /\ (table.lba_part_entry_start * BufSize) + table.part_entry_count <= Len(Contents)
  /\ Len(Contents) % BufSize = 0

\* How many entries come before the first unused one.
LeadingEntries ==
  CHOOSE n \in 0 .. table.part_entry_count :
    /\ \A k \in 0 .. n - 1 : IsUsed(TableEntry(k))
    /\ n < table.part_entry_count => ~IsUsed(TableEntry(n))

\* How many entries an iterator has listed.
Listed(i) == IF part[i].valid THEN part[i].idx ELSE 0

\* An iterator gives the used entries at the head of the table one after the
\* other, whatever other iterators do between two of its steps and wherever
\* the drive's users read or write the given buffers, which clear no entry,
\* and ends exactly behind the last of them (gpt.c:75-120), as long as
\* the library could write out what it kept.
ListsInOrder ==
  [][\A i \in Iter :
       drv # NoDrive /\ table # NoTable /\ TableReadable /\ faults' = 0 =>
       /\ ListNextPart(i) =>
            /\ Listed(i) < LeadingEntries
            /\ part'[i].entry = TableEntry(Listed(i))
            /\ Listed(i)' = Listed(i) + 1
       /\ ListNextNone(i) => Listed(i) >= LeadingEntries]_vars
=============================================================================
