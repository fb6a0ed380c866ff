---------------------------- MODULE FatDiskbufRoom ----------------------------
(***************************************************************************)
(* The block cache with the memory of its entries: room is how many        *)
(* sectors of the volume the buffer behind each element of diskbuf has     *)
(* room for.  The code records it nowhere; it allocates for a sector or a  *)
(* cluster and allocates anew only when the type of an entry changes.      *)
(*                                                                         *)
(* room has no effect on the other variables.  Their contents are those of *)
(* a volume with sectors of 512 bytes, where every buffer has room.        *)
(***************************************************************************)
EXTENDS FatDiskbuf

CONSTANT
  BootRoom      \* whole sectors in the 512 bytes mount allocates for the boot
                \* sector: 1, or 0 if bytes_per_sector is larger

ASSUME BootRoomAssumption == BootRoom \in {0, 1}

VARIABLE room

roomVars == <<vars, room>>

RoomInit == Init /\ room = [i \in Index |-> 0]

\* The sectors of a block.
Needs(b) == IF b.type = "SECTOR" THEN 1 ELSE SectorsPerCluster

\* Mutant: the type is assigned before it is compared.
RoomUnresized(b, i) == IF IsAlloc(b, i) THEN Needs(b) ELSE room[i]

\* malloc for a new entry, realloc for one that changes its type.
RoomAfter(b, i) ==
  IF IsAlloc(b, i) \/ (IsRealloc(b, i) /\ diskbuf[i].block.type # b.type)
  THEN Needs(b) ELSE room[i]

Resize(b) == room' = [room EXCEPT ![held'] = RoomAfter(b, held')]

\* mount reads the boot sector before it knows how large a sector is.
MountRoom ==
  room' = [i \in Index |-> IF i = 0 THEN BootRoom
                           ELSE IF i = 1 /\ Fat32 THEN Needs(SectorBlock(1)) ELSE 0]

RoomNext ==
  \/ Mount /\ MountRoom
  \/ Unmount /\ room' = [i \in Index |-> 0]
  \/ \E b \in Block : Read(b) /\ Resize(b)
  \/ \E b \in Block : \E values \in [Span(b) -> Value] : Write(b, values) /\ Resize(b)
  \/ \E o \in Offsets, value \in Value : Modify(o, value) /\ UNCHANGED room

RoomSpec == RoomInit /\ [][RoomNext]_roomVars
-----------------------------------------------------------------------------
\* Every buffer has room for its block, through any changes between sectors and
\* clusters (fat.c:381, fat.c:520), but for one: on a volume of sectors larger
\* than 512 bytes entry 0 is short from mount on, for as long as it is reused
\* for sectors only.
BuffersHold ==
  \A i \in Used : \/ Needs(diskbuf[i].block) <= room[i]
                  \/ i = 0 /\ diskbuf[i].block.type = "SECTOR" /\ room[i] = BootRoom
=============================================================================
