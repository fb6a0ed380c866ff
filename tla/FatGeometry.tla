---------------------------- MODULE FatGeometry ----------------------------
(***************************************************************************)
(* What mount makes of the parameter block of a FAT volume, and the map    *)
(* between clusters and sectors (mount, cluster_to_sector and              *)
(* sector_to_cluster in fs/fat/fat.c).                                     *)
(*                                                                         *)
(* bpb is the parameter block, v what mount leaves in struct fs_fat.       *)
(***************************************************************************)
EXTENDS FatChain

CONSTANTS Word32,       \* the number of values of a uint32_t
          LbaWord       \* the number of values of an lba_t, 2^64

ASSUME GeometryAssumption ==
  Word32 \in Nat \ {0} /\ LbaWord \in Nat /\ LbaWord >= Word32

\* Division that rounds up.
CeilDiv(n, d) == (n + d - 1) \div d

RootSectors(bpb) == CeilDiv(bpb.rootEntries * 32, bpb.bytesPerSector)
FatSize(bpb)     == IF bpb.fatSize16 # 0 THEN bpb.fatSize16 ELSE bpb.fatSize32
TotalSectors(bpb) ==
  IF bpb.totalSectors16 # 0 THEN bpb.totalSectors16 ELSE bpb.totalSectors32

\* Mutant: the first FAT16 is taken for a FAT12.
TypeOneLate(clusterCount) == IF clusterCount < 4086 THEN "FAT12" ELSE
                             IF clusterCount < 65525 THEN "FAT16" ELSE "FAT32"

\* The type of a volume is a matter of how many clusters it has.
TypeOf(clusterCount) == IF clusterCount < 4085 THEN "FAT12" ELSE
                        IF clusterCount < 65525 THEN "FAT16" ELSE "FAT32"

\* mount: the fields it computes.
Mounted(bpb) ==
  LET begin == bpb.reserved + (bpb.fatCount * FatSize(bpb))
      data  == (TotalSectors(bpb) - (begin + RootSectors(bpb))) % Word32
  IN  [sectorSize        |-> bpb.bytesPerSector,
       sectorsPerCluster |-> bpb.sectorsPerCluster,
       rootSectorCount   |-> RootSectors(bpb),
       dataAreaBegin     |-> begin,
       fatType           |-> TypeOf(data \div bpb.sectorsPerCluster)]

\* Mutant: the fixed root directory is forgotten.
FirstSectorRootless(v) == v.dataAreaBegin

\* Where cluster 2 begins: behind the fixed root directory, where there is one.
FirstSector(v) ==
  IF v.fatType = "FAT32" THEN v.dataAreaBegin ELSE v.dataAreaBegin + v.rootSectorCount

\* cluster_to_sector and sector_to_cluster.
ClusterToSector(v, cluster) ==
  (((cluster - 2) * v.sectorsPerCluster) + FirstSector(v)) % Word32
SectorToCluster(v, lba) ==
  ((((lba - FirstSector(v)) % LbaWord) \div v.sectorsPerCluster) + 2) % Word32

\* get_next_cluster: the bytes of the FAT in which the entry of a cluster is.
EntryBytes(v, cluster) ==
  IF v.fatType = "FAT12" THEN (cluster + cluster \div 2) .. (cluster + cluster \div 2 + 1) ELSE
  IF v.fatType = "FAT16" THEN (2 * cluster) .. (2 * cluster + 1)
  ELSE (4 * cluster) .. (4 * cluster + 3)

-----------------------------------------------------------------------------
\* The reference: the parameter block a formatter writes for a volume of a
\* type, a number of clusters and sectors to spare that make no cluster.

MayHave(type, clusterCount) ==
  \/ type = "FAT12" /\ clusterCount \in Nat \ {0} /\ clusterCount <= 4084
  \/ type = "FAT16" /\ clusterCount \in Nat /\ clusterCount >= 4085 /\ clusterCount <= 65524
  \/ type = "FAT32" /\ clusterCount \in Nat /\ clusterCount >= 65525
Bits(type) == IF type = "FAT12" THEN 12 ELSE IF type = "FAT16" THEN 16 ELSE 32

MadeFatSize(f) == CeilDiv((f.clusters + 2) * Bits(f.type), 8 * f.bytesPerSector)
MadeSectors(f) ==
  f.reserved + (f.fatCount * MadeFatSize(f)) + CeilDiv(f.rootEntries * 32, f.bytesPerSector)
    + (f.clusters * f.sectorsPerCluster) + f.spare

Made(f) ==
  [bytesPerSector    |-> f.bytesPerSector,
   sectorsPerCluster |-> f.sectorsPerCluster,
   reserved          |-> f.reserved,
   fatCount          |-> f.fatCount,
   rootEntries       |-> f.rootEntries,
   fatSize16         |-> IF f.type = "FAT32" THEN 0 ELSE MadeFatSize(f),
   fatSize32         |-> MadeFatSize(f),
   totalSectors16    |-> IF MadeSectors(f) < 65536 THEN MadeSectors(f) ELSE 0,
   totalSectors32    |-> MadeSectors(f)]

\* What a formatter may be asked for.
IsVolume(f) ==
  /\ f.bytesPerSector \in Nat \ {0}
  /\ f.sectorsPerCluster \in Nat \ {0}
  /\ f.reserved \in Nat \ {0} /\ f.fatCount \in Nat \ {0} /\ f.rootEntries \in Nat
  /\ f.spare \in 0 .. f.sectorsPerCluster - 1
  /\ MayHave(f.type, f.clusters)
  /\ f.type = "FAT32" => f.rootEntries = 0
  /\ MadeSectors(f) < Word32

\* The clusters of a formatted volume lie behind its root directory, one after
\* the other, inside the volume, and every sector is led back to the cluster it
\* is in (fat.c:149-191, with the geometry of fat.c:846-871).
ClustersFit(f) ==
  LET v == Mounted(Made(f)) IN
  IsVolume(f) =>
    /\ ClusterToSector(v, 2) = f.reserved + (f.fatCount * MadeFatSize(f)) + RootSectors(Made(f))
    /\ \A c \in 2 .. f.clusters + 1 :
         /\ ClusterToSector(v, c + 1) = ClusterToSector(v, c) + f.sectorsPerCluster
         /\ ClusterToSector(v, c) + f.sectorsPerCluster <= MadeSectors(f)
         /\ \A k \in 0 .. f.sectorsPerCluster - 1 :
              SectorToCluster(v, ClusterToSector(v, c) + k) = c

\* Following a chain never leaves the first FAT: the bytes taken for a cluster's
\* entry are inside it, and of the width the formatter gave them (fat.c:209-258,
\* with the type chosen at fat.c:864).
EntriesFit(f) ==
  LET v == Mounted(Made(f)) IN
  IsVolume(f) =>
    \A c \in 2 .. f.clusters + 1 :
      \A b \in EntryBytes(v, c) :
        /\ b < MadeFatSize(f) * f.bytesPerSector
        /\ 8 * b \in c * Bits(f.type) - 7 .. (c + 1) * Bits(f.type) - 1
=============================================================================
