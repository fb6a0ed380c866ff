------------------------------ MODULE FatChain ------------------------------
(***************************************************************************)
(* The file allocation table and the walk along a cluster chain            *)
(* (get_next_cluster in fs/fat/fat.c).                                     *)
(*                                                                         *)
(* The walk is over a table, a function from cluster numbers to entries;   *)
(* FatEntry says how the code finds an entry among the bytes of the FAT.   *)
(***************************************************************************)
EXTENDS Integers

\* The values of the type of a volume.
FatType == {"FAT12", "FAT16", "FAT32"}

\* The largest cluster number a walk may start a hop from, and the largest
\* entry it does not take for the end of the chain.  FAT12 tests the entry
\* against the limit of FAT16 (fat.c:237).
MaxCluster(type) == CASE type = "FAT12" -> 4084         \* FAT12_MAX_CLUSTER
                      [] type = "FAT16" -> 65524        \* FAT16_MAX_CLUSTER
                      [] type = "FAT32" -> 268435446    \* FAT32_MAX_CLUSTER
MaxEntry(type) == IF type = "FAT12" THEN MaxCluster("FAT16") ELSE MaxCluster(type)

\* An end-of-chain mark of each type.
EndMark(type) == CASE type = "FAT12" -> 4095
                   [] type = "FAT16" -> 65535
                   [] type = "FAT32" -> 268435455

\* One turn of the while loop from cluster c.  ret is what the function would
\* return, cluster the value left in *cluster.
Hop(type, table, c) ==
  IF c > MaxCluster(type) THEN [ret |-> 1, cluster |-> c]
  ELSE [ret |-> IF table[c] > MaxEntry(type) THEN 1 ELSE 0, cluster |-> table[c]]

\* get_next_cluster: num hops, or fewer when one of them returns 1.
GetNextCluster(type, table, head, num) ==
  LET walk[n \in 0 .. num] ==
        IF n = 0 THEN [ret |-> 0, cluster |-> head]
        ELSE IF walk[n - 1].ret = 1 THEN walk[n - 1]
        ELSE Hop(type, table, walk[n - 1].cluster)
  IN  walk[num]

-----------------------------------------------------------------------------
\* Reading an entry: fat[s][o] is byte o of sector s of the FAT.

\* Mutant: the second byte is taken from the same sector, where the first is
\* the last.
Entry12InOneSector(fat, sectorSize, c) ==
  LET idx    == c + c \div 2
      low    == fat[idx \div sectorSize][idx % sectorSize]
      high   == fat[idx \div sectorSize][(idx + 1) % sectorSize]
  IN  IF c % 2 = 1 THEN low \div 16 + 16 * high ELSE low + 256 * (high % 16)

\* FAT12 entries are 12 bits wide: two of them share three bytes, and the two
\* bytes of one entry may lie in two sectors.
Entry12(fat, sectorSize, c) ==
  LET idx    == c + c \div 2
      sector == idx \div sectorSize
      offset == idx % sectorSize
      low    == fat[sector][offset]
      high   == IF offset = sectorSize - 1 THEN fat[sector + 1][0]
                ELSE fat[sector][offset + 1]
  IN  IF c % 2 = 1 THEN low \div 16 + 16 * high ELSE low + 256 * (high % 16)

\* FAT16 and FAT32 entries are little-endian words of two and four bytes; the
\* code takes all 32 bits of a FAT32 entry.
Entry16(fat, sectorSize, c) ==
  LET sector == c \div (sectorSize \div 2)
      offset == 2 * (c % (sectorSize \div 2))
  IN  fat[sector][offset] + 256 * fat[sector][offset + 1]

Entry32(fat, sectorSize, c) ==
  LET sector == c \div (sectorSize \div 4)
      offset == 4 * (c % (sectorSize \div 4))
  IN  fat[sector][offset] + 256 * fat[sector][offset + 1]
        + 65536 * fat[sector][offset + 2] + 16777216 * fat[sector][offset + 3]

FatEntry(type, fat, sectorSize, c) ==
  CASE type = "FAT12" -> Entry12(fat, sectorSize, c)
    [] type = "FAT16" -> Entry16(fat, sectorSize, c)
    [] type = "FAT32" -> Entry32(fat, sectorSize, c)

-----------------------------------------------------------------------------
\* The reference: the FAT a formatter writes.  entries[c] is the entry of
\* cluster c; hexadecimal digit d of entry e is Digit(e, d), lowest first.

Digit(e, d) == CASE d = 0 -> e % 16
                 [] d = 1 -> (e \div 16) % 16
                 [] d = 2 -> (e \div 256) % 16

\* Digit n of a FAT12 is digit n % 3 of entry n \div 3; a byte is two digits.
Digit12(entries, n) == Digit(entries[n \div 3], n % 3)
Byte12(entries, k)  == Digit12(entries, 2 * k) + 16 * Digit12(entries, 2 * k + 1)

Byte16(entries, k) ==
  IF k % 2 = 0 THEN entries[k \div 2] % 256 ELSE entries[k \div 2] \div 256

Byte32(entries, k) ==
  LET e == entries[k \div 4] IN
  CASE k % 4 = 0 -> e % 256
    [] k % 4 = 1 -> (e \div 256) % 256
    [] k % 4 = 2 -> (e \div 65536) % 256
    [] k % 4 = 3 -> e \div 16777216

FatOf(type, entries, sectorSize, sectors) ==
  [s \in 0 .. sectors - 1 |-> [o \in 0 .. sectorSize - 1 |->
     CASE type = "FAT12" -> Byte12(entries, s * sectorSize + o)
       [] type = "FAT16" -> Byte16(entries, s * sectorSize + o)
       [] type = "FAT32" -> Byte32(entries, s * sectorSize + o)]]
=============================================================================
