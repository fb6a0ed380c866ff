-------------------------- MODULE FatChain_proofs --------------------------
(***************************************************************************)
(* Theorems about reading the file allocation table: get_next_cluster      *)
(* finds in a FAT, whatever the size of its sectors, the entry a formatter *)
(* put there, and follows a chain of them, however long.                   *)
(***************************************************************************)
EXTENDS FatChain, Sequences, WellFoundedInduction, TLAPS

\* What fits in 12 bits.
Entry12Value == {e \in Nat : e < 4096}

\* Where the bytes of a position are.
LEMMA SectorAndOffset ==
  ASSUME NEW sectorSize \in Nat, sectorSize > 0, NEW sectors \in Nat,
         NEW k \in Nat, k < sectors * sectorSize
  PROVE  /\ k \div sectorSize \in 0 .. sectors - 1
         /\ k % sectorSize \in 0 .. sectorSize - 1
         /\ (k \div sectorSize) * sectorSize + (k % sectorSize) = k
<1> DEFINE q == k \div sectorSize
           r == k % sectorSize
<1>1. q \in Nat /\ r \in 0 .. sectorSize - 1 /\ q * sectorSize + r = k
  BY SMT
<1>2. q < sectors
  <2> SUFFICES ASSUME q >= sectors PROVE FALSE
    BY <1>1, SMT
  <2>1. q * sectorSize >= sectors * sectorSize
    BY <1>1, SMT
  <2> DEFINE a == q * sectorSize
             b == sectors * sectorSize
  <2>2. a \in Nat /\ b \in Nat
    BY <1>1, SMT
  <2> HIDE DEF a, b, q, r
  <2> QED BY <1>1, <2>1, <2>2, SMT DEF a, b
<1> QED BY <1>1, <1>2, SMT

\* A digit of an entry, and how two digits make a byte.
LEMMA Nibbles ==
  ASSUME NEW e \in Entry12Value
  PROVE  /\ Digit(e, 0) \in 0 .. 15 /\ Digit(e, 1) \in 0 .. 15 /\ Digit(e, 2) \in 0 .. 15
         /\ e = Digit(e, 0) + 16 * Digit(e, 1) + 256 * Digit(e, 2)
<1>1. Digit(e, 0) = e % 16 /\ Digit(e, 1) = (e \div 16) % 16 /\ Digit(e, 2) = (e \div 256) % 16
  BY DEF Digit
<1>2. e \in 0 .. 4095
  BY DEF Entry12Value
<1>3. /\ e % 16 \in 0 .. 15 /\ (e \div 16) % 16 \in 0 .. 15 /\ (e \div 256) % 16 \in 0 .. 15
      /\ e = (e % 16) + 16 * ((e \div 16) % 16) + 256 * ((e \div 256) % 16)
  <2>1. e % 16 \in 0 .. 15 /\ e \div 16 \in 0 .. 255 /\ e = 16 * (e \div 16) + (e % 16)
    BY <1>2, SMT
  <2>2. /\ (e \div 16) % 16 \in 0 .. 15 /\ (e \div 16) \div 16 \in 0 .. 15
        /\ e \div 16 = 16 * ((e \div 16) \div 16) + ((e \div 16) % 16)
    BY <2>1, SMT
  <2>3. e \div 256 = (e \div 16) \div 16
    BY <1>2, SMT
  <2>4. (e \div 256) % 16 = e \div 256
    BY <2>2, <2>3, SMT
  <2> QED BY <2>1, <2>2, <2>3, <2>4, SMT
<1> QED BY <1>1, <1>3

\* The two bytes at an even entry.
LEMMA EvenBytes ==
  ASSUME NEW c \in Nat, c % 2 = 0, NEW entries \in [Nat -> Entry12Value]
  PROVE  /\ c + c \div 2 \in Nat
         /\ Byte12(entries, c + c \div 2) = Digit(entries[c], 0) + 16 * Digit(entries[c], 1)
         /\ Byte12(entries, c + c \div 2 + 1) % 16 = Digit(entries[c], 2)
<1>1. PICK m \in Nat : c = 2 * m
  <2>1. c = 2 * (c \div 2) /\ c \div 2 \in Nat
    BY SMT
  <2> QED BY <2>1
<1>2. c \div 2 = m /\ c + c \div 2 = 3 * m
  BY <1>1, SMT
<1>3. /\ (2 * (3 * m)) \div 3 = c         /\ (2 * (3 * m)) % 3 = 0
      /\ (2 * (3 * m) + 1) \div 3 = c     /\ (2 * (3 * m) + 1) % 3 = 1
      /\ (2 * (3 * m + 1)) \div 3 = c     /\ (2 * (3 * m + 1)) % 3 = 2
      /\ (2 * (3 * m + 1) + 1) \div 3 = c + 1 /\ (2 * (3 * m + 1) + 1) % 3 = 0
  BY <1>1, SMT
<1>4. Byte12(entries, 3 * m) = Digit(entries[c], 0) + 16 * Digit(entries[c], 1)
  BY <1>3 DEF Byte12, Digit12
<1>5. Byte12(entries, 3 * m + 1) = Digit(entries[c], 2) + 16 * Digit(entries[c + 1], 0)
  BY <1>3 DEF Byte12, Digit12
<1>6. Digit(entries[c], 2) \in 0 .. 15 /\ Digit(entries[c + 1], 0) \in 0 .. 15
  <2>1. c + 1 \in Nat
    BY SMT
  <2>2. entries[c + 1] \in Entry12Value /\ entries[c] \in Entry12Value
    BY <2>1
  <2> QED BY <2>2, Nibbles
<1>7. (Digit(entries[c], 2) + 16 * Digit(entries[c + 1], 0)) % 16 = Digit(entries[c], 2)
  BY <1>6, SMT
<1> QED BY <1>1, <1>2, <1>4, <1>5, <1>7, SMT

\* The two bytes at an odd entry.
LEMMA OddBytes ==
  ASSUME NEW c \in Nat, c % 2 = 1, NEW entries \in [Nat -> Entry12Value]
  PROVE  /\ c + c \div 2 \in Nat
         /\ Byte12(entries, c + c \div 2) \div 16 = Digit(entries[c], 0)
         /\ Byte12(entries, c + c \div 2 + 1) = Digit(entries[c], 1) + 16 * Digit(entries[c], 2)
<1>1. PICK m \in Nat : c = 2 * m + 1
  <2>1. c = 2 * (c \div 2) + 1 /\ c \div 2 \in Nat
    BY SMT
  <2> QED BY <2>1
<1>2. c \div 2 = m /\ c + c \div 2 = 3 * m + 1
  BY <1>1, SMT
<1>3. /\ (2 * (3 * m + 1)) \div 3 = c - 1 /\ (2 * (3 * m + 1)) % 3 = 2
      /\ (2 * (3 * m + 1) + 1) \div 3 = c /\ (2 * (3 * m + 1) + 1) % 3 = 0
      /\ (2 * (3 * m + 2)) \div 3 = c     /\ (2 * (3 * m + 2)) % 3 = 1
      /\ (2 * (3 * m + 2) + 1) \div 3 = c /\ (2 * (3 * m + 2) + 1) % 3 = 2
  BY <1>1, SMT
<1>4. Byte12(entries, 3 * m + 1) = Digit(entries[c - 1], 2) + 16 * Digit(entries[c], 0)
  BY <1>3 DEF Byte12, Digit12
<1>5. Byte12(entries, 3 * m + 2) = Digit(entries[c], 1) + 16 * Digit(entries[c], 2)
  BY <1>3 DEF Byte12, Digit12
<1>6. Digit(entries[c - 1], 2) \in 0 .. 15 /\ Digit(entries[c], 0) \in 0 .. 15
  <2>1. c - 1 \in Nat
    BY <1>1, SMT
  <2>2. entries[c - 1] \in Entry12Value /\ entries[c] \in Entry12Value
    BY <2>1
  <2> QED BY <2>2, Nibbles
<1>7. (Digit(entries[c - 1], 2) + 16 * Digit(entries[c], 0)) \div 16 = Digit(entries[c], 0)
  BY <1>6, SMT
<1>8. c + c \div 2 + 1 = 3 * m + 2
  BY <1>2, SMT
<1> QED BY <1>1, <1>2, <1>4, <1>5, <1>7, <1>8, SMT

\* The byte at position k of a FAT12.
\* Quotient and remainder of a position one further on.
LEMMA PositionAfter ==
  ASSUME NEW sectorSize \in Nat, sectorSize > 0, NEW k \in Nat,
         NEW sector \in Nat, NEW offset \in 0 .. sectorSize - 1,
         k = sector * sectorSize + offset
  PROVE  IF offset = sectorSize - 1
         THEN (k + 1) \div sectorSize = sector + 1 /\ (k + 1) % sectorSize = 0
         ELSE (k + 1) \div sectorSize = sector /\ (k + 1) % sectorSize = offset + 1
<1>1. ASSUME NEW q \in Nat, NEW r \in 0 .. sectorSize - 1, NEW n \in Nat, n = q * sectorSize + r
      PROVE  n \div sectorSize = q /\ n % sectorSize = r
  BY <1>1, SMT
<1>2. CASE offset = sectorSize - 1
  <2>1. k + 1 = (sector + 1) * sectorSize + 0 /\ sector + 1 \in Nat /\ k + 1 \in Nat
    BY <1>2, SMT
  <2>2. 0 \in 0 .. sectorSize - 1
    BY SMT
  <2> QED BY <1>1, <1>2, <2>1, <2>2
<1>3. CASE offset # sectorSize - 1
  <2>1. offset + 1 \in 0 .. sectorSize - 1 /\ k + 1 \in Nat
    BY <1>3, SMT
  <2>2. k + 1 = sector * sectorSize + (offset + 1)
    BY SMT
  <2> QED BY <1>1, <1>3, <2>1, <2>2
<1> QED BY <1>2, <1>3

\* The byte at position k of a FAT12.
LEMMA ByteOfFat12 ==
  ASSUME NEW sectorSize \in Nat, sectorSize > 0, NEW sectors \in Nat,
         NEW k \in Nat, k < sectors * sectorSize, NEW entries
  PROVE  FatOf("FAT12", entries, sectorSize, sectors)[k \div sectorSize][k % sectorSize]
           = Byte12(entries, k)
<1> DEFINE s == k \div sectorSize
           o == k % sectorSize
<1>1. s \in 0 .. sectors - 1 /\ o \in 0 .. sectorSize - 1 /\ s * sectorSize + o = k
  BY SectorAndOffset
<1> HIDE DEF s, o
<1>2. FatOf("FAT12", entries, sectorSize, sectors)[s][o] = Byte12(entries, s * sectorSize + o)
  BY <1>1 DEF FatOf
<1> QED BY <1>1, <1>2 DEF s, o

\* What the code makes of the two bytes at an entry's position.
LEMMA TwoBytes ==
  ASSUME NEW c \in Nat, NEW entries \in [Nat -> Entry12Value], NEW low, NEW high,
         low = Byte12(entries, c + c \div 2), high = Byte12(entries, c + c \div 2 + 1)
  PROVE  (IF c % 2 = 1 THEN low \div 16 + 16 * high ELSE low + 256 * (high % 16)) = entries[c]
<1> DEFINE e == entries[c]
<1>1. e \in Entry12Value
  OBVIOUS
<1>2. /\ Digit(e, 0) \in 0 .. 15 /\ Digit(e, 1) \in 0 .. 15 /\ Digit(e, 2) \in 0 .. 15
      /\ e = Digit(e, 0) + 16 * Digit(e, 1) + 256 * Digit(e, 2)
  BY <1>1, Nibbles
<1>3. CASE c % 2 = 1
  <2>1. low \div 16 = Digit(e, 0) /\ high = Digit(e, 1) + 16 * Digit(e, 2)
    BY <1>3, OddBytes
  <2>2. Digit(e, 0) + 16 * (Digit(e, 1) + 16 * Digit(e, 2)) = e
    BY <1>2, SMT
  <2> QED BY <1>3, <2>1, <2>2
<1>4. CASE c % 2 # 1
  <2>1. c % 2 = 0
    BY <1>4, SMT
  <2>2. low = Digit(e, 0) + 16 * Digit(e, 1) /\ high % 16 = Digit(e, 2)
    BY <2>1, EvenBytes
  <2>3. (Digit(e, 0) + 16 * Digit(e, 1)) + 256 * Digit(e, 2) = e
    BY <1>2, SMT
  <2> QED BY <1>4, <2>2, <2>3
<1> QED BY <1>3, <1>4

\* Reading entry c of a FAT12 gives what was written there, also when its two
\* bytes lie in two sectors (fat.c:208 to 235).
THEOREM Fat12EntryRead ==
  ASSUME NEW sectorSize \in Nat, sectorSize > 0, NEW sectors \in Nat, NEW c \in Nat,
         NEW entries \in [Nat -> Entry12Value],
         c + c \div 2 + 1 < sectors * sectorSize
  PROVE  FatEntry("FAT12", FatOf("FAT12", entries, sectorSize, sectors), sectorSize, c)
           = entries[c]
<1> DEFINE fat    == FatOf("FAT12", entries, sectorSize, sectors)
           idx    == c + c \div 2
           total  == sectors * sectorSize
           sector == idx \div sectorSize
           offset == idx % sectorSize
           low    == fat[sector][offset]
           high   == IF offset = sectorSize - 1 THEN fat[sector + 1][0]
                     ELSE fat[sector][offset + 1]
<1>1. idx \in Nat /\ idx + 1 \in Nat /\ idx < total /\ idx + 1 < total
  <2>1. idx \in Nat /\ total \in Nat
    BY SMT
  <2>2. idx + 1 < total
    OBVIOUS
  <2> HIDE DEF idx, total
  <2> QED BY <2>1, <2>2, SMT
<1>2. sector \in 0 .. sectors - 1 /\ offset \in 0 .. sectorSize - 1
      /\ sector * sectorSize + offset = idx
  <2> HIDE DEF idx
  <2> QED BY <1>1, SectorAndOffset
<1>3. low = Byte12(entries, idx)
  <2> HIDE DEF sector, offset, idx
  <2>1. fat[sector][offset] = Byte12(entries, sector * sectorSize + offset)
    BY <1>2 DEF FatOf
  <2> HIDE DEF fat
  <2> QED BY <1>2, <2>1
<1>4. high = Byte12(entries, idx + 1)
  <2> HIDE DEF idx
  <2>1. fat[(idx + 1) \div sectorSize][(idx + 1) % sectorSize] = Byte12(entries, idx + 1)
    BY <1>1, ByteOfFat12
  <2>2. sector \in Nat
    BY <1>2, SMT
  <2> HIDE DEF sector, offset, fat
  <2>3. IF offset = sectorSize - 1
        THEN (idx + 1) \div sectorSize = sector + 1 /\ (idx + 1) % sectorSize = 0
        ELSE (idx + 1) \div sectorSize = sector /\ (idx + 1) % sectorSize = offset + 1
    BY <1>1, <1>2, <2>2, PositionAfter
  <2> QED BY <2>1, <2>3
<1>5. Entry12(fat, sectorSize, c) = IF c % 2 = 1 THEN low \div 16 + 16 * high
                                    ELSE low + 256 * (high % 16)
  BY DEF Entry12
<1> HIDE DEF low, high, fat
<1>6. Entry12(fat, sectorSize, c) = entries[c]
  BY <1>3, <1>4, <1>5, TwoBytes, SMTT(30)
<1> QED BY <1>6 DEF FatEntry, fat
-----------------------------------------------------------------------------
\* FAT16 and FAT32: entries fill sectors exactly, so an entry lies in one.

Entry16Value == {e \in Nat : e < 65536}
Entry32Value == {e \in Nat : e < 4294967296}

\* Where the bytes of entry c are, n bytes to an entry and count entries to a
\* sector: byte j of it is at place n * (c % count) + j of its sector.
LEMMA EntryInSector ==
  ASSUME NEW n \in {2, 4}, NEW count \in Nat, count > 0, NEW sectors \in Nat,
         NEW c \in Nat, c < sectors * count, NEW j \in 0 .. n - 1
  PROVE  /\ (n * count) \div n = count
         /\ c \div count \in 0 .. sectors - 1
         /\ n * (c % count) + j \in 0 .. (n * count) - 1
         /\ (c \div count) * (n * count) + (n * (c % count) + j) = n * c + j
<1> DEFINE q == c \div count
           r == c % count
<1>1. q \in 0 .. sectors - 1 /\ r \in 0 .. count - 1 /\ q * count + r = c
  BY SectorAndOffset
<1> HIDE DEF q, r
<1>2. q \in Nat /\ r \in Nat /\ r + 1 <= count
  BY <1>1, SMT
<1> DEFINE p == q * count
<1>3. p \in Nat /\ p + r = c
  BY <1>1, <1>2, SMT
<1>4. CASE n = 2
  <2>1. q * (2 * count) = 2 * p
    BY <1>2, SMT
  <2>2. (2 * count) \div 2 = count
    BY SMT
  <2>3. 2 * r + j \in 0 .. (2 * count) - 1
    BY <1>2, <1>4, SMT
  <2> HIDE DEF p
  <2>4. 2 * p + (2 * r + j) = 2 * c + j
    BY <1>2, <1>3, <1>4, SMT
  <2> QED BY <1>1, <1>4, <2>1, <2>2, <2>3, <2>4 DEF q, r
<1>5. CASE n = 4
  <2>1. q * (4 * count) = 4 * p
    BY <1>2, SMT
  <2>2. (4 * count) \div 4 = count
    BY SMT
  <2>3. 4 * r + j \in 0 .. (4 * count) - 1
    BY <1>2, <1>5, SMT
  <2> HIDE DEF p
  <2>4. 4 * p + (4 * r + j) = 4 * c + j
    BY <1>2, <1>3, <1>5, SMT
  <2> QED BY <1>1, <1>5, <2>1, <2>2, <2>3, <2>4 DEF q, r
<1> QED BY <1>4, <1>5

\* Reading entry c of a FAT16 gives what was written there (fat.c:249 to 257).
THEOREM Fat16EntryRead ==
  ASSUME NEW count \in Nat, count > 0, NEW sectors \in Nat, NEW c \in Nat,
         NEW entries \in [Nat -> Entry16Value], c < sectors * count
  PROVE  FatEntry("FAT16", FatOf("FAT16", entries, 2 * count, sectors), 2 * count, c)
           = entries[c]
<1> DEFINE fat    == FatOf("FAT16", entries, 2 * count, sectors)
           sector == c \div count
           offset == 2 * (c % count)
<1>1. ASSUME NEW j \in {0, 1} PROVE fat[sector][offset + j] = Byte16(entries, 2 * c + j)
  <2>1. /\ sector \in 0 .. sectors - 1 /\ offset + j \in 0 .. (2 * count) - 1
        /\ sector * (2 * count) + (offset + j) = 2 * c + j
    <3>1. j \in 0 .. 2 - 1
      BY SMT
    <3> QED BY <3>1, EntryInSector
  <2> HIDE DEF sector, offset
  <2>2. fat[sector][offset + j] = Byte16(entries, sector * (2 * count) + (offset + j))
    BY <2>1 DEF FatOf
  <2> QED BY <2>1, <2>2
<1>2. offset + 0 = offset /\ 2 * c + 0 = 2 * c
  <2>1. c % count \in Nat
    BY SMT
  <2> QED BY <2>1, SMT
<1>3. Entry16(fat, 2 * count, c) = fat[sector][offset] + 256 * fat[sector][offset + 1]
  <2>1. (2 * count) \div 2 = count
    BY SMT
  <2> QED BY <2>1 DEF Entry16
<1>4. fat[sector][offset] = Byte16(entries, 2 * c) /\ fat[sector][offset + 1] = Byte16(entries, 2 * c + 1)
  BY <1>1, <1>2
<1>5. Byte16(entries, 2 * c) = entries[c] % 256 /\ Byte16(entries, 2 * c + 1) = entries[c] \div 256
  <2>1. /\ (2 * c) % 2 = 0 /\ (2 * c + 1) % 2 # 0
        /\ (2 * c) \div 2 = c /\ (2 * c + 1) \div 2 = c
    BY SMT
  <2> QED BY <2>1 DEF Byte16
<1>6. entries[c] = (entries[c] % 256) + 256 * (entries[c] \div 256)
  <2>1. entries[c] \in Nat
    BY DEF Entry16Value
  <2> QED BY <2>1, SMT
<1>7. Entry16(fat, 2 * count, c) = entries[c]
  BY <1>3, <1>4, <1>5, <1>6
<1> HIDE DEF fat
<1> QED BY <1>7 DEF FatEntry, fat

\* Four bytes make the number they were taken from.
LEMMA FourBytes ==
  ASSUME NEW e \in Entry32Value
  PROVE  e = (e % 256) + 256 * ((e \div 256) % 256) + 65536 * ((e \div 65536) % 256)
               + 16777216 * (e \div 16777216)
<1>1. e \in Nat
  BY DEF Entry32Value
<1> DEFINE a == e \div 256
           b == a \div 256
<1>2. a \in Nat /\ e = 256 * a + (e % 256) /\ e % 256 \in Nat
  BY <1>1, SMT
<1>3. b \in Nat /\ a = 256 * b + (a % 256) /\ a % 256 \in Nat
  BY <1>2, SMT
<1>4. b \div 256 \in Nat /\ b = 256 * (b \div 256) + (b % 256) /\ b % 256 \in Nat
  BY <1>3, SMT
<1>5. e \div 256 = a /\ e \div 65536 = b /\ e \div 16777216 = b \div 256
  BY <1>1, SMT
<1> HIDE DEF a, b
<1>6. e = (e % 256) + 256 * (a % 256) + 65536 * (b % 256) + 16777216 * (b \div 256)
  BY <1>1, <1>2, <1>3, <1>4, SMT
<1> QED BY <1>5, <1>6, SMT

\* Reading entry c of a FAT32 gives all 32 bits written there (fat.c:268 to 276).
THEOREM Fat32EntryRead ==
  ASSUME NEW count \in Nat, count > 0, NEW sectors \in Nat, NEW c \in Nat,
         NEW entries \in [Nat -> Entry32Value], c < sectors * count
  PROVE  FatEntry("FAT32", FatOf("FAT32", entries, 4 * count, sectors), 4 * count, c)
           = entries[c]
<1> DEFINE fat    == FatOf("FAT32", entries, 4 * count, sectors)
           sector == c \div count
           offset == 4 * (c % count)
           e      == entries[c]
<1>1. ASSUME NEW j \in {0, 1, 2, 3} PROVE fat[sector][offset + j] = Byte32(entries, 4 * c + j)
  <2>1. /\ sector \in 0 .. sectors - 1 /\ offset + j \in 0 .. (4 * count) - 1
        /\ sector * (4 * count) + (offset + j) = 4 * c + j
    <3>1. j \in 0 .. 4 - 1
      BY SMT
    <3> QED BY <3>1, EntryInSector
  <2> HIDE DEF sector, offset
  <2>2. fat[sector][offset + j] = Byte32(entries, sector * (4 * count) + (offset + j))
    BY <2>1 DEF FatOf
  <2> QED BY <2>1, <2>2
<1>2. offset + 0 = offset /\ 4 * c + 0 = 4 * c
  <2>1. c % count \in Nat
    BY SMT
  <2> QED BY <2>1, SMT
<1>3. Entry32(fat, 4 * count, c)
        = fat[sector][offset] + 256 * fat[sector][offset + 1]
            + 65536 * fat[sector][offset + 2] + 16777216 * fat[sector][offset + 3]
  <2>1. (4 * count) \div 4 = count
    BY SMT
  <2> QED BY <2>1 DEF Entry32
<1>4. /\ fat[sector][offset] = Byte32(entries, 4 * c)
      /\ fat[sector][offset + 1] = Byte32(entries, 4 * c + 1)
      /\ fat[sector][offset + 2] = Byte32(entries, 4 * c + 2)
      /\ fat[sector][offset + 3] = Byte32(entries, 4 * c + 3)
  BY <1>1, <1>2
<1>5. /\ Byte32(entries, 4 * c) = e % 256
      /\ Byte32(entries, 4 * c + 1) = (e \div 256) % 256
      /\ Byte32(entries, 4 * c + 2) = (e \div 65536) % 256
      /\ Byte32(entries, 4 * c + 3) = e \div 16777216
  <2>1. /\ (4 * c) % 4 = 0 /\ (4 * c) \div 4 = c
        /\ (4 * c + 1) % 4 = 1 /\ (4 * c + 1) \div 4 = c
        /\ (4 * c + 2) % 4 = 2 /\ (4 * c + 2) \div 4 = c
        /\ (4 * c + 3) % 4 = 3 /\ (4 * c + 3) \div 4 = c
    BY SMT
  <2> QED BY <2>1 DEF Byte32
<1>6. e = (e % 256) + 256 * ((e \div 256) % 256) + 65536 * ((e \div 65536) % 256)
            + 16777216 * (e \div 16777216)
  BY FourBytes
<1>7. Entry32(fat, 4 * count, c) = e
  BY <1>3, <1>4, <1>5, <1>6, SMT
<1> HIDE DEF fat
<1> QED BY <1>7 DEF FatEntry, fat
-----------------------------------------------------------------------------
\* Induction.

Less == {p \in Nat \X Nat : p[1] < p[2]}

\* The numbers are well-founded.
LEMMA LessWellFounded == IsWellFoundedOn(Less, Nat)
<1>1. OpToRel(<, Nat) = Less
  BY DEF OpToRel, Less
<1> QED BY <1>1, NatLessThanWellFounded

\* A set of numbers has a smallest one.
LEMMA LeastNumber ==
  ASSUME NEW T \in SUBSET Nat, T # {}
  PROVE  \E x \in T : \A y \in T : x <= y
<1>1. PICK x \in T : \A y \in T : ~ (<<y, x>> \in Less)
  BY LessWellFounded, WFMin
<1>2. \A y \in T : ~(y < x)
  BY <1>1 DEF Less
<1> QED BY <1>1, <1>2

\* Induction, over a set instead of a predicate.
LEMMA SetInduction ==
  ASSUME NEW T \in SUBSET Nat, 0 \in T, \A n \in T : n + 1 \in T
  PROVE  T = Nat
<1> SUFFICES ASSUME Nat \ T # {} PROVE FALSE
  OBVIOUS
<1>1. PICK x \in Nat \ T : \A y \in Nat \ T : x <= y
  BY LeastNumber
<1>2. x # 0 /\ x - 1 \in Nat /\ x - 1 \in T
  BY <1>1
<1>3. (x - 1) + 1 \in T
  BY <1>2
<1> QED BY <1>1, <1>2, <1>3

-----------------------------------------------------------------------------
\* After num hops the walk is at the cluster num further down the chain, when the
\* table leads from each to the next and none is too large (fat.c:193-282).
THEOREM WalkFollows ==
  ASSUME NEW type, NEW table, NEW chain \in Seq(Nat), NEW num \in Nat, num < Len(chain),
         \A k \in 1 .. num : /\ chain[k] <= MaxCluster(type)
                             /\ table[chain[k]] = chain[k + 1]
                             /\ chain[k + 1] <= MaxEntry(type),
         MaxCluster(type) \in Nat, MaxEntry(type) \in Nat
  PROVE  GetNextCluster(type, table, chain[1], num) = [ret |-> 0, cluster |-> chain[num + 1]]
<1> DEFINE Turn(f, n) == IF n = 0 THEN [ret |-> 0, cluster |-> chain[1]]
                         ELSE IF f[n - 1].ret = 1 THEN f[n - 1]
                         ELSE Hop(type, table, f[n - 1].cluster)
           g == [n \in 0 .. num |-> [ret |-> 0, cluster |-> chain[n + 1]]]
           Solves(f) == f = [n \in 0 .. num |-> Turn(f, n)]
           walk == CHOOSE f : Solves(f)
<1>1. \A k \in 1 .. num : Hop(type, table, chain[k]) = [ret |-> 0, cluster |-> chain[k + 1]]
  <2> SUFFICES ASSUME NEW k \in 1 .. num
               PROVE Hop(type, table, chain[k]) = [ret |-> 0, cluster |-> chain[k + 1]]
    OBVIOUS
  <2>1. chain[k] \in Nat /\ chain[k + 1] \in Nat
    BY SMTT(30)
  <2>2. /\ chain[k] <= MaxCluster(type) /\ table[chain[k]] = chain[k + 1]
        /\ chain[k + 1] <= MaxEntry(type)
    OBVIOUS
  <2>3. ~(chain[k] > MaxCluster(type)) /\ ~(chain[k + 1] > MaxEntry(type))
    BY <2>1, <2>2, SMTT(30)
  <2> QED BY <2>2, <2>3 DEF Hop
<1>2. Solves(g)
  <2>1. \A n \in 0 .. num : g[n] = Turn(g, n)
    <3> SUFFICES ASSUME NEW n \in 0 .. num PROVE g[n] = Turn(g, n)
      OBVIOUS
    <3>1. CASE n = 0
      BY <3>1
    <3>2. CASE n # 0
      <4>1. n - 1 \in 0 .. num /\ n \in 1 .. num /\ (n - 1) + 1 = n
        BY <3>2
      <4>2. g[n - 1] = [ret |-> 0, cluster |-> chain[n]]
        BY <4>1
      <4>3. Turn(g, n) = Hop(type, table, chain[n])
        BY <4>2, <3>2
      <4> QED BY <4>1, <4>3, <1>1
    <3> QED BY <3>1, <3>2
  <2> QED BY <2>1
<1>3. Solves(walk)
  BY <1>2, Zenon
<1> HIDE DEF walk
<1> DEFINE T == {n \in Nat : n <= num => walk[n] = g[n]}
<1>4. 0 \in T
  BY <1>3
<1>5. ASSUME NEW n \in T PROVE n + 1 \in T
  <2> DEFINE m == n + 1
  <2>1. n \in Nat /\ m \in Nat /\ m - 1 = n
    OBVIOUS
  <2> SUFFICES ASSUME m <= num PROVE walk[m] = g[m]
    BY <2>1
  <2>2. n \in 0 .. num /\ m \in 1 .. num /\ m \in 0 .. num /\ m # 0
    BY <2>1, SMTT(30)
  <2>3. walk[n] = [ret |-> 0, cluster |-> chain[m]]
    BY <2>2
  <2>4. walk[m] = Turn(walk, m)
    BY <2>2, <1>3
  <2>5. g[m] = [ret |-> 0, cluster |-> chain[m + 1]]
    BY <2>2
  <2> HIDE DEF m, g, T
  <2>6. Turn(walk, m) = Hop(type, table, chain[m])
    BY <2>1, <2>2, <2>3, SMTT(30)
  <2> QED BY <1>1, <2>2, <2>4, <2>5, <2>6
<1>6. T = Nat
  <2> HIDE DEF T
  <2>1. T \in SUBSET Nat
    BY DEF T
  <2> QED BY <1>4, <1>5, <2>1, SetInduction
<1>7. num \in T
  BY <1>6
<1>8. walk[num] = g[num]
  BY <1>7
<1>9. GetNextCluster(type, table, chain[1], num) = walk[num]
  BY DEF GetNextCluster, walk
<1> QED BY <1>8, <1>9
=============================================================================
