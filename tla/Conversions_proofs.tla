------------------------ MODULE Conversions_proofs ------------------------
(***************************************************************************)
(* Theorems about the conversions.  Whatever volume a formatter made,      *)
(* mount finds its type, its clusters lie inside it and their entries      *)
(* inside the FAT.  Every label and string is trimmed of the spaces behind *)
(* it and ended.  A short name is found under the names that differ from   *)
(* it in case only, for all the names whose bytes a codepage folds as they *)
(* should be; a long name is kept, and ended exactly when its buffer has   *)
(* room; the name and the dates of a directory record are read as they     *)
(* were written, whatever extensions it has room for.  The stamps of files *)
(* and the dates of volumes are converted to times that sort as they do.   *)
(* Differences of times are exact for every number of nanoseconds in a     *)
(* second and every width of nsec that holds four of them.  Other theorems *)
(* carry all of it to what the conversion run checks on small inputs.      *)
(*                                                                         *)
(* What loops and recursive functions compute is got from StepByStep and   *)
(* StepByStepDown: the values they go through exist, and what holds at the *)
(* first and from one to the next holds at the last.                       *)
(***************************************************************************)
EXTENDS Conversions, FatChain_proofs, FiniteSetTheorems, SequenceTheorems, TLAPS

-----------------------------------------------------------------------------
\* The geometry of a volume.

\* A multiple and what is left of it.
LEMMA DivOfMultiple ==
  ASSUME NEW n \in Nat, NEW d \in Nat \ {0}, NEW k \in 0 .. d - 1
  PROVE  ((n * d) + k) \div d = n
<1> DEFINE x == (n * d) + k
           q == x \div d
<1>1. n * d \in Nat
  BY SMT
<1>2. x \in Nat
  BY <1>1, SMT
<1>3. q \in Int /\ q * d <= x /\ x < (q + 1) * d
  BY <1>2, SMT
<1> HIDE DEF q
<1>4. (q + 1) * d = (q * d) + d /\ (n + 1) * d = (n * d) + d
  BY <1>3, SMT
<1>5. q < n + 1
  <2> SUFFICES ASSUME q >= n + 1 PROVE FALSE
    BY <1>3, SMT
  <2>1. q * d >= (n + 1) * d
    BY <1>3, SMT
  <2> QED BY <1>1, <1>3, <1>4, <2>1, SMT
<1>6. n < q + 1
  <2> SUFFICES ASSUME n >= q + 1 PROVE FALSE
    BY <1>3, SMT
  <2>1. n * d >= (q + 1) * d
    BY <1>3, SMT
  <2> QED BY <1>1, <1>3, <1>4, <2>1, SMT
<1>7. q = n
  BY <1>3, <1>5, <1>6, SMT
<1> QED BY <1>7 DEF q

\* A division that rounds up leaves nothing over.
LEMMA CeilDivCovers ==
  ASSUME NEW n \in Nat, NEW d \in Nat \ {0}
  PROVE  CeilDiv(n, d) \in Nat /\ CeilDiv(n, d) * d >= n
<1> DEFINE q == (n + d - 1) \div d
<1>1. q \in Nat /\ (n + d - 1) < (q + 1) * d
  BY SMT
<1> HIDE DEF q
<1>2. (q + 1) * d = (q * d) + d /\ q * d \in Nat
  BY <1>1, SMT
<1>3. q * d >= n
  BY <1>1, <1>2, SMT
<1> QED BY <1>1, <1>3 DEF CeilDiv, q

\* What is below the width is not changed by it.
LEMMA Unwrapped ==
  ASSUME NEW w \in Nat, NEW n \in 0 .. w - 1
  PROVE  n % w = n
  BY SMT

\* What mount tells from the number of clusters.
LEMMA TypeTold ==
  ASSUME NEW type, NEW n, MayHave(type, n)
  PROVE  /\ n \in Nat \ {0} /\ type \in FatType
         /\ TypeOf(n) = type /\ Bits(type) \in Nat \ {0}
<1>1. CASE type = "FAT12" /\ n \in Nat \ {0} /\ n <= 4084
  BY <1>1, SMT DEF TypeOf, Bits, FatType
<1>2. CASE type = "FAT16" /\ n \in Nat /\ n >= 4085 /\ n <= 65524
  BY <1>2, SMT DEF TypeOf, Bits, FatType
<1>3. CASE type = "FAT32" /\ n \in Nat /\ n >= 65525
  BY <1>3, SMT DEF TypeOf, Bits, FatType
<1> QED BY <1>1, <1>2, <1>3, SMT DEF MayHave

\* The sizes of the parts of a formatted volume.
LEMMA PartSizes ==
  ASSUME NEW f, IsVolume(f)
  PROVE  /\ MadeFatSize(f) \in Nat /\ CeilDiv(f.rootEntries * 32, f.bytesPerSector) \in Nat
         /\ f.fatCount * MadeFatSize(f) \in Nat
         /\ f.clusters \in Nat \ {0} /\ f.clusters * f.sectorsPerCluster \in Nat
         /\ f.type \in FatType /\ f.spare \in Nat /\ MadeSectors(f) \in Nat
         /\ MadeFatSize(f) * (8 * f.bytesPerSector) >= (f.clusters + 2) * Bits(f.type)
<1> USE DEF IsVolume
<1>1. MayHave(f.type, f.clusters)
  OBVIOUS
<1>2. f.clusters \in Nat \ {0} /\ Bits(f.type) \in Nat \ {0} /\ f.type \in FatType
  BY <1>1, TypeTold
<1>3. (f.clusters + 2) * Bits(f.type) \in Nat /\ 8 * f.bytesPerSector \in Nat \ {0}
      /\ f.rootEntries * 32 \in Nat
  BY <1>2, SMT
<1>4. /\ MadeFatSize(f) \in Nat
      /\ MadeFatSize(f) * (8 * f.bytesPerSector) >= (f.clusters + 2) * Bits(f.type)
  BY <1>3, CeilDivCovers DEF MadeFatSize
<1>5. CeilDiv(f.rootEntries * 32, f.bytesPerSector) \in Nat
  BY <1>3, CeilDivCovers
<1>6. f.fatCount * MadeFatSize(f) \in Nat /\ f.clusters * f.sectorsPerCluster \in Nat
  BY <1>2, <1>4, SMT
<1>7. f.spare \in Nat
  BY SMT
<1>8. MadeSectors(f) \in Nat
  BY <1>5, <1>6, <1>7, SMT DEF MadeSectors
<1> QED BY <1>2, <1>4, <1>5, <1>6, <1>7, <1>8

\* mount finds the geometry the formatter chose.
LEMMA MountFinds ==
  ASSUME NEW f, IsVolume(f)
  PROVE  /\ Mounted(Made(f)).fatType = f.type
         /\ Mounted(Made(f)).sectorsPerCluster = f.sectorsPerCluster
         /\ FirstSector(Mounted(Made(f)))
              = f.reserved + (f.fatCount * MadeFatSize(f)) + RootSectors(Made(f))
         /\ RootSectors(Made(f)) = CeilDiv(f.rootEntries * 32, f.bytesPerSector)
<1> DEFINE bpb   == Made(f)
           root  == CeilDiv(f.rootEntries * 32, f.bytesPerSector)
           begin == f.reserved + (f.fatCount * MadeFatSize(f))
           area  == (f.clusters * f.sectorsPerCluster) + f.spare
<1>1. f.reserved \in Nat /\ f.sectorsPerCluster \in Nat \ {0} /\ f.clusters \in Nat
      /\ f.spare \in 0 .. f.sectorsPerCluster - 1
  BY PartSizes DEF IsVolume
<1>2. root \in Nat /\ begin \in Nat /\ area \in Nat
  BY <1>1, PartSizes, SMT
<1>3. /\ RootSectors(bpb) = root /\ bpb.reserved = f.reserved /\ bpb.fatCount = f.fatCount
      /\ bpb.sectorsPerCluster = f.sectorsPerCluster
  BY DEF Made, RootSectors
<1>4. FatSize(bpb) = MadeFatSize(f)
  BY DEF Made, FatSize
<1>5. TotalSectors(bpb) = MadeSectors(f)
  BY DEF Made, TotalSectors
<1>6. MadeSectors(f) - (begin + root) = area
  BY <1>1, <1>2, PartSizes, SMT DEF MadeSectors
<1>7. area \in 0 .. Word32 - 1
  BY <1>1, <1>2, <1>6, PartSizes, GeometryAssumption, SMT DEF IsVolume
<1>8. area % Word32 = area
  BY <1>7, Unwrapped, GeometryAssumption
<1>9. area \div f.sectorsPerCluster = f.clusters
  BY <1>1, DivOfMultiple
<1>10. TypeOf(f.clusters) = f.type
  BY TypeTold DEF IsVolume
<1> HIDE DEF root, begin, area, bpb
<1>11. /\ Mounted(bpb).fatType = f.type /\ Mounted(bpb).sectorsPerCluster = f.sectorsPerCluster
       /\ Mounted(bpb).dataAreaBegin = begin /\ Mounted(bpb).rootSectorCount = root
  BY <1>3, <1>4, <1>5, <1>6, <1>8, <1>9, <1>10 DEF Mounted, begin
<1>12. f.type = "FAT32" => root = 0
  <2> SUFFICES ASSUME f.type = "FAT32" PROVE root = 0
    OBVIOUS
  <2>1. f.rootEntries = 0 /\ f.bytesPerSector \in Nat \ {0}
    BY DEF IsVolume
  <2>2. (f.bytesPerSector - 1) \div f.bytesPerSector = 0
    <3>1. ((0 * f.bytesPerSector) + (f.bytesPerSector - 1)) \div f.bytesPerSector = 0
      BY <2>1, DivOfMultiple, SMT
    <3> QED BY <2>1, <3>1, SMT
  <2> QED BY <2>1, <2>2, SMT DEF root, CeilDiv
<1>13. FirstSector(Mounted(bpb)) = begin + root
  BY <1>2, <1>11, <1>12, SMT DEF FirstSector
<1> QED BY <1>3, <1>11, <1>13 DEF bpb, begin, root

\* The clusters of every formatted volume lie inside it, one after the other, and
\* every sector of one is led back to it (fat.c:149-191).
THEOREM EveryClusterInVolume == \A f : ClustersFit(f)
<1> SUFFICES ASSUME NEW f, IsVolume(f)
             PROVE  ClustersFit(f)
  BY DEF ClustersFit
<1> DEFINE v     == Mounted(Made(f))
           first == FirstSector(v)
           spc   == f.sectorsPerCluster
<1>1. spc \in Nat \ {0} /\ f.clusters \in Nat /\ f.spare \in Nat /\ v.sectorsPerCluster = spc
  BY PartSizes, MountFinds DEF IsVolume
<1>2. first = f.reserved + (f.fatCount * MadeFatSize(f)) + RootSectors(Made(f))
  BY MountFinds
<1>3. first \in Nat /\ first + (f.clusters * spc) + f.spare = MadeSectors(f)
  BY <1>1, <1>2, MountFinds, PartSizes, SMT DEF MadeSectors, IsVolume
<1>4. MadeSectors(f) < Word32
  BY DEF IsVolume
<1> HIDE DEF first, v, spc
<1>5. ASSUME NEW n \in 0 .. f.clusters
      PROVE  /\ ClusterToSector(v, n + 2) = (n * spc) + first
             /\ n * spc \in Nat
             /\ n < f.clusters => (n * spc) + spc <= f.clusters * spc
  <2>1. n * spc \in Nat /\ n * spc <= f.clusters * spc
    BY <1>1, SMT
  <2>2. (n * spc) + first \in 0 .. Word32 - 1
    BY <1>1, <1>3, <1>4, <2>1, GeometryAssumption, SMT
  <2>3. (n + 2) - 2 = n
    BY SMT
  <2>4. ClusterToSector(v, n + 2) = (n * spc) + first
    BY <1>1, <2>2, <2>3, Unwrapped, GeometryAssumption DEF ClusterToSector, first
  <2>5. n < f.clusters => (n * spc) + spc <= f.clusters * spc
    <3> SUFFICES ASSUME n + 1 <= f.clusters PROVE (n * spc) + spc <= f.clusters * spc
      BY <1>1, SMT
    <3>1. (n + 1) * spc <= f.clusters * spc
      BY <1>1, SMT
    <3>2. (n + 1) * spc = (n * spc) + spc
      BY <1>1, SMT
    <3> QED BY <3>1, <3>2
  <2> QED BY <2>1, <2>4, <2>5
<1>6. ClusterToSector(v, 2) = first
  <2>1. ClusterToSector(v, 0 + 2) = (0 * spc) + first
    BY <1>1, <1>5, SMT
  <2> QED BY <1>1, <1>3, <2>1, SMT
<1>7. ASSUME NEW c \in 2 .. f.clusters + 1
      PROVE  /\ ClusterToSector(v, c + 1) = ClusterToSector(v, c) + spc
             /\ ClusterToSector(v, c) + spc <= MadeSectors(f)
             /\ \A k \in 0 .. spc - 1 :
                  SectorToCluster(v, ClusterToSector(v, c) + k) = c
  <2> DEFINE n == c - 2
  <2>1. n \in 0 .. f.clusters - 1 /\ c = n + 2 /\ c + 1 = (n + 1) + 2 /\ n + 1 \in 0 .. f.clusters
        /\ n \in 0 .. f.clusters /\ n < f.clusters
    BY <1>1, SMT
  <2> HIDE DEF n
  <2>2. ClusterToSector(v, c) = (n * spc) + first /\ n * spc \in Nat
        /\ (n * spc) + spc <= f.clusters * spc
    BY <1>5, <2>1
  <2>3. ClusterToSector(v, c + 1) = ((n + 1) * spc) + first
    BY <1>5, <2>1
  <2>4. (n + 1) * spc = (n * spc) + spc
    BY <1>1, <2>1, SMT
  <2>5. ClusterToSector(v, c + 1) = ClusterToSector(v, c) + spc
    BY <1>1, <1>3, <2>2, <2>3, <2>4, SMT
  <2>6. f.clusters * spc \in Nat
    BY <1>1, SMT
  <2>7. ClusterToSector(v, c) + spc <= MadeSectors(f)
    BY <1>1, <1>3, <2>2, <2>6, SMT
  <2>8. ASSUME NEW k \in 0 .. spc - 1
        PROVE  SectorToCluster(v, ClusterToSector(v, c) + k) = c
    <3> DEFINE lba == ClusterToSector(v, c) + k
    <3>1. lba - first = (n * spc) + k
      BY <1>1, <1>3, <2>2, SMT
    <3>2. (n * spc) + k \in 0 .. LbaWord - 1
      BY <1>1, <1>3, <1>4, <2>2, <2>6, GeometryAssumption, SMT
    <3>3. ((n * spc) + k) \div spc = n
      BY <1>1, <2>1, DivOfMultiple
    <3>4. (lba - first) % LbaWord = (n * spc) + k
      BY <3>1, <3>2, Unwrapped, GeometryAssumption
    <3>5. n + 2 \in 0 .. Word32 - 1
      <4>1. f.clusters <= f.clusters * spc
        BY <1>1, SMT
      <4>2. f.reserved \in Nat /\ f.reserved >= 1
        BY SMT DEF IsVolume
      <4>3. first >= 1
        BY <1>2, <4>2, PartSizes, MountFinds, SMT
      <4>4. n + 2 <= f.clusters + 1 /\ n + 2 >= 0
        BY <1>1, <2>1, SMT
      <4> HIDE DEF n
      <4>5. f.clusters + 1 <= MadeSectors(f)
        BY <1>1, <1>3, <2>6, <4>1, <4>3, SMT
      <4> QED BY <1>1, <1>3, <1>4, <2>1, <4>4, <4>5, PartSizes, GeometryAssumption, SMT
    <3>6. SectorToCluster(v, lba) = (n + 2) % Word32
      BY <1>1, <3>3, <3>4 DEF SectorToCluster, first
    <3> QED BY <2>1, <3>5, <3>6, Unwrapped, GeometryAssumption
  <2> QED BY <2>5, <2>7, <2>8
<1> QED BY <1>1, <1>2, <1>6, <1>7 DEF ClustersFit, v, spc

\* No walk along a chain leaves the first FAT, whatever the volume
\* (fat.c:209-258).
THEOREM EveryEntryInFat == \A f : EntriesFit(f)
<1> SUFFICES ASSUME NEW f, IsVolume(f),
                    NEW c \in 2 .. f.clusters + 1,
                    NEW b \in EntryBytes(Mounted(Made(f)), c)
             PROVE  /\ b < MadeFatSize(f) * f.bytesPerSector
                    /\ 8 * b \in c * Bits(f.type) - 7 .. (c + 1) * Bits(f.type) - 1
  BY DEF EntriesFit
<1> DEFINE v    == Mounted(Made(f))
           room == MadeFatSize(f) * f.bytesPerSector
<1>1. v.fatType = f.type
  BY MountFinds
<1>2. f.clusters \in Nat /\ MadeFatSize(f) \in Nat /\ f.bytesPerSector \in Nat
      /\ MadeFatSize(f) * (8 * f.bytesPerSector) >= (f.clusters + 2) * Bits(f.type)
  BY PartSizes DEF IsVolume
<1>3. room \in Nat /\ MadeFatSize(f) * (8 * f.bytesPerSector) = 8 * room
  BY <1>2, SMT
<1> HIDE DEF room, v
<1>4. 8 * room >= (f.clusters + 2) * Bits(f.type)
  BY <1>2, <1>3
<1>5. f.type \in FatType
  BY TypeTold DEF IsVolume
<1>6. CASE f.type = "FAT12"
  <2>1. Bits(f.type) = 12
    BY <1>6 DEF Bits
  <2>2. b \in (c + c \div 2) .. (c + c \div 2 + 1)
    BY <1>1, <1>6 DEF EntryBytes, v
  <2>3. 8 * b \in c * 12 - 7 .. (c + 1) * 12 - 1 /\ b < room
    BY <1>2, <1>3, <1>4, <2>1, <2>2, SMT
  <2> QED BY <2>1, <2>3 DEF room
<1>7. CASE f.type = "FAT16"
  <2>1. Bits(f.type) = 16
    BY <1>7 DEF Bits
  <2>2. b \in (2 * c) .. (2 * c + 1)
    BY <1>1, <1>7 DEF EntryBytes, v
  <2>3. 8 * b \in c * 16 - 7 .. (c + 1) * 16 - 1 /\ b < room
    BY <1>2, <1>3, <1>4, <2>1, <2>2, SMT
  <2> QED BY <2>1, <2>3 DEF room
<1>8. CASE f.type = "FAT32"
  <2>1. Bits(f.type) = 32
    BY <1>8 DEF Bits
  <2>2. b \in (4 * c) .. (4 * c + 3)
    BY <1>1, <1>8 DEF EntryBytes, v
  <2>3. 8 * b \in c * 32 - 7 .. (c + 1) * 32 - 1 /\ b < room
    BY <1>2, <1>3, <1>4, <2>1, <2>2, SMT
  <2> QED BY <2>1, <2>3 DEF room
<1> QED BY <1>5, <1>6, <1>7, <1>8 DEF FatType

-----------------------------------------------------------------------------
\* Every conversion has inputs of a kind of its own.
LEMMA KindOfInput ==
  /\ ConvertLongName => input'.kind = "long name"
  /\ ConvertShortName => input'.kind = "short name"
  /\ ConvertLabel => input'.kind = "label"
  /\ ConvertString => input'.kind = "string"
  /\ ConvertRecord => input'.kind = "record"
  /\ ConvertStamp => input'.kind = "stamp"
  /\ ConvertVolumeDates => input'.kind = "volume dates"
  /\ ConvertVolume => input'.kind = "volume"
  /\ ConvertTimes => input'.kind = "times"
<1>1. ASSUME ConvertLongName PROVE input'.kind = "long name"
  <2>1. PICK name, b, u : input' = [kind |-> "long name", name |-> name, unicode |-> u, before |-> b]
    BY <1>1, Zenon DEF ConvertLongName
  <2> QED BY <2>1, Zenon
<1>2. ASSUME ConvertShortName PROVE input'.kind = "short name"
  <2>1. PICK c, b, i : input' = [kind |-> "short name", codepage |-> c, byte |-> b, inName |-> i]
    BY <1>2, Zenon DEF ConvertShortName
  <2> QED BY <2>1, Zenon
<1>3. ASSUME ConvertLabel PROVE input'.kind = "label"
  <2>1. PICK u, l, n : input' = [kind |-> "label", used |-> u, destLen |-> l, label |-> n]
    BY <1>3, Zenon DEF ConvertLabel
  <2> QED BY <2>1, Zenon
<1>4. ASSUME ConvertString PROVE input'.kind = "string"
  <2>1. PICK t, l, p, n, u :
          input' = [kind |-> "string", type |-> t, destLen |-> l, pvd |-> p, label |-> n, used |-> u]
    BY <1>4, Zenon DEF ConvertString
  <2> QED BY <2>1, Zenon
<1>5. ConvertRecord => input'.kind = "record"
  BY DEF ConvertRecord
<1>6. ConvertStamp => input'.kind = "stamp"
  BY DEF ConvertStamp
<1>7. ASSUME ConvertVolumeDates PROVE input'.kind = "volume dates"
  <2>1. PICK k, p : input' = [kind |-> "volume dates", written |-> k, pvd |-> p]
    BY <1>7, Zenon DEF ConvertVolumeDates
  <2> QED BY <2>1, Zenon
<1>8. ConvertVolume => input'.kind = "volume"
  BY DEF ConvertVolume
<1>9. ConvertTimes => input'.kind = "times"
  BY DEF ConvertTimes
<1> QED BY <1>1, <1>2, <1>3, <1>4, <1>5, <1>6, <1>7, <1>8, <1>9

\* An input of a kind was made by its conversion.
LEMMA MadeByKind ==
  ASSUME Convert
  PROVE  /\ input'.kind = "long name" => ConvertLongName
         /\ input'.kind = "short name" => ConvertShortName
         /\ input'.kind = "record" => ConvertRecord
<1>1. \/ ConvertLongName \/ ConvertShortName \/ ConvertRecord
      \/ input'.kind \in {"label", "string", "stamp", "volume dates", "volume", "times"}
  BY KindOfInput, Zenon DEF Convert
<1>2. /\ ConvertLongName => input'.kind = "long name"
      /\ ConvertShortName => input'.kind = "short name"
      /\ ConvertRecord => input'.kind = "record"
  BY KindOfInput
<1> QED BY <1>1, <1>2

-----------------------------------------------------------------------------
\* Labels and strings.

\* A C string ends before the first 0.
LEMMA CStringEnds ==
  ASSUME NEW a, NEW n \in Nat, DOMAIN a = 1 .. n, Len(a) = n,
         NEW e \in 1 .. n, a[e] = 0, \A i \in 1 .. e - 1 : a[i] # 0
  PROVE  CString(a) = SubSeq(a, 1, e - 1)
<1>1. e = Min({i \in DOMAIN a : a[i] = 0} \cup {Len(a) + 1})
  BY DEF Min
<1> QED BY <1>1 DEF CString

\* The largest of a set of numbers.
LEMMA MaxIs ==
  ASSUME NEW S \in SUBSET Int, NEW m \in S, \A x \in S : x <= m
  PROVE  Max(S) = m
<1>1. \A x \in S : (\A y \in S : x >= y) <=> x = m
  BY SMT
<1> QED BY <1>1 DEF Max

\* A label in a buffer that is longer than it, without the spaces behind it and
\* ended.
THEOREM LabelTrimmed ==
  ASSUME NEW length \in Nat, NEW label \in [1 .. length -> Int \ {0}],
         NEW used \in 1 .. length, label[used] # Space,
         \A i \in used + 1 .. length : label[i] = Space,
         NEW destLen \in Nat, destLen > length,
         NEW dest, DOMAIN dest = 1 .. destLen
  PROVE  CString(RemoveRightPadding(dest, label, destLen)) = SubSeq(label, 1, used)
<1> DEFINE S == {i \in DOMAIN label : label[i] # Space}
           a == RemoveRightPadding(dest, label, destLen)
           Value == Int \cup {dest[i] : i \in 1 .. destLen}
<1>1. S \in SUBSET Int /\ used \in S /\ \A i \in S : i <= used
  BY SMT
<1>2. Max(S) = used
  BY <1>1, MaxIs
<1> HIDE DEF a, S, Value
<1>3. a = [i \in 1 .. destLen |-> IF i <= used THEN label[i] ELSE IF i = used + 1 THEN 0 ELSE dest[i]]
  <2>1. a = [i \in DOMAIN dest |->
               IF S # {} /\ i <= Max(S) THEN label[i]
               ELSE IF S # {} /\ i = Max(S) + 1 /\ Max(S) <= destLen THEN 0
               ELSE dest[i]]
    BY DEF RemoveRightPadding, a, S
  <2>2. S # {} /\ used <= destLen
    BY <1>1, SMT
  <2> QED BY <1>2, <2>1, <2>2
<1>4. a \in [1 .. destLen -> Value]
  BY <1>3 DEF Value
<1>5. a \in Seq(Value) /\ Len(a) = destLen /\ DOMAIN a = 1 .. destLen
  BY <1>4, SMT
<1>6. used + 1 \in 1 .. destLen /\ a[used + 1] = 0 /\ \A i \in 1 .. used : a[i] = label[i] /\ a[i] # 0
  BY <1>3, SMT
<1>7. CString(a) = SubSeq(a, 1, used)
  <2>1. (used + 1) - 1 = used
    BY SMT
  <2> QED BY <1>5, <1>6, <2>1, CStringEnds
<1>8. label \in Seq(Int) /\ Len(label) = length
  BY SMT
<1>9. /\ SubSeq(a, 1, used) \in Seq(Value) /\ Len(SubSeq(a, 1, used)) = used
      /\ \A i \in 1 .. used : SubSeq(a, 1, used)[i] = a[i]
  BY <1>5, SMT
<1>10. /\ SubSeq(label, 1, used) \in Seq(Int) /\ Len(SubSeq(label, 1, used)) = used
       /\ \A i \in 1 .. used : SubSeq(label, 1, used)[i] = label[i]
  BY <1>8, SMT
<1>11. SubSeq(a, 1, used) = SubSeq(label, 1, used)
  BY <1>6, <1>9, <1>10, SMT
<1> QED BY <1>7, <1>11 DEF a

\* What the run writes in a field is such a label.
LEMMA LabelFits ==
  ASSUME NEW first \in Nat, first > Space, NEW length \in Nat,
         NEW used \in 1 .. length, NEW inner
  PROVE  /\ Label(first, length, used, inner) \in [1 .. length -> Int \ {0}]
         /\ Label(first, length, used, inner)[used] # Space
         /\ \A i \in used + 1 .. length : Label(first, length, used, inner)[i] = Space
<1>1. \A i \in 1 .. length : first + (i % 10) \in Nat /\ first + (i % 10) > Space
  BY SMT DEF Space
<1> QED BY <1>1, SMT DEF Label, Space

\* Every string has a field of its own in the descriptor.
LEMMA FieldOfString ==
  ASSUME NEW k \in DOMAIN Strings, NEW used, NEW inner
  PROVE  /\ Descriptor(used, inner)[StringField[Strings[k][1]]]
              = Label(50 + (10 * k), Strings[k][3], used, inner)
         /\ Strings[k][3] \in {32, 37, 128} /\ k \in 1 .. 7
<1>1. DOMAIN Strings = 1 .. 7
  BY DEF Strings
<1>2. StringField[Strings[k][1]] = Strings[k][2] /\ Strings[k][3] \in {32, 37, 128}
  BY <1>1 DEF Strings, StringField
<1>3. \A j \in DOMAIN Strings : Strings[j][2] = Strings[k][2] => j = k
  BY <1>1 DEF Strings
<1>4. (CHOOSE j \in DOMAIN Strings : Strings[j][2] = Strings[k][2]) = k
  BY <1>3
<1> HIDE DEF Strings
<1>5. Strings[k][2] \in {Strings[j][2] : j \in DOMAIN Strings}
  OBVIOUS
<1> QED BY <1>1, <1>2, <1>4, <1>5 DEF Descriptor

\* What is converted was made by one of the conversions.
LabelPart ==
  input.kind = "label" =>
    \E used \in 1 .. 11, inner \in BOOLEAN, destLen \in 12 .. 16 :
      input = [kind |-> "label", used |-> used, destLen |-> destLen,
               label |-> Label(64, 11, used, inner)]
StringPart ==
  input.kind = "string" =>
    \E k \in DOMAIN Strings, inner \in BOOLEAN, spare \in 1 .. 3 :
      \E used \in 1 .. Strings[k][3] :
        input = [kind |-> "string", type |-> Strings[k][1], destLen |-> Strings[k][3] + spare,
                 pvd |-> Descriptor(used, inner),
                 label |-> Label(50 + (10 * k), Strings[k][3], used, inner), used |-> used]

\* Every label and string of the run is one the conversions made.
LEMMA LabelsMade == Spec => [](LabelPart /\ StringPart)
<1>1. Init => LabelPart /\ StringPart
  BY DEF Init, NoInput, LabelPart, StringPart
<1>2. ASSUME LabelPart, StringPart, [Next]_input PROVE LabelPart' /\ StringPart'
  <2>1. CASE UNCHANGED input
    BY <1>2, <2>1 DEF LabelPart, StringPart
  <2>2. CASE Return
    BY <2>2 DEF Return, NoInput, LabelPart, StringPart
  <2>3. CASE ConvertLabel
    <3>1. \E used \in 1 .. 11, inner \in BOOLEAN, destLen \in 12 .. 16 :
            input' = [kind |-> "label", used |-> used, destLen |-> destLen,
                      label |-> Label(64, 11, used, inner)]
      BY <2>3, Zenon DEF ConvertLabel
    <3>2. PICK u, l, n : input' = [kind |-> "label", used |-> u, destLen |-> l, label |-> n]
      BY <3>1, Zenon
    <3>3. input'.kind = "label"
      BY <3>2, Zenon
    <3> QED BY <3>1, <3>3 DEF LabelPart, StringPart
  <2>4. CASE ConvertString
    <3>1. PICK k \in DOMAIN Strings, inner \in BOOLEAN, spare \in 1 .. 3 :
            \E used \in {1, 2, 31, 32, Strings[k][3] - 1, Strings[k][3]} :
              input' = [kind |-> "string", type |-> Strings[k][1], destLen |-> Strings[k][3] + spare,
                        pvd |-> Descriptor(used, inner),
                        label |-> Label(50 + (10 * k), Strings[k][3], used, inner), used |-> used]
      BY <2>4 DEF ConvertString
    <3>2. {1, 2, 31, 32, Strings[k][3] - 1, Strings[k][3]} \subseteq 1 .. Strings[k][3]
      BY FieldOfString, SMT
    <3> QED BY <3>1, <3>2 DEF LabelPart, StringPart
  <2>5. CASE input'.kind \notin {"label", "string"}
    BY <2>5 DEF LabelPart, StringPart
  <2>6. CASE ConvertLongName
    <3>1. input'.kind = "long name"
      BY <2>6, KindOfInput
    <3> QED BY <2>5, <3>1
  <2>7. CASE ConvertShortName
    <3>1. input'.kind = "short name"
      BY <2>7, KindOfInput
    <3> QED BY <2>5, <3>1
  <2>8. CASE ConvertRecord
    <3>1. input'.kind = "record"
      BY <2>8, KindOfInput
    <3> QED BY <2>5, <3>1
  <2>9. CASE ConvertStamp
    <3>1. input'.kind = "stamp"
      BY <2>9, KindOfInput
    <3> QED BY <2>5, <3>1
  <2>10. CASE ConvertVolumeDates
    <3>1. input'.kind = "volume dates"
      BY <2>10, KindOfInput
    <3> QED BY <2>5, <3>1
  <2>11. CASE ConvertVolume
    <3>1. input'.kind = "volume"
      BY <2>11, KindOfInput
    <3> QED BY <2>5, <3>1
  <2>12. CASE ConvertTimes
    <3>1. input'.kind = "times"
      BY <2>12, KindOfInput
    <3> QED BY <2>5, <3>1
  <2> QED BY <1>2, <2>1, <2>2, <2>3, <2>4, <2>6, <2>7, <2>8, <2>9, <2>10, <2>11, <2>12 DEF Next, Convert
<1> QED BY <1>1, <1>2, PTL DEF Spec

\* Labels and strings reach the caller as they are in the fields of the volume
\* (fat.c:104-125, iso9660.c:91-113, 785-842).
THEOREM LabelsAlwaysTrimmed == Spec => []LabelsTrimmed
<1>1. ASSUME LabelPart, StringPart PROVE LabelsTrimmed
  <2>1. ASSUME input.kind = "label"
        PROVE  CString(RemoveRightPadding([i \in 1 .. input.destLen |-> Undef], input.label,
                                          input.destLen))
                 = SubSeq(input.label, 1, input.used)
    <3>1. PICK used \in 1 .. 11, inner \in BOOLEAN, destLen \in 12 .. 16 :
            input = [kind |-> "label", used |-> used, destLen |-> destLen,
                     label |-> Label(64, 11, used, inner)]
      BY <1>1, <2>1 DEF LabelPart
    <3> DEFINE label == Label(64, 11, used, inner)
               dest  == [i \in 1 .. destLen |-> Undef]
    <3>2. /\ label \in [1 .. 11 -> Int \ {0}] /\ label[used] # Space
          /\ \A i \in used + 1 .. 11 : label[i] = Space
      <4> DEFINE first  == 64
                 length == 11
      <4>1. first \in Nat /\ first > Space /\ length \in Nat /\ used \in 1 .. length
        BY SMT DEF Space
      <4> HIDE DEF first, length
      <4>2. /\ Label(first, length, used, inner) \in [1 .. length -> Int \ {0}]
            /\ Label(first, length, used, inner)[used] # Space
            /\ \A i \in used + 1 .. length : Label(first, length, used, inner)[i] = Space
        BY <4>1, LabelFits
      <4> QED BY <4>2 DEF first, length
    <3>3. DOMAIN dest = 1 .. destLen /\ destLen \in Nat /\ destLen > 11
      OBVIOUS
    <3>4. input.label = label /\ input.used = used /\ input.destLen = destLen
      BY <3>1
    <3> HIDE DEF label, dest
    <3>5. CString(RemoveRightPadding(dest, label, destLen)) = SubSeq(label, 1, used)
      BY <3>2, <3>3, LabelTrimmed
    <3> QED BY <3>4, <3>5 DEF dest
  <2>2. ASSUME input.kind = "string"
        PROVE  CString(VolumeString(input.pvd, input.type,
                                    [i \in 1 .. input.destLen |-> Undef], input.destLen))
                 = SubSeq(input.label, 1, input.used)
    <3>1. PICK k \in DOMAIN Strings, inner \in BOOLEAN, spare \in 1 .. 3 :
            \E used \in 1 .. Strings[k][3] :
              input = [kind |-> "string", type |-> Strings[k][1], destLen |-> Strings[k][3] + spare,
                       pvd |-> Descriptor(used, inner),
                       label |-> Label(50 + (10 * k), Strings[k][3], used, inner), used |-> used]
      BY <1>1, <2>2 DEF StringPart
    <3> DEFINE length  == Strings[k][3]
               destLen == length + spare
               dest    == [i \in 1 .. destLen |-> Undef]
    <3>2. PICK used \in 1 .. length :
            input = [kind |-> "string", type |-> Strings[k][1], destLen |-> destLen,
                     pvd |-> Descriptor(used, inner),
                     label |-> Label(50 + (10 * k), length, used, inner), used |-> used]
      BY <3>1
    <3> DEFINE label == Label(50 + (10 * k), length, used, inner)
    <3>3. k \in 1 .. 7 /\ length \in Nat /\ destLen \in Nat /\ destLen > length
          /\ DOMAIN dest = 1 .. destLen
      BY FieldOfString, SMT
    <3>4. input.label = label /\ input.used = used /\ input.destLen = destLen
          /\ input.pvd = Descriptor(used, inner) /\ input.type = Strings[k][1]
      BY <3>2
    <3> HIDE DEF length, destLen, dest
    <3>5. 50 + (10 * k) \in Nat /\ 50 + (10 * k) > Space
      BY <3>3, SMT DEF Space
    <3>6. /\ label \in [1 .. length -> Int \ {0}] /\ label[used] # Space
          /\ \A i \in used + 1 .. length : label[i] = Space
      BY <3>3, <3>5, LabelFits
    <3>7. input.pvd[StringField[input.type]] = label
      BY <3>4, FieldOfString DEF length
    <3> HIDE DEF label
    <3>8. CString(RemoveRightPadding(dest, label, destLen)) = SubSeq(label, 1, used)
      BY <3>3, <3>6, LabelTrimmed
    <3> QED BY <3>4, <3>7, <3>8 DEF VolumeString, dest
  <2> QED BY <2>1, <2>2, Zenon DEF LabelsTrimmed
<1> QED BY <1>1, LabelsMade, PTL

-----------------------------------------------------------------------------
\* Short names.

\* Bytes of short names: no space, no dot, and none that the tables fold wrongly.
NameBytes(codepage) == {b \in 33 .. 255 : b # Dot} \ Misfolded(codepage)
IsShortName(codepage, w) ==
  /\ w.stem \in Seq(NameBytes(codepage)) /\ Len(w.stem) <= 8
  /\ w.extension \in Seq(NameBytes(codepage)) /\ Len(w.extension) <= 3

\* A table folds the small letters as their capitals, strips letters of their
\* accents and keeps the other bytes, but for those excluded.
FoldsSmall(table, letters, accents, excluded) ==
  \A p \in letters :
    /\ p[1] \in 128 .. 255
    /\ p[1] \notin excluded =>
         \/ p[2] \in 65 .. 90 /\ table[p[1]] = p[2]
         \/ /\ p[2] \in 128 .. 255 /\ table[p[1]] = table[p[2]]
            /\ table[p[2]] = p[2] \/ \E q \in accents : q[1] = p[2]
Strips(table, accents) ==
  \A q \in accents : q[1] \in 128 .. 255 /\ q[2] \in 65 .. 90 /\ table[q[1]] = q[2]
KeepsOthers(table, letters, accents, excluded) ==
  \A b \in (128 .. 255) \ excluded :
    table[b] = b \/ (\E p \in letters : p[1] = b) \/ \E q \in accents : q[1] = b
Folds(table, letters, accents, excluded) ==
  /\ FoldsSmall(table, letters, accents, excluded)
  /\ Strips(table, accents)
  /\ KeepsOthers(table, letters, accents, excluded)

\* So do all tables of the code, each with the letters of its codepage.
LEMMA Folds437 == Folds(cp437_uctable, Letters437, Accents437, Misfolded(437))
<1>1. FoldsSmall(cp437_uctable, Letters437, Accents437, Misfolded(437))
  BY SMTT(60) DEF FoldsSmall, Misfolded, Letters437, Accents437, cp437_uctable, Table
<1>2. Strips(cp437_uctable, Accents437)
  BY SMTT(60) DEF Strips, Accents437, cp437_uctable, Table
<1>3. KeepsOthers(cp437_uctable, Letters437, Accents437, Misfolded(437))
  BY SMTT(60) DEF KeepsOthers, Misfolded, Letters437, Accents437, cp437_uctable, Table
<1> QED BY <1>1, <1>2, <1>3, Zenon DEF Folds

LEMMA Folds720 == Folds(cp720_uctable, {}, {}, Misfolded(720))
<1>1. FoldsSmall(cp720_uctable, {}, {}, Misfolded(720))
  BY DEF FoldsSmall
<1>2. Strips(cp720_uctable, {})
  BY DEF Strips
<1>3. KeepsOthers(cp720_uctable, {}, {}, Misfolded(720))
  BY SMTT(60) DEF KeepsOthers, Misfolded, cp720_uctable, Table
<1> QED BY <1>1, <1>2, <1>3, Zenon DEF Folds

LEMMA Folds737 == Folds(cp737_uctable, Letters737, {}, Misfolded(737))
<1>1. FoldsSmall(cp737_uctable, Letters737, {}, Misfolded(737))
  BY SMTT(60) DEF FoldsSmall, Misfolded, Letters737, cp737_uctable, Table
<1>2. Strips(cp737_uctable, {})
  BY DEF Strips
<1>3. KeepsOthers(cp737_uctable, Letters737, {}, Misfolded(737))
  BY SMTT(60) DEF KeepsOthers, Misfolded, Letters737, cp737_uctable, Table
<1> QED BY <1>1, <1>2, <1>3, Zenon DEF Folds

LEMMA Folds771 == Folds(cp771_uctable, Letters771, {}, Misfolded(771))
<1>1. FoldsSmall(cp771_uctable, Letters771, {}, Misfolded(771))
  BY SMTT(60) DEF FoldsSmall, Misfolded, Letters771, cp771_uctable, Table
<1>2. Strips(cp771_uctable, {})
  BY DEF Strips
<1>3. KeepsOthers(cp771_uctable, Letters771, {}, Misfolded(771))
  BY SMTT(60) DEF KeepsOthers, Misfolded, Letters771, cp771_uctable, Table
<1> QED BY <1>1, <1>2, <1>3, Zenon DEF Folds

LEMMA Folds775 == Folds(cp775_uctable, Letters775, {}, Misfolded(775))
<1>1. FoldsSmall(cp775_uctable, Letters775, {}, Misfolded(775))
  BY SMTT(60) DEF FoldsSmall, Misfolded, Letters775, cp775_uctable, Table
<1>2. Strips(cp775_uctable, {})
  BY DEF Strips
<1>3. KeepsOthers(cp775_uctable, Letters775, {}, Misfolded(775))
  BY SMTT(60) DEF KeepsOthers, Misfolded, Letters775, cp775_uctable, Table
<1> QED BY <1>1, <1>2, <1>3, Zenon DEF Folds

LEMMA Folds850 == Folds(cp850_uctable, Letters850, Accents850, Misfolded(850))
<1>1. FoldsSmall(cp850_uctable, Letters850, Accents850, Misfolded(850))
  BY SMTT(60) DEF FoldsSmall, Misfolded, Letters850, Accents850, cp850_uctable, Table
<1>2. Strips(cp850_uctable, Accents850)
  BY SMTT(60) DEF Strips, Accents850, cp850_uctable, Table
<1>3. KeepsOthers(cp850_uctable, Letters850, Accents850, Misfolded(850))
  BY SMTT(60) DEF KeepsOthers, Misfolded, Letters850, Accents850, cp850_uctable, Table
<1> QED BY <1>1, <1>2, <1>3, Zenon DEF Folds

LEMMA Folds852 == Folds(cp852_uctable, Letters852, {}, Misfolded(852))
<1>1. FoldsSmall(cp852_uctable, Letters852, {}, Misfolded(852))
  BY SMTT(60) DEF FoldsSmall, Misfolded, Letters852, cp852_uctable, Table
<1>2. Strips(cp852_uctable, {})
  BY DEF Strips
<1>3. KeepsOthers(cp852_uctable, Letters852, {}, Misfolded(852))
  BY SMTT(60) DEF KeepsOthers, Misfolded, Letters852, cp852_uctable, Table
<1> QED BY <1>1, <1>2, <1>3, Zenon DEF Folds

LEMMA Folds855 == Folds(cp855_uctable, Letters855, {}, Misfolded(855))
<1>1. FoldsSmall(cp855_uctable, Letters855, {}, Misfolded(855))
  BY SMTT(60) DEF FoldsSmall, Misfolded, Letters855, cp855_uctable, Table
<1>2. Strips(cp855_uctable, {})
  BY DEF Strips
<1>3. KeepsOthers(cp855_uctable, Letters855, {}, Misfolded(855))
  BY SMTT(60) DEF KeepsOthers, Misfolded, Letters855, cp855_uctable, Table
<1> QED BY <1>1, <1>2, <1>3, Zenon DEF Folds

LEMMA Folds857 == Folds(cp857_uctable, Letters857, {}, Misfolded(857))
<1>1. FoldsSmall(cp857_uctable, Letters857, {}, Misfolded(857))
  BY SMTT(60) DEF FoldsSmall, Misfolded, Letters857, cp857_uctable, Table
<1>2. Strips(cp857_uctable, {})
  BY DEF Strips
<1>3. KeepsOthers(cp857_uctable, Letters857, {}, Misfolded(857))
  BY SMTT(60) DEF KeepsOthers, Misfolded, Letters857, cp857_uctable, Table
<1> QED BY <1>1, <1>2, <1>3, Zenon DEF Folds

LEMMA Folds860 == Folds(cp860_uctable, Letters860, {}, Misfolded(860))
<1>1. FoldsSmall(cp860_uctable, Letters860, {}, Misfolded(860))
  BY SMTT(60) DEF FoldsSmall, Misfolded, Letters860, cp860_uctable, Table
<1>2. Strips(cp860_uctable, {})
  BY DEF Strips
<1>3. KeepsOthers(cp860_uctable, Letters860, {}, Misfolded(860))
  BY SMTT(60) DEF KeepsOthers, Misfolded, Letters860, cp860_uctable, Table
<1> QED BY <1>1, <1>2, <1>3, Zenon DEF Folds

LEMMA Folds861 == Folds(cp861_uctable, Letters861, Accents861, Misfolded(861))
<1>1. FoldsSmall(cp861_uctable, Letters861, Accents861, Misfolded(861))
  BY SMTT(60) DEF FoldsSmall, Misfolded, Letters861, Accents861, cp861_uctable, Table
<1>2. Strips(cp861_uctable, Accents861)
  BY SMTT(60) DEF Strips, Accents861, cp861_uctable, Table
<1>3. KeepsOthers(cp861_uctable, Letters861, Accents861, Misfolded(861))
  BY SMTT(60) DEF KeepsOthers, Misfolded, Letters861, Accents861, cp861_uctable, Table
<1> QED BY <1>1, <1>2, <1>3, Zenon DEF Folds

LEMMA Folds862 == Folds(cp862_uctable, Letters862, Accents862, Misfolded(862))
<1>1. FoldsSmall(cp862_uctable, Letters862, Accents862, Misfolded(862))
  BY SMTT(60) DEF FoldsSmall, Misfolded, Letters862, Accents862, cp862_uctable, Table
<1>2. Strips(cp862_uctable, Accents862)
  BY SMTT(60) DEF Strips, Accents862, cp862_uctable, Table
<1>3. KeepsOthers(cp862_uctable, Letters862, Accents862, Misfolded(862))
  BY SMTT(60) DEF KeepsOthers, Misfolded, Letters862, Accents862, cp862_uctable, Table
<1> QED BY <1>1, <1>2, <1>3, Zenon DEF Folds

LEMMA Folds863 == Folds(cp863_uctable, Letters863, Accents863, Misfolded(863))
<1>1. FoldsSmall(cp863_uctable, Letters863, Accents863, Misfolded(863))
  BY SMTT(60) DEF FoldsSmall, Misfolded, Letters863, Accents863, cp863_uctable, Table
<1>2. Strips(cp863_uctable, Accents863)
  BY SMTT(60) DEF Strips, Accents863, cp863_uctable, Table
<1>3. KeepsOthers(cp863_uctable, Letters863, Accents863, Misfolded(863))
  BY SMTT(60) DEF KeepsOthers, Misfolded, Letters863, Accents863, cp863_uctable, Table
<1> QED BY <1>1, <1>2, <1>3, Zenon DEF Folds

LEMMA Folds864 == Folds(cp864_uctable, {}, {}, Misfolded(864))
<1>1. FoldsSmall(cp864_uctable, {}, {}, Misfolded(864))
  BY DEF FoldsSmall
<1>2. Strips(cp864_uctable, {})
  BY DEF Strips
<1>3. KeepsOthers(cp864_uctable, {}, {}, Misfolded(864))
  BY SMTT(60) DEF KeepsOthers, Misfolded, cp864_uctable, Table
<1> QED BY <1>1, <1>2, <1>3, Zenon DEF Folds

LEMMA Folds865 == Folds(cp865_uctable, Letters865, Accents437, Misfolded(865))
<1>1. FoldsSmall(cp865_uctable, Letters865, Accents437, Misfolded(865))
  BY SMTT(60) DEF FoldsSmall, Misfolded, Letters865, Accents437, cp865_uctable, Table
<1>2. Strips(cp865_uctable, Accents437)
  BY SMTT(60) DEF Strips, Accents437, cp865_uctable, Table
<1>3. KeepsOthers(cp865_uctable, Letters865, Accents437, Misfolded(865))
  BY SMTT(60) DEF KeepsOthers, Misfolded, Letters865, Accents437, cp865_uctable, Table
<1> QED BY <1>1, <1>2, <1>3, Zenon DEF Folds

LEMMA Folds866 == Folds(cp866_uctable, Letters866, {}, Misfolded(866))
<1>1. FoldsSmall(cp866_uctable, Letters866, {}, Misfolded(866))
  BY SMTT(60) DEF FoldsSmall, Misfolded, Letters866, cp866_uctable, Table
<1>2. Strips(cp866_uctable, {})
  BY DEF Strips
<1>3. KeepsOthers(cp866_uctable, Letters866, {}, Misfolded(866))
  BY SMTT(60) DEF KeepsOthers, Misfolded, Letters866, cp866_uctable, Table
<1> QED BY <1>1, <1>2, <1>3, Zenon DEF Folds

LEMMA Folds869 == Folds(cp869_uctable, Letters869, {}, Misfolded(869))
<1>1. FoldsSmall(cp869_uctable, Letters869, {}, Misfolded(869))
  BY SMTT(60) DEF FoldsSmall, Misfolded, Letters869, cp869_uctable, Table
<1>2. Strips(cp869_uctable, {})
  BY DEF Strips
<1>3. KeepsOthers(cp869_uctable, Letters869, {}, Misfolded(869))
  BY SMTT(60) DEF KeepsOthers, Misfolded, Letters869, cp869_uctable, Table
<1> QED BY <1>1, <1>2, <1>3, Zenon DEF Folds

\* What a byte is taken to.
LEMMA ImageIs ==
  ASSUME NEW pairs, NEW byte
  PROVE  \/ \E p \in pairs : p[1] = byte /\ Image(pairs, byte) = p[2]
         \/ (\A p \in pairs : p[1] # byte) /\ Image(pairs, byte) = byte
<1>1. CASE \E p \in pairs : p[1] = byte
  <2> DEFINE q == CHOOSE p \in pairs : p[1] = byte
  <2>1. q \in pairs /\ q[1] = byte
    BY <1>1
  <2>2. Image(pairs, byte) = q[2]
    BY <1>1 DEF Image
  <2> HIDE DEF q
  <2> QED BY <2>1, <2>2
<1>2. CASE ~ \E p \in pairs : p[1] = byte
  BY <1>2 DEF Image
<1> QED BY <1>1, <1>2

\* The capital of a byte and its letter, where a table folds as it should.
LEMMA FoldedLetter ==
  ASSUME NEW table, NEW letters, NEW accents, NEW excluded,
         Folds(table, letters, accents, excluded),
         NEW b \in (128 .. 255) \ excluded
  PROVE  LET c == Image(Ascii \cup letters, b)
             l == Image(accents, c)
         IN  /\ c \in (65 .. 90) \cup (128 .. 255)
             /\ l \in (65 .. 90) \cup (128 .. 255)
             /\ table[b] = l
             /\ IF c \in 65 .. 90 THEN l = c ELSE table[c] = l
<1> DEFINE c == Image(Ascii \cup letters, b)
           l == Image(accents, c)
<1>1. \A p \in Ascii : p[1] # b
  BY SMT DEF Ascii
<1>2. \/ \E p \in letters : p[1] = b /\ c = p[2]
      \/ (\A p \in letters : p[1] # b) /\ c = b
  BY <1>1, ImageIs
<1>3. \/ \E q \in accents : q[1] = c /\ l = q[2]
      \/ (\A q \in accents : q[1] # c) /\ l = c
  BY ImageIs
<1> HIDE DEF c, l
<1>4. \A q \in accents : q[1] \in 128 .. 255 /\ q[2] \in 65 .. 90 /\ table[q[1]] = q[2]
  BY DEF Folds, Strips
<1>5. CASE \E p \in letters : p[1] = b /\ c = p[2]
  <2>1. PICK p \in letters : p[1] = b /\ c = p[2]
    BY <1>5
  <2>2. \/ c \in 65 .. 90 /\ table[b] = c
        \/ /\ c \in 128 .. 255 /\ table[b] = table[c]
           /\ table[c] = c \/ \E q \in accents : q[1] = c
    BY <2>1 DEF Folds, FoldsSmall
  <2>3. CASE c \in 65 .. 90 /\ table[b] = c
    <3>1. \A q \in accents : q[1] # c
      BY <1>4, <2>3, SMT
    <3> QED BY <1>3, <2>3, <3>1 DEF c, l
  <2>4. CASE /\ c \in 128 .. 255 /\ table[b] = table[c]
             /\ table[c] = c \/ \E q \in accents : q[1] = c
    <3>1. table[c] = l /\ l \in (65 .. 90) \cup (128 .. 255)
      BY <1>3, <1>4, <2>4
    <3>2. c \notin 65 .. 90
      BY <2>4, SMT
    <3> QED BY <2>4, <3>1, <3>2 DEF c, l
  <2> QED BY <2>2, <2>3, <2>4
<1>6. CASE (\A p \in letters : p[1] # b) /\ c = b
  <2>1. table[b] = b \/ \E q \in accents : q[1] = b
    BY <1>6 DEF Folds, KeepsOthers
  <2>2. table[c] = l /\ l \in (65 .. 90) \cup (128 .. 255)
    BY <1>3, <1>4, <1>6, <2>1
  <2>3. c \in 128 .. 255 /\ c \notin 65 .. 90
    BY <1>6, SMT
  <2> QED BY <1>6, <2>2, <2>3 DEF c, l
<1> QED BY <1>2, <1>5, <1>6

\* Every table of the code folds the letters of its codepage.
LEMMA TablesFold ==
  ASSUME NEW codepage \in Codepages
  PROVE  \E letters, accents :
           /\ Alphabet(codepage) = Ascii \cup letters /\ Unaccented(codepage) = accents
           /\ Folds(UppercaseTable(codepage), letters, accents, Misfolded(codepage))
<1>1. CASE codepage = 437
  <2>1. Alphabet(codepage) = Ascii \cup Letters437 /\ Unaccented(codepage) = Accents437
    BY <1>1, SMT DEF Alphabet, Unaccented
  <2>2. UppercaseTable(codepage) = cp437_uctable
    BY <1>1, SMT DEF UppercaseTable
  <2>3. Folds(UppercaseTable(codepage), Letters437, Accents437, Misfolded(codepage))
    BY <1>1, <2>2, Folds437
  <2> QED BY <2>1, <2>3, Zenon
<1>2. CASE codepage = 720
  <2>1. Alphabet(codepage) = Ascii \cup {} /\ Unaccented(codepage) = {}
    BY <1>2, SMT DEF Alphabet, Unaccented
  <2>2. UppercaseTable(codepage) = cp720_uctable
    BY <1>2, SMT DEF UppercaseTable
  <2>3. Folds(UppercaseTable(codepage), {}, {}, Misfolded(codepage))
    BY <1>2, <2>2, Folds720
  <2> QED BY <2>1, <2>3, Zenon
<1>3. CASE codepage = 737
  <2>1. Alphabet(codepage) = Ascii \cup Letters737 /\ Unaccented(codepage) = {}
    BY <1>3, SMT DEF Alphabet, Unaccented
  <2>2. UppercaseTable(codepage) = cp737_uctable
    BY <1>3, SMT DEF UppercaseTable
  <2>3. Folds(UppercaseTable(codepage), Letters737, {}, Misfolded(codepage))
    BY <1>3, <2>2, Folds737
  <2> QED BY <2>1, <2>3, Zenon
<1>4. CASE codepage = 771
  <2>1. Alphabet(codepage) = Ascii \cup Letters771 /\ Unaccented(codepage) = {}
    BY <1>4, SMT DEF Alphabet, Unaccented
  <2>2. UppercaseTable(codepage) = cp771_uctable
    BY <1>4, SMT DEF UppercaseTable
  <2>3. Folds(UppercaseTable(codepage), Letters771, {}, Misfolded(codepage))
    BY <1>4, <2>2, Folds771
  <2> QED BY <2>1, <2>3, Zenon
<1>5. CASE codepage = 775
  <2>1. Alphabet(codepage) = Ascii \cup Letters775 /\ Unaccented(codepage) = {}
    BY <1>5, SMT DEF Alphabet, Unaccented
  <2>2. UppercaseTable(codepage) = cp775_uctable
    BY <1>5, SMT DEF UppercaseTable
  <2>3. Folds(UppercaseTable(codepage), Letters775, {}, Misfolded(codepage))
    BY <1>5, <2>2, Folds775
  <2> QED BY <2>1, <2>3, Zenon
<1>6. CASE codepage = 850
  <2>1. Alphabet(codepage) = Ascii \cup Letters850 /\ Unaccented(codepage) = Accents850
    BY <1>6, SMT DEF Alphabet, Unaccented
  <2>2. UppercaseTable(codepage) = cp850_uctable
    BY <1>6, SMT DEF UppercaseTable
  <2>3. Folds(UppercaseTable(codepage), Letters850, Accents850, Misfolded(codepage))
    BY <1>6, <2>2, Folds850
  <2> QED BY <2>1, <2>3, Zenon
<1>7. CASE codepage = 852
  <2>1. Alphabet(codepage) = Ascii \cup Letters852 /\ Unaccented(codepage) = {}
    BY <1>7, SMT DEF Alphabet, Unaccented
  <2>2. UppercaseTable(codepage) = cp852_uctable
    BY <1>7, SMT DEF UppercaseTable
  <2>3. Folds(UppercaseTable(codepage), Letters852, {}, Misfolded(codepage))
    BY <1>7, <2>2, Folds852
  <2> QED BY <2>1, <2>3, Zenon
<1>8. CASE codepage = 855
  <2>1. Alphabet(codepage) = Ascii \cup Letters855 /\ Unaccented(codepage) = {}
    BY <1>8, SMT DEF Alphabet, Unaccented
  <2>2. UppercaseTable(codepage) = cp855_uctable
    BY <1>8, SMT DEF UppercaseTable
  <2>3. Folds(UppercaseTable(codepage), Letters855, {}, Misfolded(codepage))
    BY <1>8, <2>2, Folds855
  <2> QED BY <2>1, <2>3, Zenon
<1>9. CASE codepage = 857
  <2>1. Alphabet(codepage) = Ascii \cup Letters857 /\ Unaccented(codepage) = {}
    BY <1>9, SMT DEF Alphabet, Unaccented
  <2>2. UppercaseTable(codepage) = cp857_uctable
    BY <1>9, SMT DEF UppercaseTable
  <2>3. Folds(UppercaseTable(codepage), Letters857, {}, Misfolded(codepage))
    BY <1>9, <2>2, Folds857
  <2> QED BY <2>1, <2>3, Zenon
<1>10. CASE codepage = 860
  <2>1. Alphabet(codepage) = Ascii \cup Letters860 /\ Unaccented(codepage) = {}
    BY <1>10, SMT DEF Alphabet, Unaccented
  <2>2. UppercaseTable(codepage) = cp860_uctable
    BY <1>10, SMT DEF UppercaseTable
  <2>3. Folds(UppercaseTable(codepage), Letters860, {}, Misfolded(codepage))
    BY <1>10, <2>2, Folds860
  <2> QED BY <2>1, <2>3, Zenon
<1>11. CASE codepage = 861
  <2>1. Alphabet(codepage) = Ascii \cup Letters861 /\ Unaccented(codepage) = Accents861
    BY <1>11, SMT DEF Alphabet, Unaccented
  <2>2. UppercaseTable(codepage) = cp861_uctable
    BY <1>11, SMT DEF UppercaseTable
  <2>3. Folds(UppercaseTable(codepage), Letters861, Accents861, Misfolded(codepage))
    BY <1>11, <2>2, Folds861
  <2> QED BY <2>1, <2>3, Zenon
<1>12. CASE codepage = 862
  <2>1. Alphabet(codepage) = Ascii \cup Letters862 /\ Unaccented(codepage) = Accents862
    BY <1>12, SMT DEF Alphabet, Unaccented
  <2>2. UppercaseTable(codepage) = cp862_uctable
    BY <1>12, SMT DEF UppercaseTable
  <2>3. Folds(UppercaseTable(codepage), Letters862, Accents862, Misfolded(codepage))
    BY <1>12, <2>2, Folds862
  <2> QED BY <2>1, <2>3, Zenon
<1>13. CASE codepage = 863
  <2>1. Alphabet(codepage) = Ascii \cup Letters863 /\ Unaccented(codepage) = Accents863
    BY <1>13, SMT DEF Alphabet, Unaccented
  <2>2. UppercaseTable(codepage) = cp863_uctable
    BY <1>13, SMT DEF UppercaseTable
  <2>3. Folds(UppercaseTable(codepage), Letters863, Accents863, Misfolded(codepage))
    BY <1>13, <2>2, Folds863
  <2> QED BY <2>1, <2>3, Zenon
<1>14. CASE codepage = 864
  <2>1. Alphabet(codepage) = Ascii \cup {} /\ Unaccented(codepage) = {}
    BY <1>14, SMT DEF Alphabet, Unaccented
  <2>2. UppercaseTable(codepage) = cp864_uctable
    BY <1>14, SMT DEF UppercaseTable
  <2>3. Folds(UppercaseTable(codepage), {}, {}, Misfolded(codepage))
    BY <1>14, <2>2, Folds864
  <2> QED BY <2>1, <2>3, Zenon
<1>15. CASE codepage = 865
  <2>1. Alphabet(codepage) = Ascii \cup Letters865 /\ Unaccented(codepage) = Accents437
    BY <1>15, SMT DEF Alphabet, Unaccented
  <2>2. UppercaseTable(codepage) = cp865_uctable
    BY <1>15, SMT DEF UppercaseTable
  <2>3. Folds(UppercaseTable(codepage), Letters865, Accents437, Misfolded(codepage))
    BY <1>15, <2>2, Folds865
  <2> QED BY <2>1, <2>3, Zenon
<1>16. CASE codepage = 866
  <2>1. Alphabet(codepage) = Ascii \cup Letters866 /\ Unaccented(codepage) = {}
    BY <1>16, SMT DEF Alphabet, Unaccented
  <2>2. UppercaseTable(codepage) = cp866_uctable
    BY <1>16, SMT DEF UppercaseTable
  <2>3. Folds(UppercaseTable(codepage), Letters866, {}, Misfolded(codepage))
    BY <1>16, <2>2, Folds866
  <2> QED BY <2>1, <2>3, Zenon
<1>17. CASE codepage = 869
  <2>1. Alphabet(codepage) = Ascii \cup Letters869 /\ Unaccented(codepage) = {}
    BY <1>17, SMT DEF Alphabet, Unaccented
  <2>2. UppercaseTable(codepage) = cp869_uctable
    BY <1>17, SMT DEF UppercaseTable
  <2>3. Folds(UppercaseTable(codepage), Letters869, {}, Misfolded(codepage))
    BY <1>17, <2>2, Folds869
  <2> QED BY <2>1, <2>3, Zenon
<1> QED BY <1>1, <1>2, <1>3, <1>4, <1>5, <1>6, <1>7, <1>8, <1>9, <1>10, <1>11, <1>12, <1>13, <1>14,
           <1>15, <1>16, <1>17, SMT DEF Codepages

\* A byte of a name is taken to its letter, and so is its capital, also when that
\* was turned to lower case; a dot is no byte of a name and none becomes one.
LEMMA FoldOnce ==
  ASSUME NEW codepage \in Codepages, NEW b \in NameBytes(codepage)
  PROVE  LET c == Capital(codepage, b)
             l == Letter(codepage, b)
         IN  /\ c \in 33 .. 255 /\ c \notin 97 .. 122 /\ c # Dot
             /\ l \in 33 .. 255 /\ l # Dot
             /\ Upper(codepage, b) = l /\ Upper(codepage, c) = l
             /\ Upper(codepage, Lower(c)) = l
<1> DEFINE c == Capital(codepage, b)
           l == Letter(codepage, b)
           table == UppercaseTable(codepage)
<1>1. b \in 33 .. 255 /\ b # Dot /\ b \notin Misfolded(codepage)
  BY DEF NameBytes
<1>2. PICK letters, accents :
        /\ Alphabet(codepage) = Ascii \cup letters /\ Unaccented(codepage) = accents
        /\ Folds(table, letters, accents, Misfolded(codepage))
  BY TablesFold
<1>3. c = Image(Ascii \cup letters, b) /\ l = Image(accents, c)
  BY <1>2 DEF Capital, Letter
<1> HIDE DEF c, l
<1>4. CASE b < 128
  <2>1. \A p \in letters : p[1] # b
    <3>1. \A p \in letters : p[1] \in 128 .. 255
      BY <1>2 DEF Folds, FoldsSmall
    <3> QED BY <1>4, <3>1, SMT
  <2>2. c = IF b \in 97 .. 122 THEN b - 32 ELSE b
    <3>1. \/ \E p \in Ascii : p[1] = b /\ c = p[2]
          \/ (\A p \in Ascii : p[1] # b) /\ c = b
      BY <1>3, <2>1, ImageIs
    <3>2. \A p \in Ascii : p[1] \in 97 .. 122 /\ p[2] = p[1] - 32
      BY SMT DEF Ascii
    <3>3. b \in 97 .. 122 => <<b, b - 32>> \in Ascii
      BY DEF Ascii
    <3>4. <<b, b - 32>>[1] = b
      OBVIOUS
    <3> QED BY <3>1, <3>2, <3>3, <3>4
  <2>3. c \in 33 .. 127 /\ c \notin 97 .. 122 /\ c # Dot
    BY <1>1, <1>4, <2>2, SMT DEF Dot
  <2>4. l = c
    <3>1. \A q \in accents : q[1] \in 128 .. 255
      BY <1>2 DEF Folds, Strips
    <3>2. \A q \in accents : q[1] # c
      BY <2>3, <3>1, SMT
    <3> QED BY <1>3, <3>2, ImageIs
  <2>5. Upper(codepage, b) = c
    BY <1>1, <1>4, <2>2, SMT DEF Upper
  <2>6. Upper(codepage, c) = c /\ Upper(codepage, Lower(c)) = c
    BY <2>3, SMT DEF Upper, Lower
  <2>7. c \in 33 .. 255
    BY <2>3, SMT
  <2> QED BY <2>3, <2>4, <2>5, <2>6, <2>7 DEF c, l
<1>5. CASE b >= 128
  <2>1. b \in (128 .. 255) \ Misfolded(codepage)
    BY <1>1, <1>5, SMT
  <2>2. /\ c \in (65 .. 90) \cup (128 .. 255)
        /\ l \in (65 .. 90) \cup (128 .. 255)
        /\ table[b] = l
        /\ IF c \in 65 .. 90 THEN l = c ELSE table[c] = l
    BY <1>2, <1>3, <2>1, FoldedLetter
  <2> HIDE DEF table
  <2>3. Upper(codepage, b) = l
    BY <1>5, <2>2 DEF Upper, table
  <2>4. Upper(codepage, c) = l /\ Upper(codepage, Lower(c)) = l
    <3>1. CASE c \in 65 .. 90
      BY <2>2, <3>1, SMT DEF Upper, Lower
    <3>2. CASE c \in 128 .. 255
      <4>1. c >= 128 /\ Lower(c) = c /\ table[c] = l
        BY <2>2, <3>2, SMT DEF Lower
      <4> QED BY <4>1 DEF Upper, table
    <3> QED BY <2>2, <3>1, <3>2
  <2>5. /\ c \in 33 .. 255 /\ c \notin 97 .. 122 /\ c # Dot
        /\ l \in 33 .. 255 /\ l # Dot
    BY <2>2, SMT DEF Dot
  <2> QED BY <2>3, <2>4, <2>5 DEF c, l
<1> QED BY <1>1, <1>4, <1>5, SMT

\* A field holds the text that was filled up.
LEMMA BeforePadding ==
  ASSUME NEW text \in Seq(Int), NEW n \in Nat, Len(text) <= n,
         \A i \in 1 .. Len(text) : text[i] # Space
  PROVE  BeforeSpace(Padded(text, n)) = text
<1> DEFINE field == Padded(text, n)
           l     == Len(text)
           Ends(e) == /\ e = Len(field) \/ field[e + 1] = Space
                      /\ \A i \in 1 .. e : field[i] # Space
<1>1. /\ field \in Seq(Int) /\ Len(field) = n /\ l \in 0 .. n
      /\ \A i \in 1 .. n : field[i] = IF i <= l THEN text[i] ELSE Space
  BY SMT DEF Padded, Space
<1> HIDE DEF field
<1>2. \A i \in 1 .. l : text[i] # Space
  OBVIOUS
<1> HIDE DEF l
<1>3. Ends(l)
  <2>1. l = n \/ field[l + 1] = Space
    BY <1>1, SMT
  <2>2. \A i \in 1 .. l : i \in 1 .. n /\ i <= l
    BY <1>1, SMT
  <2> QED BY <1>1, <1>2, <2>1, <2>2
<1>4. ASSUME NEW e \in 0 .. n, Ends(e) PROVE e = l
  <2>1. ~ e < l
    <3>1. SUFFICES ASSUME e < l PROVE FALSE
      OBVIOUS
    <3>2. e + 1 \in 1 .. n /\ e + 1 \in 1 .. l /\ e # n
      BY <1>1, <3>1, SMT
    <3> QED BY <1>1, <1>2, <1>4, <3>2, SMT
  <2>2. ~ l < e
    <3>1. SUFFICES ASSUME l < e PROVE FALSE
      OBVIOUS
    <3>2. l + 1 \in 1 .. n /\ l + 1 \in 1 .. e /\ ~ l + 1 <= l
      BY <1>1, <3>1, SMT
    <3> QED BY <1>1, <1>4, <3>2, Zenon
  <2> QED BY <1>1, <2>1, <2>2, SMT
<1> HIDE DEF Ends
<1>5. (CHOOSE e \in 0 .. n : Ends(e)) = l
  BY <1>1, <1>3, <1>4
<1>6. BeforeSpace(field) = SubSeq(field, 1, l)
  BY <1>1, <1>5 DEF BeforeSpace, Ends
<1>7. SubSeq(field, 1, l) = text
  <2>1. /\ SubSeq(field, 1, l) \in Seq(Int) /\ Len(SubSeq(field, 1, l)) = l
        /\ \A i \in 1 .. l : SubSeq(field, 1, l)[i] = field[i]
    BY <1>1, SMT
  <2>2. Len(SubSeq(field, 1, l)) = Len(text)
    BY <2>1 DEF l
  <2>3. \A i \in 1 .. l : field[i] = text[i]
    BY <1>1, SMT
  <2>4. \A i \in 1 .. Len(SubSeq(field, 1, l)) : SubSeq(field, 1, l)[i] = text[i]
    BY <2>1, <2>3
  <2> QED BY <2>1, <2>2, <2>4, SeqEqual, Zenon
<1> QED BY <1>6, <1>7 DEF field

\* A name and its extension, with a dot between them if there is one.
Joined(stem, extension) ==
  stem \o (IF extension = << >> THEN << >> ELSE <<Dot>>) \o extension

LEMMA JoinedIs ==
  ASSUME NEW a \in Seq(Int), NEW b \in Seq(Int)
  PROVE  LET j == Joined(a, b)
             m == Len(a)
         IN  /\ j \in Seq(Int)
             /\ b = << >> => j = a
             /\ b # << >> => /\ Len(j) = (m + 1) + Len(b)
                             /\ \A i \in 1 .. m : j[i] = a[i]
                             /\ j[m + 1] = Dot
                             /\ \A i \in 1 .. Len(b) : j[(m + 1) + i] = b[i]
<1> DEFINE m == Len(a)
           n == Len(b)
           j == Joined(a, b)
<1>1. m \in Nat /\ n \in Nat
  BY LenProperties
<1>2. CASE b = << >>
  <2>1. j = a \o << >> \o << >>
    BY <1>2, Zenon DEF Joined
  <2>2. a \o << >> = a
    BY ConcatEmptySeq, Zenon
  <2> QED BY <1>2, <2>1, <2>2
<1>3. CASE b # << >>
  <2> DEFINE d == <<Dot>>
             c == a \o d
  <2>1. j = c \o b
    BY <1>3, Zenon DEF Joined
  <2>2. d \in Seq(Int) /\ Len(d) = 1 /\ d[1] = Dot
    BY SMT DEF Dot
  <2> HIDE DEF d, j
  <2>3. /\ c \in Seq(Int) /\ Len(c) = Len(a) + Len(d)
        /\ \A i \in 1 .. Len(a) + Len(d) : c[i] = IF i <= Len(a) THEN a[i] ELSE d[i - Len(a)]
    BY <2>2, ConcatProperties, Zenon
  <2> HIDE DEF c
  <2> c \in Seq(Int) /\ b \in Seq(Int)
    BY <2>3
  <2>4. /\ c \o b \in Seq(Int) /\ Len(c \o b) = Len(c) + Len(b)
        /\ \A i \in 1 .. Len(c) + Len(b) : (c \o b)[i] = IF i <= Len(c) THEN c[i] ELSE b[i - Len(c)]
    BY ConcatProperties, Zenon
  <2> HIDE DEF m, n
  <2>5. Len(c) = m + 1 /\ (\A i \in 1 .. m : c[i] = a[i]) /\ c[m + 1] = Dot
    <3>1. Len(c) = m + 1 /\ \A i \in 1 .. m + 1 : c[i] = IF i <= m THEN a[i] ELSE d[i - m]
      BY <2>2, <2>3 DEF m
    <3>2. (m + 1) - m = 1
      BY <1>1, SMT
    <3> QED BY <1>1, <2>2, <3>1, <3>2, SMT
  <2>6. /\ j \in Seq(Int) /\ Len(j) = (m + 1) + n
        /\ \A i \in 1 .. (m + 1) + n : j[i] = IF i <= m + 1 THEN c[i] ELSE b[i - (m + 1)]
    BY <2>1, <2>4, <2>5 DEF n
  <2>7. \A i \in 1 .. m : j[i] = a[i]
    BY <1>1, <2>5, <2>6, SMT
  <2>8. j[m + 1] = Dot
    BY <1>1, <2>5, <2>6, SMT
  <2>9. \A i \in 1 .. n : j[(m + 1) + i] = b[i]
    <3>1. TAKE i \in 1 .. n
    <3>2. (m + 1) + i \in 1 .. (m + 1) + n /\ ~ (m + 1) + i <= m + 1 /\ ((m + 1) + i) - (m + 1) = i
      BY <1>1, <3>1, SMT
    <3> QED BY <2>6, <3>2
  <2> QED BY <1>3, <2>6, <2>7, <2>8, <2>9 DEF j, m, n
<1> QED BY <1>2, <1>3 DEF j

\* Bytes are numbers.
LEMMA BytesAreNumbers ==
  ASSUME NEW codepage
  PROVE  NameBytes(codepage) \subseteq Int
<1>1. NameBytes(codepage) \subseteq 33 .. 255
  BY Zenon DEF NameBytes
<1>2. 33 .. 255 \subseteq Int
  BY SMT
<1> QED BY <1>1, <1>2, Zenon

\* An empty sequence is the one without elements.
LEMMA EmptyIs ==
  ASSUME NEW s \in Seq(Int)
  PROVE  s = << >> <=> Len(s) = 0
  BY EmptySeq, Zenon

\* A text and the same in upper case.
IsUppercase(codepage, t, u) ==
  /\ t \in Seq(Int) /\ u \in Seq(Int) /\ Len(u) = Len(t)
  /\ \A i \in 1 .. Len(t) : Upper(codepage, t[i]) = u[i]

\* Uppercase, character by character.
LEMMA UppercasedJoined ==
  ASSUME NEW codepage, NEW a, NEW b, NEW c, NEW d,
         IsUppercase(codepage, a, c), IsUppercase(codepage, b, d)
  PROVE  Uppercased(codepage, Joined(a, b)) = Joined(c, d)
<1> DEFINE j == Joined(a, b)
           k == Joined(c, d)
           U(x) == Upper(codepage, x)
           m == Len(a)
           n == Len(b)
<1>0. /\ a \in Seq(Int) /\ c \in Seq(Int) /\ Len(c) = Len(a)
      /\ \A i \in 1 .. Len(a) : Upper(codepage, a[i]) = c[i]
      /\ b \in Seq(Int) /\ d \in Seq(Int) /\ Len(d) = Len(b)
      /\ \A i \in 1 .. Len(b) : Upper(codepage, b[i]) = d[i]
  BY DEF IsUppercase
<1>1. m \in Nat /\ n \in Nat
  BY <1>0, LenProperties
<1>2. U(Dot) = Dot
  BY SMT DEF Upper, Dot
<1> HIDE DEF U
<1>3. b = << >> <=> d = << >>
  BY <1>0, EmptyIs, Zenon
<1>4. j \in Seq(Int) /\ k \in Seq(Int)
  BY <1>0, JoinedIs
<1>5. Len(k) = Len(j) /\ \A i \in 1 .. Len(j) : k[i] = U(j[i])
  <2>1. CASE b = << >>
    <3>1. j = a /\ k = c
      BY <1>0, <1>3, <2>1, JoinedIs
    <3> QED BY <1>0, <3>1 DEF U
  <2>2. CASE b # << >>
    <3>1. /\ Len(j) = (m + 1) + n
          /\ \A i \in 1 .. m : j[i] = a[i]
          /\ j[m + 1] = Dot
          /\ \A i \in 1 .. n : j[(m + 1) + i] = b[i]
      BY <1>0, <2>2, JoinedIs
    <3>2. /\ Len(k) = (m + 1) + n
          /\ \A i \in 1 .. m : k[i] = c[i]
          /\ k[m + 1] = Dot
          /\ \A i \in 1 .. n : k[(m + 1) + i] = d[i]
      <4>1. /\ Len(k) = (Len(c) + 1) + Len(d)
            /\ \A i \in 1 .. Len(c) : k[i] = c[i]
            /\ k[Len(c) + 1] = Dot
            /\ \A i \in 1 .. Len(d) : k[(Len(c) + 1) + i] = d[i]
        BY <1>0, <1>3, <2>2, JoinedIs
      <4> HIDE DEF k
      <4> QED BY <1>0, <4>1, Zenon
    <3>3. /\ \A i \in 1 .. m : U(a[i]) = c[i]
          /\ \A i \in 1 .. n : U(b[i]) = d[i]
      BY <1>0 DEF U
    <3> HIDE DEF j, k, m, n
    <3>4. ASSUME NEW i \in 1 .. Len(j) PROVE k[i] = U(j[i])
      <4>1. CASE i <= m
        <5>1. i \in 1 .. m
          BY <1>1, <3>1, <4>1, SMT
        <5> QED BY <3>1, <3>2, <3>3, <5>1
      <4>2. CASE i = m + 1
        BY <1>2, <3>1, <3>2, <4>2
      <4>3. CASE i > m + 1
        <5>1. i - (m + 1) \in 1 .. n /\ i = (m + 1) + (i - (m + 1))
          BY <1>1, <3>1, <4>3, SMT
        <5>2. PICK x \in 1 .. n : i = (m + 1) + x
          BY <5>1, Zenon
        <5>3. j[i] = b[x] /\ k[i] = d[x] /\ U(b[x]) = d[x]
          BY <3>1, <3>2, <3>3, <5>2
        <5> QED BY <5>3
      <4> QED BY <1>1, <3>1, <4>1, <4>2, <4>3, SMT
    <3> QED BY <3>1, <3>2, <3>4
  <2> QED BY <2>1, <2>2
<1>6. Uppercased(codepage, j) = [i \in 1 .. Len(j) |-> U(j[i])]
  BY <1>4, LenProperties DEF Uppercased, U
<1> HIDE DEF j, k
<1>7. k = [i \in 1 .. Len(k) |-> k[i]]
  BY <1>4, SMT
<1>8. [i \in 1 .. Len(k) |-> k[i]] = [i \in 1 .. Len(j) |-> U(j[i])]
  BY <1>5, Zenon
<1> QED BY <1>6, <1>7, <1>8 DEF j, k

\* What a name and its extension are can be told from the two joined.
LEMMA JoinedOnce ==
  ASSUME NEW a \in Seq(Int), NEW b \in Seq(Int), NEW c \in Seq(Int), NEW d \in Seq(Int),
         \A i \in 1 .. Len(a) : a[i] # Dot, \A i \in 1 .. Len(c) : c[i] # Dot,
         Joined(a, b) = Joined(c, d)
  PROVE  a = c /\ b = d
<1> DEFINE j == Joined(a, b)
           m == Len(a)
           n == Len(c)
           p == Len(b)
           q == Len(d)
<1>1. m \in Nat /\ n \in Nat /\ p \in Nat /\ q \in Nat
  BY LenProperties
<1>2. /\ b = << >> => j = a
      /\ b # << >> => /\ Len(j) = (m + 1) + p
                      /\ \A i \in 1 .. m : j[i] = a[i]
                      /\ j[m + 1] = Dot
                      /\ \A i \in 1 .. p : j[(m + 1) + i] = b[i]
  BY JoinedIs
<1>3. /\ d = << >> => j = c
      /\ d # << >> => /\ Len(j) = (n + 1) + q
                      /\ \A i \in 1 .. n : j[i] = c[i]
                      /\ j[n + 1] = Dot
                      /\ \A i \in 1 .. q : j[(n + 1) + i] = d[i]
  <2> DEFINE k == Joined(c, d)
  <2>1. /\ d = << >> => k = c
        /\ d # << >> => /\ Len(k) = (n + 1) + q
                        /\ \A i \in 1 .. n : k[i] = c[i]
                        /\ k[n + 1] = Dot
                        /\ \A i \in 1 .. q : k[(n + 1) + i] = d[i]
    BY JoinedIs
  <2>2. j = k
    OBVIOUS
  <2> HIDE DEF j, k
  <2> QED BY <2>1, <2>2, Zenon
<1>4. (\A i \in 1 .. m : a[i] # Dot) /\ (\A i \in 1 .. n : c[i] # Dot)
  OBVIOUS
<1>5. (j = a => Len(j) = m) /\ (j = c => Len(j) = n)
  OBVIOUS
<1> HIDE DEF j, m, n
<1>6. CASE b = << >> /\ d = << >>
  BY <1>2, <1>3, <1>6
<1>7. CASE b = << >> /\ d # << >>
  <2>1. j = a /\ m = (n + 1) + q /\ j[n + 1] = Dot
    BY <1>2, <1>3, <1>5, <1>7
  <2>2. n + 1 \in 1 .. m
    BY <1>1, <2>1, SMT
  <2> QED BY <1>4, <2>1, <2>2
<1>8. CASE b # << >> /\ d = << >>
  <2>1. j = c /\ n = (m + 1) + p /\ j[m + 1] = Dot
    BY <1>2, <1>3, <1>5, <1>8
  <2>2. m + 1 \in 1 .. n
    BY <1>1, <2>1, SMT
  <2> QED BY <1>4, <2>1, <2>2
<1>9. CASE b # << >> /\ d # << >>
  <2>1. m = n
    <3>1. ASSUME m < n PROVE FALSE
      <4>1. m + 1 \in 1 .. n
        BY <1>1, <3>1, SMT
      <4> QED BY <1>2, <1>3, <1>4, <1>9, <4>1, Zenon
    <3>2. ASSUME n < m PROVE FALSE
      <4>1. n + 1 \in 1 .. m
        BY <1>1, <3>2, SMT
      <4> QED BY <1>2, <1>3, <1>4, <1>9, <4>1, Zenon
    <3> QED BY <1>1, <3>1, <3>2, SMT
  <2>2. p = q
    BY <1>1, <1>2, <1>3, <1>9, <2>1, SMT
  <2>3. (\A i \in 1 .. m : a[i] = c[i]) /\ (\A i \in 1 .. p : b[i] = d[i])
    BY <1>2, <1>3, <1>9, <2>1, <2>2, Zenon
  <2> QED BY <2>1, <2>2, <2>3, SeqEqual, Zenon DEF m, n
<1> QED BY <1>6, <1>7, <1>8, <1>9

\* The letters of a text, its capitals, and those with sfn_lowercase in lower case
\* again.
LEMMA NameText ==
  ASSUME NEW codepage \in Codepages, NEW t \in Seq(NameBytes(codepage)), NEW lowercase \in BOOLEAN
  PROVE  LET u == Letters(codepage, t)
             k == Capitals(codepage, t)
             l == Cased(k, lowercase)
         IN  /\ t \in Seq(Int)
             /\ u \in Seq(Int) /\ Len(u) = Len(t) /\ \A i \in 1 .. Len(t) : u[i] # Dot
             /\ k \in Seq(Int) /\ Len(k) = Len(t) /\ \A i \in 1 .. Len(t) : k[i] # Space
             /\ l \in Seq(Int) /\ Len(l) = Len(t) /\ \A i \in 1 .. Len(t) : l[i] # Dot
             /\ \A i \in 1 .. Len(t) : Upper(codepage, t[i]) = u[i] /\ Upper(codepage, l[i]) = u[i]
<1> DEFINE n == Len(t)
           C(x) == Capital(codepage, x)
           L(x) == Letter(codepage, x)
           U(x) == Upper(codepage, x)
           low(x) == IF lowercase THEN Lower(x) ELSE x
           u == Letters(codepage, t)
           k == Capitals(codepage, t)
           l == Cased(k, lowercase)
<1>1. n \in Nat /\ DOMAIN t = 1 .. n /\ \A i \in 1 .. n : t[i] \in NameBytes(codepage)
  BY LenProperties, ElementOfSeq
<1>2. ASSUME NEW b \in NameBytes(codepage)
      PROVE  /\ C(b) \in Int /\ C(b) # Space
             /\ L(b) \in Int /\ L(b) # Dot
             /\ low(C(b)) \in Int /\ low(C(b)) # Dot
             /\ U(b) = L(b) /\ U(low(C(b))) = L(b)
  <2>1. /\ C(b) \in 33 .. 255 /\ C(b) \notin 97 .. 122 /\ C(b) # Dot
        /\ L(b) \in 33 .. 255 /\ L(b) # Dot
        /\ U(b) = L(b) /\ U(C(b)) = L(b) /\ U(Lower(C(b))) = L(b)
    BY FoldOnce
  <2> HIDE DEF C, L, U
  <2>2. \A x \in 33 .. 255 : x \in Int /\ x # Space
    BY SMT DEF Space
  <2>3. \A x \in 33 .. 255 : x \notin 97 .. 122 /\ x # Dot => Lower(x) \in Int /\ Lower(x) # Dot
    BY SMT DEF Lower, Dot
  <2>4. C(b) \in Int /\ C(b) # Space
    BY <2>1, <2>2, Zenon
  <2>5. L(b) \in Int
    BY <2>1, <2>2, Zenon
  <2>6. Lower(C(b)) \in Int /\ Lower(C(b)) # Dot
    BY <2>1, <2>3, Zenon
  <2> QED BY <2>1, <2>4, <2>5, <2>6
<1>3. u = [i \in 1 .. n |-> L(t[i])] /\ k = [i \in 1 .. n |-> C(t[i])]
  BY <1>1 DEF Letters, Capitals
<1> HIDE DEF C, L, U
<1>4. l = [i \in 1 .. n |-> low(C(t[i]))]
  BY <1>3 DEF Cased
<1> HIDE DEF u, k, l, low
<1>5. ASSUME NEW f, \A i \in 1 .. n : f[i] \in Int, f = [i \in 1 .. n |-> f[i]]
      PROVE  f \in Seq(Int) /\ Len(f) = n
  <2>1. f \in [1 .. n -> Int]
    BY <1>5
  <2> HIDE DEF n
  <2> QED BY <1>1, <2>1, SMT
<1>6. /\ \A i \in 1 .. n : u[i] = L(t[i]) /\ k[i] = C(t[i]) /\ l[i] = low(C(t[i]))
      /\ u = [i \in 1 .. n |-> u[i]] /\ k = [i \in 1 .. n |-> k[i]] /\ l = [i \in 1 .. n |-> l[i]]
  BY <1>3, <1>4
<1>7. /\ u \in Seq(Int) /\ Len(u) = n
      /\ k \in Seq(Int) /\ Len(k) = n
      /\ l \in Seq(Int) /\ Len(l) = n
  BY <1>1, <1>2, <1>5, <1>6
<1>8. t \in Seq(Int)
  <2>1. NameBytes(codepage) \subseteq Int
    BY BytesAreNumbers
  <2> QED BY <2>1, SMT
<1> QED BY <1>1, <1>2, <1>6, <1>7, <1>8 DEF u, k, l, U

\* Capitals in lower case are still those capitals.
LEMMA CasedOnce ==
  ASSUME NEW codepage \in Codepages, NEW lowercase \in BOOLEAN,
         NEW s \in Seq(NameBytes(codepage)), NEW t \in Seq(NameBytes(codepage)),
         Cased(Capitals(codepage, s), lowercase) = Cased(Capitals(codepage, t), lowercase)
  PROVE  Capitals(codepage, s) = Capitals(codepage, t)
<1> DEFINE j == Capitals(codepage, s)
           k == Capitals(codepage, t)
           low(x) == IF lowercase THEN Lower(x) ELSE x
<1>1. /\ DOMAIN s = 1 .. Len(s) /\ \A i \in 1 .. Len(s) : s[i] \in NameBytes(codepage)
      /\ DOMAIN t = 1 .. Len(t) /\ \A i \in 1 .. Len(t) : t[i] \in NameBytes(codepage)
  BY LenProperties, ElementOfSeq
<1>2. /\ j \in Seq(Int) /\ Len(j) = Len(s) /\ \A i \in 1 .. Len(s) : j[i] = Capital(codepage, s[i])
      /\ k \in Seq(Int) /\ Len(k) = Len(t) /\ \A i \in 1 .. Len(t) : k[i] = Capital(codepage, t[i])
  <2>1. j \in Seq(Int) /\ Len(j) = Len(s) /\ k \in Seq(Int) /\ Len(k) = Len(t)
    BY NameText
  <2>2. /\ j = [i \in 1 .. Len(s) |-> Capital(codepage, s[i])]
        /\ k = [i \in 1 .. Len(t) |-> Capital(codepage, t[i])]
    BY <1>1 DEF Capitals
  <2> HIDE DEF j, k
  <2> QED BY <2>1, <2>2
<1>3. \A b \in NameBytes(codepage) : Capital(codepage, b) \in Int /\ Capital(codepage, b) \notin 97 .. 122
  <2>1. TAKE b \in NameBytes(codepage)
  <2> DEFINE c == Capital(codepage, b)
             l == Letter(codepage, b)
  <2>2. /\ c \in 33 .. 255 /\ c \notin 97 .. 122 /\ c # Dot
        /\ l \in 33 .. 255 /\ l # Dot
        /\ Upper(codepage, b) = l /\ Upper(codepage, c) = l
        /\ Upper(codepage, Lower(c)) = l
    BY FoldOnce
  <2> HIDE DEF c
  <2>3. c \in Int
    BY <2>2, SMT
  <2> QED BY <2>2, <2>3 DEF c
<1>4. \A x, y \in Int : x \notin 97 .. 122 /\ y \notin 97 .. 122 /\ low(x) = low(y) => x = y
  BY SMT DEF Lower
<1> HIDE DEF j, k, low
<1>5. [i \in DOMAIN j |-> low(j[i])] = [i \in DOMAIN k |-> low(k[i])]
  BY DEF Cased, j, k, low
<1>6. DOMAIN j = 1 .. Len(j) /\ DOMAIN k = 1 .. Len(k) /\ Len(j) \in Nat /\ Len(k) \in Nat
  BY <1>2, LenProperties
<1>7. DOMAIN j = DOMAIN k /\ \A i \in DOMAIN j : low(j[i]) = low(k[i])
  BY <1>5
<1>8. Len(j) = Len(k)
  <2>1. ASSUME NEW m \in Nat, NEW n \in Nat, 1 .. m = 1 .. n PROVE m = n
    BY <2>1, SMT
  <2> QED BY <1>6, <1>7, <2>1
<1>9. ASSUME NEW i \in 1 .. Len(j) PROVE j[i] = k[i]
  <2>1. low(j[i]) = low(k[i])
    BY <1>6, <1>7
  <2>2. /\ j[i] \in Int /\ j[i] \notin 97 .. 122
        /\ k[i] \in Int /\ k[i] \notin 97 .. 122
    <3>1. i \in 1 .. Len(s) /\ i \in 1 .. Len(t)
      BY <1>2, <1>8
    <3>2. s[i] \in NameBytes(codepage) /\ t[i] \in NameBytes(codepage)
      BY <1>1, <3>1
    <3>3. j[i] = Capital(codepage, s[i]) /\ k[i] = Capital(codepage, t[i])
      BY <1>2, <3>1
    <3> QED BY <1>3, <3>2, <3>3
  <2> QED BY <1>4, <2>1, <2>2
<1> QED BY <1>2, <1>8, <1>9, SeqEqual, Zenon DEF j, k

\* The name of one entry finds another exactly if they have the same letters, and
\* at least if they are the same; their names are different if they are.
FoundAlike(codepage, lowercase, v, w) ==
  LET options  == [caseSensitive |-> FALSE, codepage |-> codepage]
      same     == Stored(codepage, v) = Stored(codepage, w)
      filename == SfnFilename(Stored(codepage, w), lowercase)
      found    == MatchesName(options, Typed(v), filename)
  IN  /\ same => found
      /\ found <=> SameLetters(codepage, v, w)
      /\ filename = SfnFilename(Stored(codepage, v), lowercase) <=> same

\* In every codepage a file is found under every name that differs in case only
\* from the one it was given, and under no other but one that differs in an accent
\* of Unaccented as well, with sfn_lowercase or without, and different entries have
\* different names: for all names of bytes the tables fold (fat.c:788-809,
\* 1368-1386, with the tables of codepage.h).
THEOREM ShortNameFound ==
  ASSUME NEW codepage \in Codepages, NEW lowercase \in BOOLEAN,
         NEW v, NEW w, IsShortName(codepage, v), IsShortName(codepage, w)
  PROVE  FoundAlike(codepage, lowercase, v, w)
<1> DEFINE options == [caseSensitive |-> FALSE, codepage |-> codepage]
           U(t)    == Uppercased(codepage, t)
           L(t)    == Letters(codepage, t)
           C(t)    == Capitals(codepage, t)
           D(t)    == Cased(C(t), lowercase)
           name(x) == SfnFilename(Stored(codepage, x), lowercase)
<1>1. ASSUME NEW x, IsShortName(codepage, x)
      PROVE  LET s == x.stem
                 e == x.extension
             IN  /\ s \in Seq(NameBytes(codepage)) /\ e \in Seq(NameBytes(codepage))
                 /\ Stored(codepage, x) = [name |-> Padded(C(s), 8), extension |-> Padded(C(e), 3)]
                 /\ BeforeSpace(Padded(C(s), 8)) = C(s) /\ BeforeSpace(Padded(C(e), 3)) = C(e)
                 /\ L(s) \in Seq(Int) /\ L(e) \in Seq(Int)
                 /\ \A i \in 1 .. Len(L(s)) : L(s)[i] # Dot
                 /\ D(s) \in Seq(Int) /\ D(e) \in Seq(Int)
                 /\ \A i \in 1 .. Len(D(s)) : D(s)[i] # Dot
                 /\ name(x) = Joined(D(s), D(e))
                 /\ U(name(x)) = Joined(L(s), L(e))
                 /\ U(Typed(x)) = Joined(L(s), L(e))
  <2> DEFINE s == x.stem
             e == x.extension
             a == L(s)
             b == L(e)
             f == C(s)
             g == C(e)
             l == D(s)
             k == D(e)
  <2>1. /\ s \in Seq(NameBytes(codepage)) /\ Len(s) <= 8
        /\ e \in Seq(NameBytes(codepage)) /\ Len(e) <= 3
    BY <1>1 DEF IsShortName
  <2>2. Stored(codepage, x) = [name |-> Padded(f, 8), extension |-> Padded(g, 3)]
    BY DEF Stored, s, e
  <2> HIDE DEF s, e
  <2>3. /\ s \in Seq(Int)
        /\ a \in Seq(Int) /\ Len(a) = Len(s) /\ \A i \in 1 .. Len(s) : a[i] # Dot
        /\ f \in Seq(Int) /\ Len(f) = Len(s) /\ \A i \in 1 .. Len(s) : f[i] # Space
        /\ l \in Seq(Int) /\ Len(l) = Len(s) /\ \A i \in 1 .. Len(s) : l[i] # Dot
        /\ \A i \in 1 .. Len(s) : Upper(codepage, s[i]) = a[i] /\ Upper(codepage, l[i]) = a[i]
    BY <2>1, NameText
  <2>4. /\ e \in Seq(Int)
        /\ b \in Seq(Int) /\ Len(b) = Len(e) /\ \A i \in 1 .. Len(e) : b[i] # Dot
        /\ g \in Seq(Int) /\ Len(g) = Len(e) /\ \A i \in 1 .. Len(e) : g[i] # Space
        /\ k \in Seq(Int) /\ Len(k) = Len(e) /\ \A i \in 1 .. Len(e) : k[i] # Dot
        /\ \A i \in 1 .. Len(e) : Upper(codepage, e[i]) = b[i] /\ Upper(codepage, k[i]) = b[i]
    BY <2>1, NameText
  <2>5. l = Cased(f, lowercase) /\ k = Cased(g, lowercase)
    OBVIOUS
  <2> HIDE DEF a, b, f, g, l, k
  <2>6. BeforeSpace(Padded(f, 8)) = f /\ BeforeSpace(Padded(g, 3)) = g
    BY <2>1, <2>3, <2>4, BeforePadding
  <2>7. Padded(g, 3)[1] = Space <=> g = << >>
    <3>1. g = << >> <=> Len(g) = 0
      BY <2>4, EmptyIs
    <3>2. Padded(g, 3)[1] = IF 1 <= Len(g) THEN g[1] ELSE Space
      BY SMT DEF Padded
    <3>3. Len(g) \in Nat /\ (1 <= Len(g) => g[1] # Space)
      BY <2>4, LenProperties, SMT
    <3> QED BY <3>1, <3>2, <3>3, SMT
  <2>8. k = << >> <=> g = << >>
    BY <2>4, EmptyIs, Zenon
  <2>9. name(x) = Joined(l, k)
    <3> DEFINE entry == Stored(codepage, x)
    <3>1. entry.name = Padded(f, 8) /\ entry.extension = Padded(g, 3)
      BY <2>2
    <3> HIDE DEF entry
    <3>2. SfnFilename(entry, lowercase) = Joined(l, k)
      BY <2>5, <2>6, <2>7, <2>8, <3>1, Zenon DEF SfnFilename, Joined
    <3> QED BY <3>2 DEF entry
  <2>10. Typed(x) = Joined(s, e)
    BY Zenon DEF Typed, Joined, s, e
  <2>11. U(Joined(l, k)) = Joined(a, b) /\ U(Joined(s, e)) = Joined(a, b)
    <3>1. IsUppercase(codepage, s, a) /\ IsUppercase(codepage, l, a)
      BY <2>3 DEF IsUppercase
    <3>2. IsUppercase(codepage, e, b) /\ IsUppercase(codepage, k, b)
      BY <2>4 DEF IsUppercase
    <3>3. U(Joined(l, k)) = Joined(a, b)
      BY <3>1, <3>2, UppercasedJoined
    <3>4. U(Joined(s, e)) = Joined(a, b)
      BY <3>1, <3>2, UppercasedJoined
    <3> QED BY <3>3, <3>4
  <2>12. (\A i \in 1 .. Len(a) : a[i] # Dot) /\ (\A i \in 1 .. Len(l) : l[i] # Dot)
    BY <2>3
  <2> HIDE DEF U, name
  <2> QED BY <2>1, <2>2, <2>3, <2>4, <2>6, <2>9, <2>10, <2>11, <2>12 DEF a, b, f, g, l, k, s, e
<1> DEFINE s == v.stem
           e == v.extension
           t == w.stem
           f == w.extension
           same == Stored(codepage, v) = Stored(codepage, w)
<1>2. /\ s \in Seq(NameBytes(codepage)) /\ e \in Seq(NameBytes(codepage))
      /\ Stored(codepage, v) = [name |-> Padded(C(s), 8), extension |-> Padded(C(e), 3)]
      /\ BeforeSpace(Padded(C(s), 8)) = C(s) /\ BeforeSpace(Padded(C(e), 3)) = C(e)
      /\ L(s) \in Seq(Int) /\ L(e) \in Seq(Int)
      /\ \A i \in 1 .. Len(L(s)) : L(s)[i] # Dot
      /\ D(s) \in Seq(Int) /\ D(e) \in Seq(Int)
      /\ \A i \in 1 .. Len(D(s)) : D(s)[i] # Dot
      /\ name(v) = Joined(D(s), D(e))
      /\ U(name(v)) = Joined(L(s), L(e))
      /\ U(Typed(v)) = Joined(L(s), L(e))
  BY <1>1
<1>3. /\ t \in Seq(NameBytes(codepage)) /\ f \in Seq(NameBytes(codepage))
      /\ Stored(codepage, w) = [name |-> Padded(C(t), 8), extension |-> Padded(C(f), 3)]
      /\ BeforeSpace(Padded(C(t), 8)) = C(t) /\ BeforeSpace(Padded(C(f), 3)) = C(f)
      /\ L(t) \in Seq(Int) /\ L(f) \in Seq(Int)
      /\ \A i \in 1 .. Len(L(t)) : L(t)[i] # Dot
      /\ D(t) \in Seq(Int) /\ D(f) \in Seq(Int)
      /\ \A i \in 1 .. Len(D(t)) : D(t)[i] # Dot
      /\ name(w) = Joined(D(t), D(f))
      /\ U(name(w)) = Joined(L(t), L(f))
      /\ U(Typed(w)) = Joined(L(t), L(f))
  BY <1>1
<1>4. MatchesName(options, Typed(v), name(w)) <=> U(Typed(v)) = U(name(w))
  BY DEF MatchesName
<1>5. same => name(v) = name(w)
  OBVIOUS
<1>6. SameLetters(codepage, v, w) <=> L(s) = L(t) /\ L(e) = L(f)
  BY DEF SameLetters
<1>7. (D(s) = D(t) => C(s) = C(t)) /\ (D(e) = D(f) => C(e) = C(f))
  BY <1>2, <1>3, CasedOnce
<1> HIDE DEF U, L, C, D, name, s, e, t, f, options
<1>8. C(s) = C(t) /\ C(e) = C(f) => same
  BY <1>2, <1>3
<1>9. Joined(L(s), L(e)) = Joined(L(t), L(f)) <=> L(s) = L(t) /\ L(e) = L(f)
  <2>1. /\ L(s) \in Seq(Int) /\ L(e) \in Seq(Int) /\ L(t) \in Seq(Int) /\ L(f) \in Seq(Int)
        /\ \A i \in 1 .. Len(L(s)) : L(s)[i] # Dot
        /\ \A i \in 1 .. Len(L(t)) : L(t)[i] # Dot
    BY <1>2, <1>3
  <2> QED BY <2>1, JoinedOnce
<1>10. name(v) = name(w) => D(s) = D(t) /\ D(e) = D(f)
  <2>1. /\ D(s) \in Seq(Int) /\ D(e) \in Seq(Int) /\ D(t) \in Seq(Int) /\ D(f) \in Seq(Int)
        /\ \A i \in 1 .. Len(D(s)) : D(s)[i] # Dot
        /\ \A i \in 1 .. Len(D(t)) : D(t)[i] # Dot
    BY <1>2, <1>3
  <2>2. name(v) = name(w) => Joined(D(s), D(e)) = Joined(D(t), D(f))
    BY <1>2, <1>3
  <2> QED BY <2>1, <2>2, JoinedOnce
<1>11. same <=> name(v) = name(w)
  BY <1>5, <1>7, <1>8, <1>10
<1>12. MatchesName(options, Typed(v), name(w)) <=> SameLetters(codepage, v, w)
  BY <1>2, <1>3, <1>4, <1>6, <1>9
<1>13. same => MatchesName(options, Typed(v), name(w))
  BY <1>2, <1>4, <1>11
<1> QED BY <1>11, <1>12, <1>13 DEF options, name, FoundAlike

\* The names of the run are of the bytes the theorem is about.
LEMMA RunNames ==
  ASSUME NEW codepage \in Codepages, NEW byte \in ShortBytes \ Misfolded(codepage),
         NEW inName \in BOOLEAN
  PROVE  IsShortName(codepage, Written(byte, inName))
<1> DEFINE S == NameBytes(codepage)
           w == Written(byte, inName)
<1>1. 97 \in S
  <2>1. 97 \notin Misfolded(codepage)
    BY SMT DEF Misfolded
  <2> QED BY <2>1, SMT DEF NameBytes, Dot
<1>2. byte \in S
  BY SMT DEF NameBytes, ShortBytes, Dot
<1> HIDE DEF S
<1>3. /\ <<97, byte>> \in Seq(S) /\ Len(<<97, byte>>) <= 8
      /\ <<97>> \in Seq(S) /\ Len(<<97>>) <= 8
      /\ <<byte>> \in Seq(S) /\ Len(<<byte>>) <= 3
      /\ << >> \in Seq(S) /\ Len(<< >>) <= 3
  BY <1>1, <1>2, SMT
<1>4. CASE inName
  <2>1. w.stem = <<97, byte>> /\ w.extension = << >>
    BY <1>4 DEF Written
  <2> QED BY <1>3, <2>1 DEF IsShortName, S
<1>5. CASE ~inName
  <2>1. w.stem = <<97>> /\ w.extension = <<byte>>
    BY <1>5 DEF Written
  <2> QED BY <1>3, <2>1 DEF IsShortName, S
<1> QED BY <1>4, <1>5

\* The short names of the run.
ShortPart ==
  input.kind = "short name" =>
    \E codepage \in Codepages, inName \in BOOLEAN :
      \E byte \in ShortBytes \ Misfolded(codepage) :
        input = [kind |-> "short name", codepage |-> codepage, byte |-> byte, inName |-> inName]

LEMMA ShortNamesMade == Spec => []ShortPart
<1>1. Init => ShortPart
  <2>1. Init => input.kind = "none"
    BY DEF Init, NoInput
  <2> QED BY <2>1 DEF ShortPart
<1>2. ASSUME ShortPart, [Next]_input PROVE ShortPart'
  <2>1. CASE UNCHANGED input
    BY <1>2, <2>1 DEF ShortPart
  <2>2. CASE Return
    BY <2>2 DEF Return, NoInput, ShortPart
  <2>3. CASE Convert
    BY <2>3, MadeByKind, Zenon DEF ShortPart, ConvertShortName
  <2> QED BY <1>2, <2>1, <2>2, <2>3 DEF Next
<1> QED BY <1>1, <1>2, PTL DEF Spec

\* Every short name of the run is found under the names that differ from it in
\* case only, and under others only for an accent (fat.c:788-809, 1368-1386).
THEOREM ShortNamesAlwaysFound == Spec => []ShortNamesFound
<1>1. ASSUME ShortPart PROVE ShortNamesFound
  <2> SUFFICES ASSUME input.kind = "short name"
               PROVE  ShortNamesFound
    BY DEF ShortNamesFound
  <2>1. PICK codepage \in Codepages, inName \in BOOLEAN :
          \E byte \in ShortBytes \ Misfolded(codepage) :
            input = [kind |-> "short name", codepage |-> codepage, byte |-> byte, inName |-> inName]
    BY <1>1 DEF ShortPart
  <2>2. PICK byte \in ShortBytes \ Misfolded(codepage) :
          input = [kind |-> "short name", codepage |-> codepage, byte |-> byte, inName |-> inName]
    BY <2>1
  <2>3. input.codepage = codepage /\ input.byte = byte /\ input.inName = inName
    BY <2>2
  <2>4. \A lowercase \in BOOLEAN, b \in ShortBytes \ Misfolded(codepage) :
          FoundAlike(codepage, lowercase, Written(b, inName), Written(byte, inName))
    BY RunNames, ShortNameFound
  <2> QED BY <2>3, <2>4, Zenon DEF ShortNamesFound, FoundAlike
<1> QED BY <1>1, ShortNamesMade, PTL

-----------------------------------------------------------------------------
\* Recursive functions: where each value is made of one before, there is such a
\* function, and the one the definition chooses has its values.

\* From the value at 0 on, each from the one before.
HasValues(n, V, base, step) ==
  \E g \in [0 .. n -> V] : g[0] = base /\ \A k \in 1 .. n : g[k] = step[k][g[k - 1]]

LEMMA StepByStep ==
  ASSUME NEW n \in Nat, NEW V, NEW base \in V, NEW step \in [1 .. n -> [V -> V]]
  PROVE  HasValues(n, V, base, step)
<1> DEFINE Solved(m) == m <= n => \E g \in [0 .. m -> V] :
                          g[0] = base /\ \A k \in 1 .. m : g[k] = step[k][g[k - 1]]
           T == {m \in Nat : Solved(m)}
<1>1. Solved(0)
  <2> DEFINE g == [k \in 0 .. 0 |-> base]
  <2>1. g \in [0 .. 0 -> V] /\ g[0] = base
    OBVIOUS
  <2>2. 1 .. 0 = {}
    BY SMT
  <2> QED BY <2>1, <2>2
<1>2. ASSUME NEW m \in Nat, Solved(m) PROVE Solved(m + 1)
  <2> SUFFICES ASSUME m + 1 <= n
               PROVE  \E h \in [0 .. m + 1 -> V] :
                        h[0] = base /\ \A k \in 1 .. m + 1 : h[k] = step[k][h[k - 1]]
    OBVIOUS
  <2>1. PICK g \in [0 .. m -> V] : g[0] = base /\ \A k \in 1 .. m : g[k] = step[k][g[k - 1]]
    BY <1>2, SMT
  <2> DEFINE h == [k \in 0 .. m + 1 |-> IF k = m + 1 THEN step[m + 1][g[m]] ELSE g[k]]
  <2>2. m + 1 \in 1 .. n /\ m \in 0 .. m
    BY SMT
  <2>3. step[m + 1] \in [V -> V]
    BY <2>2
  <2>4. step[m + 1][g[m]] \in V
    BY <2>1, <2>2, <2>3
  <2>5. h \in [0 .. m + 1 -> V]
    BY <2>1, <2>4, SMT
  <2>6. h[0] = base
    BY <2>1, SMT
  <2>7. ASSUME NEW k \in 1 .. m + 1 PROVE h[k] = step[k][h[k - 1]]
    <3>1. k - 1 \in 0 .. m /\ h[k - 1] = g[k - 1]
      BY SMT
    <3>2. k \in 0 .. m + 1 /\ (k # m + 1 => k \in 1 .. m)
      BY SMT
    <3> QED BY <2>1, <3>1, <3>2, SMT
  <2> QED BY <2>5, <2>6, <2>7
<1> HIDE DEF Solved
<1>3. T = Nat
  <2>1. T \in SUBSET Nat /\ 0 \in T /\ \A m \in T : m + 1 \in T
    BY <1>1, <1>2
  <2> HIDE DEF T
  <2> QED BY <2>1, SetInduction
<1>4. Solved(n) /\ n <= n
  BY <1>3
<1> QED BY <1>4 DEF Solved, HasValues

\* From the last one down, each from one above it.
HasValuesDown(low, n, top, V, base, step, next) ==
  \E g \in [low .. top -> V] :
    \A k \in low .. top : g[k] = IF k >= n THEN base ELSE step[k][g[next[k]]]

LEMMA StepByStepDown ==
  ASSUME NEW low \in Nat, NEW n \in Nat, NEW top \in Nat, low <= n, n <= top + 1,
         NEW V, NEW base \in V, NEW step \in [low .. n - 1 -> [V -> V]],
         NEW next \in [low .. n - 1 -> low .. top], \A k \in low .. n - 1 : k < next[k]
  PROVE  HasValuesDown(low, n, top, V, base, step, next)
<1> DEFINE Solved(m) == m <= n - low => \E g \in [n - m .. top -> V] :
                          \A k \in n - m .. top :
                            g[k] = IF k >= n THEN base ELSE step[k][g[next[k]]]
           T == {m \in Nat : Solved(m)}
<1>1. Solved(0)
  <2> DEFINE g == [k \in n - 0 .. top |-> base]
  <2>1. g \in [n - 0 .. top -> V]
    OBVIOUS
  <2>2. \A k \in n - 0 .. top : g[k] = base /\ k >= n
    BY SMT
  <2> QED BY <2>1, <2>2
<1>2. ASSUME NEW m \in Nat, Solved(m) PROVE Solved(m + 1)
  <2> DEFINE p == n - (m + 1)
  <2> SUFFICES ASSUME m + 1 <= n - low
               PROVE  \E h \in [p .. top -> V] :
                        \A k \in p .. top :
                          h[k] = IF k >= n THEN base ELSE step[k][h[next[k]]]
    OBVIOUS
  <2>1. p \in low .. n - 1 /\ n - m = p + 1
    BY SMT
  <2>2. PICK g \in [p + 1 .. top -> V] : \A k \in p + 1 .. top :
                            g[k] = IF k >= n THEN base ELSE step[k][g[next[k]]]
    BY <1>2, <2>1, SMT
  <2> HIDE DEF p
  <2> DEFINE h == [k \in p .. top |-> IF k = p THEN step[p][g[next[p]]] ELSE g[k]]
  <2>3. next[p] \in p + 1 .. top /\ step[p] \in [V -> V]
    BY <2>1, SMT
  <2>4. step[p][g[next[p]]] \in V
    BY <2>2, <2>3
  <2>5. h \in [p .. top -> V]
    BY <2>1, <2>2, <2>4, SMT
  <2>6. ASSUME NEW k \in p .. top
        PROVE  h[k] = IF k >= n THEN base ELSE step[k][h[next[k]]]
    <3>1. CASE k = p
      <4>1. ~(k >= n)
        BY <2>1, <3>1, SMT
      <4>2. h[next[k]] = g[next[k]]
        BY <2>1, <2>3, <3>1, SMT
      <4>3. h[k] = step[p][g[next[p]]]
        BY <3>1
      <4> HIDE DEF h
      <4> QED BY <3>1, <4>1, <4>2, <4>3
    <3>2. CASE k # p
      <4>1. k \in p + 1 .. top
        BY <2>1, <3>2, SMT
      <4>2. CASE k >= n
        <5>1. h[k] = g[k]
          BY <3>2
        <5> QED BY <2>2, <4>1, <4>2, <5>1
      <4>3. CASE ~(k >= n)
        <5>1. k \in low .. n - 1
          BY <2>1, <4>1, <4>3, SMT
        <5>2. next[k] \in low .. top /\ k < next[k]
          BY <5>1
        <5>3. next[k] \in p .. top /\ next[k] # p
          BY <2>1, <4>1, <5>2, SMT
        <5>4. h[next[k]] = g[next[k]] /\ h[k] = g[k]
          BY <3>2, <5>3
        <5> QED BY <2>2, <4>1, <4>3, <5>4
      <4> QED BY <4>2, <4>3
    <3> QED BY <3>1, <3>2
  <2> QED BY <2>5, <2>6
<1> HIDE DEF Solved
<1>3. T = Nat
  <2>1. T \in SUBSET Nat /\ 0 \in T /\ \A m \in T : m + 1 \in T
    BY <1>1, <1>2
  <2> HIDE DEF T
  <2> QED BY <2>1, SetInduction
<1>4. Solved(n - low)
  <2>1. n - low \in Nat
    BY SMT
  <2> QED BY <1>3, <2>1
<1>5. n - (n - low) = low /\ n - low <= n - low
  BY SMT
<1> QED BY <1>4, <1>5 DEF Solved, HasValuesDown

\* A fold from the left: the values of the sets of its places, each from the one
\* without the last place.
HasFold(n, V, base, step) ==
  \E g \in [SUBSET (1 .. n) -> V] :
    \A s \in SUBSET (1 .. n) :
      g[s] = IF s = {} THEN base ELSE step[Max(s)][g[s \ {Max(s)}]]

LEMMA FoldSolved ==
  ASSUME NEW n \in Nat, NEW V, NEW base \in V, NEW step \in [1 .. n -> [V -> V]]
  PROVE  HasFold(n, V, base, step)
<1> DEFINE Solved(m) == m <= n => \E g \in [SUBSET (1 .. m) -> V] :
                          \A s \in SUBSET (1 .. m) :
                            g[s] = IF s = {} THEN base ELSE step[Max(s)][g[s \ {Max(s)}]]
           T == {m \in Nat : Solved(m)}
<1>1. Solved(0)
  <2> DEFINE g == [s \in SUBSET (1 .. 0) |-> base]
  <2>1. g \in [SUBSET (1 .. 0) -> V]
    OBVIOUS
  <2>2. 1 .. 0 = {}
    BY SMT
  <2>3. \A s \in SUBSET (1 .. 0) : g[s] = base /\ s = {}
    BY <2>2
  <2> QED BY <2>1, <2>3
<1>2. ASSUME NEW m \in Nat, Solved(m) PROVE Solved(m + 1)
  <2> SUFFICES ASSUME m + 1 <= n
               PROVE  \E h \in [SUBSET (1 .. m + 1) -> V] :
                        \A s \in SUBSET (1 .. m + 1) :
                          h[s] = IF s = {} THEN base ELSE step[Max(s)][h[s \ {Max(s)}]]
    OBVIOUS
  <2>1. PICK g \in [SUBSET (1 .. m) -> V] : \A s \in SUBSET (1 .. m) :
               g[s] = IF s = {} THEN base ELSE step[Max(s)][g[s \ {Max(s)}]]
    <3>1. m <= n
      BY SMT
    <3> QED BY <1>2, <3>1, Zenon
  <2> DEFINE h == [s \in SUBSET (1 .. m + 1) |->
                     IF m + 1 \in s THEN step[m + 1][g[s \ {m + 1}]] ELSE g[s]]
  <2>2. m + 1 \in 1 .. n /\ step[m + 1] \in [V -> V]
    BY SMT
  <2>3. \A s \in SUBSET (1 .. m + 1) : s \ {m + 1} \in SUBSET (1 .. m)
    BY SMT
  <2>4. \A s \in SUBSET (1 .. m + 1) : m + 1 \notin s => s \in SUBSET (1 .. m)
    BY SMT
  <2>5. h \in [SUBSET (1 .. m + 1) -> V]
    BY <2>1, <2>2, <2>3, <2>4
  <2>6. ASSUME NEW s \in SUBSET (1 .. m + 1)
        PROVE  h[s] = IF s = {} THEN base ELSE step[Max(s)][h[s \ {Max(s)}]]
    <3>1. CASE m + 1 \in s
      <4>1. Max(s) = m + 1
        <5>1. \A i \in s : i \in Int /\ i <= m + 1
          BY SMT
        <5> QED BY <3>1, <5>1, MaxIs
      <4>2. h[s \ {m + 1}] = g[s \ {m + 1}]
        BY SMT
      <4> QED BY <3>1, <4>1, <4>2
    <3>2. CASE m + 1 \notin s
      <4>1. s \in SUBSET (1 .. m) /\ h[s] = g[s]
        BY <2>4, <3>2
      <4>2. h[s \ {Max(s)}] = g[s \ {Max(s)}]
        BY <4>1, <3>2
      <4> QED BY <2>1, <4>1, <4>2
    <3> QED BY <3>1, <3>2
  <2> QED BY <2>5, <2>6
<1> HIDE DEF Solved
<1>3. T = Nat
  <2>1. T \in SUBSET Nat /\ 0 \in T /\ \A m \in T : m + 1 \in T
    BY <1>1, <1>2
  <2> HIDE DEF T
  <2> QED BY <2>1, SetInduction
<1>4. Solved(n) /\ n <= n
  BY <1>3
<1> QED BY <1>4 DEF Solved, HasFold

-----------------------------------------------------------------------------
\* Long names.

\* The buffer of a long name, one entry after the other.
LEMMA UnitsOfSteps ==
  ASSUME NEW entries, Len(entries) \in Nat
  PROVE  \E f : /\ f[0] = [i \in 0 .. LfnBuflen - 1 |-> Undef]
                /\ \A k \in 1 .. Len(entries) : f[k] = WithFragment(f[k - 1], entries[k])
                /\ UnitsOf(entries) = f[Len(entries)]
<1> DEFINE n == Len(entries)
           D == 0 .. LfnBuflen - 1
           base == [i \in D |-> Undef]
           W == {Undef, 0} \cup {entries[k].units[i] : k \in 1 .. n, i \in Int}
           V == [D -> W]
           step == [k \in 1 .. n |-> [b \in V |-> WithFragment(b, entries[k])]]
           IsAfter(f) == f = [k \in 0 .. n |-> IF k = 0 THEN base
                                               ELSE WithFragment(f[k - 1], entries[k])]
<1>1. base \in V
  OBVIOUS
<1>2. ASSUME NEW k \in 1 .. n, NEW b \in V PROVE WithFragment(b, entries[k]) \in V
  <2> DEFINE at == (entries[k].sequence - 1) * FragmentLength
  <2>1. ASSUME NEW i \in D
        PROVE  (IF i - at \in 0 .. FragmentLength - 1 THEN entries[k].units[i - at + 1]
                ELSE IF i = at + FragmentLength /\ entries[k].last THEN 0 ELSE b[i]) \in W
    <3>1. i - at \in 0 .. FragmentLength - 1 => i - at + 1 \in Int
      BY SMT
    <3>2. b[i] \in W /\ 0 \in W
      OBVIOUS
    <3> QED BY <3>1, <3>2
  <2>2. DOMAIN b = D
    OBVIOUS
  <2> QED BY <2>1, <2>2 DEF WithFragment
<1>3. step \in [1 .. n -> [V -> V]]
  BY <1>2
<1>4. PICK g \in [0 .. n -> V] : g[0] = base /\ \A k \in 1 .. n : g[k] = step[k][g[k - 1]]
  <2>1. n \in Nat
    OBVIOUS
  <2> HIDE DEF n, base, V, step
  <2>2. HasValues(n, V, base, step)
    BY <1>1, <1>3, <2>1, StepByStep
  <2> QED BY <2>2 DEF HasValues
<1>5. IsAfter(g)
  <2>1. ASSUME NEW k \in 1 .. n PROVE g[k] = WithFragment(g[k - 1], entries[k])
    <3> HIDE DEF V
    <3>1. k - 1 \in 0 .. n /\ g[k - 1] \in V
      BY SMT
    <3>2. g[k] = step[k][g[k - 1]]
      BY <1>4
    <3> QED BY <3>1, <3>2
  <2> HIDE DEF step, base, V
  <2>2. ASSUME NEW k \in 0 .. n
        PROVE  g[k] = IF k = 0 THEN base ELSE WithFragment(g[k - 1], entries[k])
    <3>1. k = 0 \/ k \in 1 .. n
      BY SMT
    <3> QED BY <1>4, <2>1, <3>1
  <2> QED BY <1>4, <2>2
<1> DEFINE f == CHOOSE h : IsAfter(h)
<1>6. IsAfter(f)
  <2> HIDE DEF IsAfter
  <2> QED BY <1>5
<1>7. UnitsOf(entries) = f[n]
  BY DEF UnitsOf
<1> HIDE DEF f, base
<1>8. f[0] = base /\ \A k \in 1 .. n : f[k] = WithFragment(f[k - 1], entries[k])
  <2>1. 0 \in 0 .. n /\ \A k \in 1 .. n : k \in 0 .. n /\ k # 0
    BY SMT
  <2> QED BY <1>6, <2>1
<1> QED BY <1>7, <1>8 DEF base

\* The entries of a name, the last fragment first.
AreFragments(name, count, entries) ==
  \A k \in 1 .. count :
    /\ entries[k].sequence = count + 1 - k
    /\ entries[k].last = (k = 1)
    /\ \A j \in 1 .. 13 :
         LET i == ((count - k) * 13) + j
         IN  entries[k].units[j]
               = IF i <= Len(name) THEN name[i] ELSE IF i = Len(name) + 1 THEN 0 ELSE 65535

LEMMA EntriesAre ==
  ASSUME NEW name, Len(name) \in Nat
  PROVE  LET count == CeilDiv(Len(name), FragmentLength) IN
         /\ count \in Nat /\ (count - 1) * FragmentLength < Len(name)
         /\ Len(name) <= count * FragmentLength
         /\ Len(EntriesOf(name)) = count
         /\ EntriesOf(name) = [k \in 1 .. count |-> EntriesOf(name)[k]]
         /\ AreFragments(name, count, EntriesOf(name))
<1> DEFINE count == CeilDiv(Len(name), FragmentLength)
           unit(i) == IF i <= Len(name) THEN name[i] ELSE IF i = Len(name) + 1 THEN 0 ELSE 65535
<1>1. /\ count \in Nat /\ (count - 1) * FragmentLength < Len(name)
      /\ Len(name) <= count * FragmentLength
  BY SMT DEF CeilDiv, FragmentLength
<1> HIDE DEF count
<1>2. EntriesOf(name) =
        [k \in 1 .. count |->
           [sequence |-> count + 1 - k, last |-> k = 1,
            units |-> [j \in 1 .. FragmentLength |->
                         unit(((count - k) * FragmentLength) + j)]]]
  BY DEF EntriesOf, count
<1>3. Len(EntriesOf(name)) = count
  BY <1>1, <1>2, SMT
<1> HIDE DEF unit
<1>4. ASSUME NEW k \in 1 .. count
      PROVE  /\ EntriesOf(name)[k].sequence = count + 1 - k
             /\ EntriesOf(name)[k].last = (k = 1)
             /\ \A j \in 1 .. 13 :
                  EntriesOf(name)[k].units[j] = unit(((count - k) * 13) + j)
  <2>1. EntriesOf(name)[k] =
          [sequence |-> count + 1 - k, last |-> k = 1,
           units |-> [j \in 1 .. 13 |-> unit(((count - k) * 13) + j)]]
    BY <1>2, Zenon DEF FragmentLength
  <2> QED BY <2>1
<1>5. EntriesOf(name) = [k \in 1 .. count |-> EntriesOf(name)[k]]
  BY <1>2, Zenon
<1> QED BY <1>5, <1>1, <1>2, <1>3, <1>4 DEF unit, count, AreFragments

\* The text of a buffer.
BeginsWith(buf, name) ==
  /\ DOMAIN buf = 0 .. LfnBuflen - 1
  /\ \A i \in 0 .. Len(name) - 1 : buf[i] = name[i + 1]
  /\ buf[Len(name)] = 0

\* Once its entries were read the buffer begins with a name and the 0 behind it,
\* whatever was in it before.
LEMMA BufferHolds ==
  ASSUME NEW W, NEW before \in Seq(W), NEW name, Len(name) \in Nat \ {0}, LfnBuflen \in Nat,
         CeilDiv(Len(name), FragmentLength) * FragmentLength < LfnBuflen
  PROVE  BeginsWith(UnitsOf(before \o EntriesOf(name)), name)
<1> DEFINE n == Len(name)
           b == Len(before)
           D == 0 .. LfnBuflen - 1
           count == CeilDiv(Len(name), FragmentLength)
           E == EntriesOf(name)
           all == before \o E
           unit(i) == IF i <= Len(name) THEN name[i] ELSE IF i = Len(name) + 1 THEN 0 ELSE 65535
<1>1. /\ count \in Nat /\ (count - 1) * 13 < n /\ n <= count * 13 /\ count * 13 < LfnBuflen
      /\ n \in Nat \ {0}
  BY EntriesAre DEF FragmentLength
<1>entries. Len(E) = count /\ E = [k \in 1 .. count |-> E[k]]
  BY EntriesAre
<1>2. ASSUME NEW k \in 1 .. count
      PROVE  /\ E[k].sequence = count + 1 - k /\ E[k].last = (k = 1)
             /\ \A j \in 1 .. 13 : E[k].units[j] = unit(((count - k) * 13) + j)
  <2>1. AreFragments(name, count, E)
    BY EntriesAre
  <2> HIDE DEF E, count
  <2> QED BY <2>1 DEF AreFragments
<1>3. /\ b \in Nat /\ Len(all) = b + count
      /\ \A k \in 1 .. count : all[b + k] = E[k]
  <2> DEFINE S == W \cup {E[k] : k \in 1 .. count}
  <2>1. before \in Seq(S)
    BY SeqMonotonic
  <2>2. E \in Seq(S)
    <3> HIDE DEF E, count
    <3>2. \A k \in 1 .. count : E[k] \in S
      OBVIOUS
    <3> HIDE DEF S
    <3>3. [k \in 1 .. count |-> E[k]] \in [1 .. count -> S]
      BY <3>2
    <3> QED BY <1>1, <1>entries, <3>3, SeqDef
  <2> HIDE DEF S, E, count
  <2> QED BY <1>1, <1>entries, <2>1, <2>2, SMT
<1> HIDE DEF E, count, all, unit
<1>4. PICK f : /\ f[0] = [i \in D |-> Undef]
               /\ \A k \in 1 .. Len(all) : f[k] = WithFragment(f[k - 1], all[k])
               /\ UnitsOf(all) = f[Len(all)]
  <2>1. Len(all) \in Nat
    BY <1>1, <1>3, SMT
  <2> QED BY <2>1, UnitsOfSteps
<1> DEFINE Read(m) == \A i \in D :
                       (count - m) * 13 <= i /\ i <= n /\ (m = 0 => i # n) => f[b + m][i] = unit(i + 1)
           Kept(m) == m <= b + count => DOMAIN f[m] = D
           T == {m \in Nat : Kept(m)}
           I == {m \in Nat : m <= count => Read(m)}
<1>5. T = Nat
  <2>1. 0 \in T
    BY <1>4
  <2>2. ASSUME NEW m \in T PROVE m + 1 \in T
    <3> SUFFICES ASSUME m + 1 <= b + count PROVE DOMAIN f[m + 1] = D
      OBVIOUS
    <3>1. m + 1 \in 1 .. Len(all) /\ DOMAIN f[m] = D
      BY <1>1, <1>3, SMT
    <3>2. f[m + 1] = WithFragment(f[m], all[m + 1])
      BY <1>4, <3>1
    <3> QED BY <3>1, <3>2 DEF WithFragment
  <2>3. T \in SUBSET Nat
    OBVIOUS
  <2> HIDE DEF T
  <2> QED BY <2>1, <2>2, <2>3, SetInduction
<1>6. I = Nat
  <2>1. 0 \in I
    BY <1>1, SMT
  <2>2. ASSUME NEW m \in Nat, Read(m), m + 1 <= count PROVE Read(m + 1)
    <3> DEFINE entry == E[m + 1]
               at == (entry.sequence - 1) * FragmentLength
    <3>1. m + 1 \in 1 .. count
      BY <1>1, <2>2, SMT
    <3>2. b + m \in Nat /\ b + m <= b + count /\ b + (m + 1) \in 1 .. Len(all)
      BY <1>1, <1>3, <3>1, SMT
    <3>3. f[b + (m + 1)] = WithFragment(f[b + m], entry)
      <4>1. (b + (m + 1)) - 1 = b + m
        BY <1>3, SMT
      <4> QED BY <1>3, <1>4, <3>1, <3>2, <4>1
    <3>4. DOMAIN f[b + m] = D
      BY <1>5, <3>2
    <3>5. at = (count - (m + 1)) * 13
      <4>1. entry.sequence = count + 1 - (m + 1)
        BY <1>2, <3>1
      <4> HIDE DEF entry
      <4> QED BY <1>1, <4>1, SMT DEF FragmentLength
    <3>6. /\ entry.last = (m = 0)
          /\ \A j \in 1 .. 13 : entry.units[j] = unit(((count - (m + 1)) * 13) + j)
      <4>1. m + 1 = 1 <=> m = 0
        BY SMT
      <4> QED BY <1>2, <3>1, <4>1
    <3> HIDE DEF entry, at, Read
    <3>7. ASSUME NEW i \in D
          PROVE  f[b + (m + 1)][i]
                   = IF i - at \in 0 .. 12 THEN entry.units[i - at + 1]
                     ELSE IF i = at + 13 /\ entry.last THEN 0 ELSE f[b + m][i]
      BY <3>3, <3>4, SMT DEF WithFragment, FragmentLength, at
    <3> SUFFICES ASSUME NEW i \in D, (count - (m + 1)) * 13 <= i, i <= n
                 PROVE  f[b + (m + 1)][i] = unit(i + 1)
      BY DEF Read
    <3>place. i \in Int
      BY <1>1, SMT
    <3>8. CASE i - at \in 0 .. 12
      <4>1. i - at + 1 \in 1 .. 13 /\ ((count - (m + 1)) * 13) + (i - at + 1) = i + 1
        BY <1>1, <3>5, <3>8, <3>place, SMT
      <4> QED BY <3>6, <3>7, <3>8, <4>1
    <3>9. CASE i - at \notin 0 .. 12
      <4>1. (count - m) * 13 <= i
        BY <1>1, <3>5, <3>9, <3>place, SMT
      <4>2. CASE i = at + 13 /\ m = 0
        <5>1. i = n
          BY <1>1, <3>5, <4>2, SMT
        <5>2. f[b + (m + 1)][i] = 0
          BY <3>6, <3>7, <3>9, <4>2
        <5>3. unit(i + 1) = 0
          BY <1>1, <5>1, SMT DEF unit
        <5> QED BY <5>2, <5>3
      <4>3. CASE ~(i = at + 13 /\ m = 0)
        <5>1. f[b + (m + 1)][i] = f[b + m][i]
          BY <3>6, <3>7, <3>9, <4>3
        <5>2. m = 0 => i # n
          BY <1>1, <3>5, <3>9, <3>place, <4>3, SMT
        <5> QED BY <2>2, <4>1, <5>1, <5>2 DEF Read
      <4> QED BY <4>2, <4>3
    <3> QED BY <3>8, <3>9
  <2>3. ASSUME NEW m \in I PROVE m + 1 \in I
    <3> HIDE DEF Read
    <3>1. m + 1 <= count => m <= count
      BY <1>1, SMT
    <3> QED BY <2>2, <3>1
  <2>4. I \in SUBSET Nat
    OBVIOUS
  <2> HIDE DEF I
  <2> QED BY <2>1, <2>3, <2>4, SetInduction
<1>7. Read(count) /\ DOMAIN f[b + count] = D
  <2>1. count <= count /\ b + count \in Nat /\ b + count <= b + count
    BY <1>1, <1>3, SMT
  <2> HIDE DEF Read
  <2>2. Read(count)
    BY <1>1, <1>6, <2>1
  <2> QED BY <1>5, <2>1, <2>2
<1>8. UnitsOf(all) = f[b + count]
  BY <1>3, <1>4
<1>9. \A i \in 0 .. n : f[b + count][i] = unit(i + 1)
  <2>1. \A i \in 0 .. n : i \in D /\ (count - count) * 13 <= i /\ i <= n /\ count # 0
    BY <1>1, SMT
  <2> QED BY <1>7, <2>1
<1>10. unit(n + 1) = 0 /\ \A i \in 0 .. n - 1 : unit(i + 1) = name[i + 1]
  BY <1>1, SMT DEF unit
<1>11. n \in 0 .. n /\ \A i \in 0 .. n - 1 : i \in 0 .. n
  BY <1>1, SMT
<1> QED BY <1>7, <1>8, <1>9, <1>10, <1>11 DEF all, E, BeginsWith

\* Where the conversion of a buffer begins, and its steps.
AtFirst == [text |-> << >>, counted |-> 0, ended |-> FALSE]

LEMMA Utf8Steps ==
  ASSUME NEW buf, LfnBuflen \in Nat
  PROVE  \E f : /\ f[0] = AtFirst
                /\ \A k \in 1 .. LfnBuflen : f[k] = Utf8Step(f[k - 1], buf[k - 1])
                /\ LfnToUtf8(buf) = f[LfnBuflen]
<1> DEFINE n == LfnBuflen
           units == [i \in 1 .. n |-> buf[i - 1]]
           bytes == UNION {{Utf8(buf[i])[1], Utf8(buf[i])[2], Utf8(buf[i])[3]} : i \in 0 .. n - 1}
           V == [text : Seq(bytes), counted : Nat, ended : BOOLEAN]
           step == [k \in 1 .. n |-> [v \in V |-> Utf8Step(v, buf[k - 1])]]
           all == SUBSET (1 .. n)
           IsFold(f) == f = [s \in SUBSET DOMAIN units |-> IF s = {} THEN AtFirst
                                           ELSE Utf8Step(f[s \ {Max(s)}], units[Max(s)])]
<1>1. AtFirst \in V
  BY DEF AtFirst
<1>2. ASSUME NEW k \in 1 .. n, NEW v \in V PROVE Utf8Step(v, buf[k - 1]) \in V
  <2> DEFINE u == buf[k - 1]
             c == Utf8(u)
  <2>1. c \in Seq(bytes) /\ Len(c) \in Nat
    <3>1. k - 1 \in 0 .. n - 1
      BY SMT
    <3>2. c[1] \in bytes /\ c[2] \in bytes /\ c[3] \in bytes
      <4>1. {c[1], c[2], c[3]}
              \in {{Utf8(buf[i])[1], Utf8(buf[i])[2], Utf8(buf[i])[3]} : i \in 0 .. n - 1}
        BY <3>1, Zenon
      <4> QED BY <4>1
    <3>3. \/ c = << >>
          \/ \E x : c = <<x>>
          \/ \E x, y : c = <<x, y>>
          \/ \E x, y, z : c = <<x, y, z>>
      <4> HIDE DEF u
      <4>1. CASE EndsName(u)
        BY <4>1 DEF Utf8
      <4>2. CASE ~EndsName(u) /\ u < 127
        <5>1. c = <<u>>
          BY <4>2 DEF Utf8
        <5> QED BY <5>1, Zenon
      <4>3. CASE ~EndsName(u) /\ ~(u < 127) /\ u < 2047
        <5>1. c = <<192 + (u \div 64), 128 + (u % 64)>>
          BY <4>3 DEF Utf8
        <5> QED BY <5>1, Zenon
      <4>4. CASE ~EndsName(u) /\ ~(u < 127) /\ ~(u < 2047)
        <5> DEFINE x == 224 + (u \div 4096)
                   y == 128 + ((u \div 64) % 64)
                   z == 128 + (u % 64)
        <5>1. c = <<x, y, z>>
          BY <4>4 DEF Utf8
        <5> HIDE DEF x, y, z, c
        <5> QED BY <5>1, Zenon
      <4> QED BY <4>1, <4>2, <4>3, <4>4
    <3> HIDE DEF c, bytes
    <3>4. CASE c = << >>
      BY <3>4
    <3>5. ASSUME NEW x, c = <<x>> PROVE c \in Seq(bytes) /\ Len(c) \in Nat
      <4>1. c[1] = x
        BY <3>5
      <4> QED BY <3>2, <3>5, <4>1
    <3>6. ASSUME NEW x, NEW y, c = <<x, y>> PROVE c \in Seq(bytes) /\ Len(c) \in Nat
      <4>1. c[1] = x /\ c[2] = y
        BY <3>6
      <4> QED BY <3>2, <3>6, <4>1
    <3>7. ASSUME NEW x, NEW y, NEW z, c = <<x, y, z>> PROVE c \in Seq(bytes) /\ Len(c) \in Nat
      <4>1. c[1] = x /\ c[2] = y /\ c[3] = z
        BY <3>7
      <4> QED BY <3>2, <3>7, <4>1
    <3> QED BY <3>3, <3>4, <3>5, <3>6, <3>7
  <2> HIDE DEF c, u
  <2>2. /\ v.text \o c \in Seq(bytes)
        /\ v.counted + Len(c) + 1 \in Nat
        /\ v.text \in Seq(bytes) /\ v.counted \in Nat /\ v.ended \in BOOLEAN
    <3> HIDE DEF bytes
    <3> QED BY <2>1
  <2>3. [v EXCEPT !.ended = TRUE] \in V
    OBVIOUS
  <2>4. [text |-> v.text \o c, counted |-> v.counted + Len(c) + 1, ended |-> FALSE] \in V
    <3> HIDE DEF bytes
    <3> QED BY <2>2
  <2> QED BY <2>3, <2>4 DEF Utf8Step, u, c
<1>3. step \in [1 .. n -> [V -> V]]
  BY <1>2
<1>4. PICK g \in [all -> V] :
        \A s \in all : g[s] = IF s = {} THEN AtFirst ELSE step[Max(s)][g[s \ {Max(s)}]]
  <2>1. n \in Nat
    OBVIOUS
  <2> HIDE DEF n, V, step
  <2>2. HasFold(n, V, AtFirst, step)
    BY <1>1, <1>3, <2>1, FoldSolved
  <2> QED BY <2>2 DEF HasFold
<1>5. \A s \in all : s # {} => Max(s) \in s /\ Max(s) \in 1 .. n /\ s \ {Max(s)} \in all
  <2> SUFFICES ASSUME NEW s \in all, s # {} PROVE Max(s) \in s
    <3> HIDE DEF all
    <3>1. \A s \in all : \A m \in s : m \in 1 .. n /\ s \ {m} \in all
      BY SMT DEF all
    <3> QED BY <3>1, Zenon
  <2> HIDE DEF all
  <2>1. PICK m \in s : \A i \in s : i <= m
    <3> DEFINE T == {n - i : i \in s}
    <3>1. T # {} /\ T \in SUBSET Nat
      <4>1. \A i \in s : n - i \in Nat
        BY SMT DEF all
      <4> QED BY <4>1
    <3> HIDE DEF T
    <3>2. PICK t \in T : \A y \in T : t <= y
      BY <3>1, LeastNumber
    <3>3. PICK m \in s : t = n - m
      BY DEF T
    <3>4. \A i \in s : n - i \in T /\ i \in Int /\ m \in Int
      BY SMT DEF T, all
    <3>5. \A i \in s : i <= m
      BY <3>2, <3>3, <3>4, SMT
    <3> QED BY <3>5
  <2>2. s \in SUBSET Int
    BY SMT DEF all
  <2> QED BY <2>1, <2>2, MaxIs
<1>6. IsFold(g)
  <2>1. ASSUME NEW s \in all, s # {}
        PROVE  g[s] = Utf8Step(g[s \ {Max(s)}], units[Max(s)])
    <3> DEFINE m == Max(s)
               rest == s \ {m}
    <3>1. m \in 1 .. n /\ rest \in all
      BY <1>5, <2>1
    <3> HIDE DEF m
    <3>2. g[rest] \in V
      BY <3>1
    <3>3. g[s] = step[m][g[rest]]
      BY <1>4, <2>1 DEF m
    <3> HIDE DEF V, rest
    <3>4. step[m][g[rest]] = Utf8Step(g[rest], buf[m - 1])
      BY <3>1, <3>2
    <3>5. units[m] = buf[m - 1]
      BY <3>1
    <3> HIDE DEF step, units
    <3> QED BY <3>3, <3>4, <3>5 DEF m, rest
  <2> HIDE DEF step, units, V
  <2>2. \A s \in all : g[s] = IF s = {} THEN AtFirst
                              ELSE Utf8Step(g[s \ {Max(s)}], units[Max(s)])
    BY <1>4, <2>1
  <2>3. DOMAIN units = 1 .. n
    BY DEF units
  <2> QED BY <2>2, <2>3
<1> DEFINE f == CHOOSE h : IsFold(h)
<1>7. IsFold(f)
  <2> HIDE DEF IsFold
  <2> QED BY <1>6
<1>domain. DOMAIN units = 1 .. n
  OBVIOUS
<1>8. LfnToUtf8(buf) = f[1 .. n]
  <2>1. LfnToUtf8(buf) = f[DOMAIN units]
    BY DEF LfnToUtf8, FoldLeft, MapThenFoldSet, AtFirst, Max
  <2> QED BY <1>domain, <2>1
<1> HIDE DEF f
<1>9. ASSUME NEW k \in 1 .. n
      PROVE  f[1 .. k] = Utf8Step(f[1 .. k - 1], buf[k - 1])
  <2>1. 1 .. k \in all /\ 1 .. k # {} /\ k \in 1 .. k
    BY SMT
  <2>2. Max(1 .. k) = k
    <3>1. 1 .. k \in SUBSET Int /\ \A i \in 1 .. k : i <= k
      BY SMT
    <3> QED BY <2>1, <3>1, MaxIs
  <2>3. (1 .. k) \ {k} = 1 .. k - 1
    BY SMT
  <2>4. f[1 .. k] = Utf8Step(f[(1 .. k) \ {Max(1 .. k)}], units[Max(1 .. k)])
    <3> HIDE DEF units
    <3> QED BY <1>7, <1>domain, <2>1
  <2> QED BY <2>2, <2>3, <2>4
<1>10. f[1 .. 0] = AtFirst
  <2>1. 1 .. 0 = {} /\ {} \in all
    BY SMT
  <2> HIDE DEF units
  <2> QED BY <1>7, <1>domain, <2>1
<1> DEFINE h == [k \in 0 .. n |-> f[1 .. k]]
<1>11. h[0] = AtFirst /\ h[n] = f[1 .. n]
  BY <1>10
<1>12. ASSUME NEW k \in 1 .. n PROVE h[k] = Utf8Step(h[k - 1], buf[k - 1])
  <2>1. k \in 0 .. n /\ k - 1 \in 0 .. n
    BY SMT
  <2>2. h[k] = f[1 .. k] /\ h[k - 1] = f[1 .. k - 1]
    BY <2>1
  <2> QED BY <1>9, <2>2
<1> HIDE DEF h
<1> QED BY <1>8, <1>11, <1>12

\* Where the characters of a name begin in its UTF-8.
AreOffsets(name, sum) ==
  /\ sum \in [0 .. Len(name) -> Nat] /\ sum[0] = 0
  /\ \A k \in 1 .. Len(name) : sum[k] = sum[k - 1] + BytesOf(name[k])

LEMMA BytesSum ==
  ASSUME NEW name, Len(name) \in Nat
  PROVE  \E sum : AreOffsets(name, sum) /\ Bytes(name) = sum[Len(name)]
<1> DEFINE n == Len(name)
           step == [k \in 1 .. n |-> [v \in Nat |-> v + BytesOf(name[k])]]
           IsSum(f) == f = [k \in 0 .. n |-> IF k = 0 THEN 0 ELSE f[k - 1] + BytesOf(name[k])]
<1>1. \A x : BytesOf(x) \in 1 .. 3
  BY SMT DEF BytesOf
<1>2. step \in [1 .. n -> [Nat -> Nat]]
  <2>1. \A k \in 1 .. n, v \in Nat : v + BytesOf(name[k]) \in Nat
    BY <1>1, SMT
  <2> QED BY <2>1
<1>3. PICK g \in [0 .. n -> Nat] : g[0] = 0 /\ \A k \in 1 .. n : g[k] = step[k][g[k - 1]]
  <2>1. n \in Nat
    OBVIOUS
  <2> HIDE DEF n, step
  <2>2. HasValues(n, Nat, 0, step)
    BY <1>2, <2>1, StepByStep
  <2> QED BY <2>2 DEF HasValues
<1>4. IsSum(g)
  <2>1. ASSUME NEW k \in 0 .. n
        PROVE  g[k] = IF k = 0 THEN 0 ELSE g[k - 1] + BytesOf(name[k])
    <3>1. CASE k = 0
      BY <1>3, <3>1
    <3>2. CASE k # 0
      <4>1. k \in 1 .. n /\ k - 1 \in 0 .. n
        BY <3>2, SMT
      <4>2. g[k] = step[k][g[k - 1]] /\ g[k - 1] \in Nat
        BY <1>3, <4>1
      <4> QED BY <3>2, <4>1, <4>2
    <3> QED BY <3>1, <3>2
  <2> QED BY <2>1
<1> DEFINE f == CHOOSE h : IsSum(h)
<1>5. IsSum(f)
  <2> HIDE DEF IsSum
  <2> QED BY <1>4
<1>6. Bytes(name) = f[n]
  BY DEF Bytes
<1> HIDE DEF f
<1>7. f[0] = 0 /\ \A k \in 1 .. n : f[k] = f[k - 1] + BytesOf(name[k])
  <2>1. 0 \in 0 .. n /\ \A k \in 1 .. n : k \in 0 .. n /\ k # 0
    BY SMT
  <2> QED BY <1>5, <2>1
<1> DEFINE T == {k \in Nat : k <= n => f[k] \in Nat}
<1>8. T = Nat
  <2>1. 0 \in T
    BY <1>7
  <2>2. ASSUME NEW k \in T PROVE k + 1 \in T
    <3> SUFFICES ASSUME k + 1 <= n PROVE f[k + 1] \in Nat
      OBVIOUS
    <3>1. k \in Nat /\ k <= n /\ k + 1 \in 1 .. n /\ (k + 1) - 1 = k
      BY SMT
    <3>2. f[k + 1] = f[k] + BytesOf(name[k + 1]) /\ f[k] \in Nat
      BY <1>7, <3>1
    <3>3. BytesOf(name[k + 1]) \in 1 .. 3
      BY <1>1
    <3> QED BY <3>2, <3>3, SMT
  <2>3. T \in SUBSET Nat
    OBVIOUS
  <2> HIDE DEF T
  <2> QED BY <2>1, <2>2, <2>3, SetInduction
<1>9. f \in [0 .. n -> Nat]
  <2>1. \A k \in 0 .. n : k \in Nat /\ k <= n
    BY SMT
  <2>2. \A k \in 0 .. n : f[k] \in Nat
    BY <1>8, <2>1
  <2>3. f = [k \in 0 .. n |-> f[k]]
    BY <1>5
  <2> QED BY <2>2, <2>3
<1> QED BY <1>6, <1>7, <1>9 DEF AreOffsets

\* The units that get as many bytes as in UTF-8: not 127 and 2047, which the code
\* writes with one more.
Units == {u \in Nat : 0 < u /\ u < 65535 /\ u # 127 /\ u # 2047}

LEMMA Utf8Is ==
  ASSUME NEW u \in Units
  PROVE  /\ ~EndsName(u)
         /\ u < 128 => Utf8(u) = <<u>>
         /\ u \in 128 .. 2047 => Utf8(u) = <<192 + (u \div 64), 128 + (u % 64)>>
         /\ u >= 2048 => Utf8(u) = <<224 + (u \div 4096), 128 + ((u \div 64) % 64), 128 + (u % 64)>>
BY SMT DEF Utf8, EndsName, Units

\* They are as many, and bytes.
LEMMA Utf8Typed ==
  ASSUME NEW u \in Units
  PROVE  ~EndsName(u) /\ Utf8(u) \in Seq(Nat) /\ Len(Utf8(u)) = BytesOf(u)
<1>1. CASE u < 128
  <2>1. Utf8(u) = <<u>> /\ u \in Nat
    BY <1>1, Utf8Is DEF Units
  <2> QED BY <1>1, <2>1, Utf8Is DEF BytesOf
<1>2. CASE u \in 128 .. 2047
  <2> DEFINE x == 192 + (u \div 64)
             y == 128 + (u % 64)
  <2>1. x \in Nat /\ y \in Nat
    BY <1>2, SMT
  <2>2. Utf8(u) = <<x, y>> /\ BytesOf(u) = 2
    <3>1. Utf8(u) = <<192 + (u \div 64), 128 + (u % 64)>>
      BY <1>2, Utf8Is, SMT
    <3>2. BytesOf(u) = 2
      <4>1. ~(u < 128) /\ u < 2048
        BY <1>2, SMT
      <4> QED BY <4>1 DEF BytesOf
    <3> QED BY <3>1, <3>2
  <2> HIDE DEF x, y
  <2> QED BY <2>1, <2>2, Utf8Is
<1>3. CASE u >= 2048
  <2> DEFINE x == 224 + (u \div 4096)
             y == 128 + ((u \div 64) % 64)
             z == 128 + (u % 64)
  <2>1. x \in Nat /\ y \in Nat /\ z \in Nat
    BY <1>3, SMT DEF Units
  <2>2. Utf8(u) = <<x, y, z>> /\ BytesOf(u) = 3
    BY <1>3, Utf8Is, SMT DEF BytesOf, Units
  <2> HIDE DEF x, y, z
  <2> QED BY <2>1, <2>2, Utf8Is
<1> QED BY <1>1, <1>2, <1>3, SMT DEF Units

\* A unit can be told from its bytes, and their number from the first.
LEMMA Utf8Decoded ==
  ASSUME NEW u \in Units, NEW text, NEW p \in Nat,
         \A j \in 1 .. BytesOf(u) : text[p + j] = Utf8(u)[j]
  PROVE  CharSize(text[p + 1]) = BytesOf(u) /\ CharAt(text, p + 1) = u
<1>1. p + 2 = (p + 1) + 1 /\ p + 3 = (p + 1) + 2
  BY SMT
<1>2. CASE u < 128
  <2>1. BytesOf(u) = 1 /\ Utf8(u) = <<u>>
    BY <1>2, Utf8Is DEF BytesOf
  <2>2. text[p + 1] = u
    BY <2>1
  <2> QED BY <1>2, <2>1, <2>2 DEF CharSize, CharAt
<1>3. CASE u \in 128 .. 2047
  <2>1. BytesOf(u) = 2 /\ Utf8(u) = <<192 + (u \div 64), 128 + (u % 64)>>
    <3>1. Utf8(u) = <<192 + (u \div 64), 128 + (u % 64)>>
      BY <1>3, Utf8Is, SMT
    <3>2. BytesOf(u) = 2
      <4>1. ~(u < 128) /\ u < 2048
        BY <1>3, SMT
      <4> QED BY <4>1 DEF BytesOf
    <3> QED BY <3>1, <3>2
  <2>2. 1 \in 1 .. 2 /\ 2 \in 1 .. 2
    BY SMT
  <2>3. text[p + 1] = 192 + (u \div 64) /\ text[(p + 1) + 1] = 128 + (u % 64)
    BY <1>1, <2>1, <2>2
  <2>4. /\ 192 + (u \div 64) \in 192 .. 223
        /\ (((192 + (u \div 64)) - 192) * 64) + ((128 + (u % 64)) - 128) = u
    BY <1>3, SMT
  <2> QED BY <2>1, <2>3, <2>4 DEF CharSize, CharAt
<1>4. CASE u >= 2048
  <2>1. /\ BytesOf(u) = 3
        /\ Utf8(u) = <<224 + (u \div 4096), 128 + ((u \div 64) % 64), 128 + (u % 64)>>
    BY <1>4, Utf8Is, SMT DEF BytesOf, Units
  <2>2. 1 \in 1 .. 3 /\ 2 \in 1 .. 3 /\ 3 \in 1 .. 3
    BY SMT
  <2>3. /\ text[p + 1] = 224 + (u \div 4096) /\ text[(p + 1) + 1] = 128 + ((u \div 64) % 64)
        /\ text[(p + 1) + 2] = 128 + (u % 64)
    BY <1>1, <2>1, <2>2
  <2>4. /\ 224 + (u \div 4096) >= 224 /\ 224 + (u \div 4096) \in Int
        /\ (((224 + (u \div 4096)) - 224) * 4096) + (((128 + ((u \div 64) % 64)) - 128) * 64)
             + ((128 + (u % 64)) - 128) = u
    BY <1>4, SMT DEF Units
  <2> QED BY <2>1, <2>3, <2>4 DEF CharSize, CharAt
<1> QED BY <1>2, <1>3, <1>4, SMT DEF Units

LEMMA OffsetsGrow ==
  ASSUME NEW name, Len(name) \in Nat, NEW sum, AreOffsets(name, sum),
         NEW i \in Nat, NEW k \in Nat, i <= k, k <= Len(name)
  PROVE  sum[i] <= sum[k]
<1> DEFINE n == Len(name)
           T == {m \in Nat : i + m <= n => sum[i] <= sum[i + m]}
<1>1. \A m \in 0 .. n : sum[m] \in Nat
  BY DEF AreOffsets
<1>2. T = Nat
  <2>1. 0 \in T
    <3>1. i \in 0 .. n /\ i + 0 = i
      BY SMT
    <3>2. sum[i] \in Nat
      BY <1>1, <3>1
    <3> QED BY <3>1, <3>2, SMT
  <2>2. ASSUME NEW m \in T PROVE m + 1 \in T
    <3> SUFFICES ASSUME i + (m + 1) <= n PROVE sum[i] <= sum[i + (m + 1)]
      OBVIOUS
    <3> DEFINE a == i + m
    <3>1. i + (m + 1) = a + 1 /\ a + 1 \in 1 .. n /\ (a + 1) - 1 = a /\ a \in 0 .. n /\ i \in 0 .. n
      BY SMT
    <3>2. sum[i] <= sum[a]
      BY <3>1
    <3> HIDE DEF a
    <3>3. sum[a + 1] = sum[a] + BytesOf(name[a + 1])
      BY <3>1, Zenon DEF AreOffsets
    <3>4. BytesOf(name[a + 1]) \in 1 .. 3
      BY SMT DEF BytesOf
    <3>5. sum[i] \in Nat /\ sum[a] \in Nat
      BY <1>1, <3>1
    <3> QED BY <3>1, <3>2, <3>3, <3>4, <3>5, SMT
  <2>3. T \in SUBSET Nat
    OBVIOUS
  <2> HIDE DEF T
  <2> QED BY <2>1, <2>2, <2>3, SetInduction
<1>3. k - i \in Nat /\ i + (k - i) = k
  BY SMT
<1> QED BY <1>2, <1>3

\* One sequence behind another.
LEMMA Appended ==
  ASSUME NEW s \in Seq(Nat), NEW t \in Seq(Nat)
  PROVE  /\ s \o t \in Seq(Nat) /\ Len(s \o t) = Len(s) + Len(t)
         /\ \A p \in 1 .. Len(s) : (s \o t)[p] = s[p]
         /\ \A p \in 1 .. Len(t) : (s \o t)[Len(s) + p] = t[p]
BY SMT

\* A text has the bytes of the first characters of a name.
SpellsName(text, name, sum, k) ==
  /\ text \in Seq(Nat) /\ Len(text) = sum[k]
  /\ \A i \in 1 .. k : \A j \in 1 .. BytesOf(name[i]) : text[sum[i - 1] + j] = Utf8(name[i])[j]

LEMMA SpellsOneMore ==
  ASSUME NEW name, Len(name) \in Nat, \A i \in 1 .. Len(name) : name[i] \in Units,
         NEW sum, AreOffsets(name, sum), NEW k \in 0 .. Len(name) - 1,
         NEW text, SpellsName(text, name, sum, k)
  PROVE  SpellsName(text \o Utf8(name[k + 1]), name, sum, k + 1)
<1> DEFINE c == Utf8(name[k + 1])
<1>1. k + 1 \in 1 .. Len(name) /\ (k + 1) - 1 = k /\ k \in 0 .. Len(name) /\ k \in Nat /\ k <= Len(name)
  BY SMT
<1>2. c \in Seq(Nat) /\ Len(c) = BytesOf(name[k + 1])
  BY <1>1, Utf8Typed
<1>3. sum[k + 1] = sum[k] + BytesOf(name[k + 1]) /\ sum[k] \in Nat
  BY <1>1, Zenon DEF AreOffsets
<1>4. text \in Seq(Nat) /\ Len(text) = sum[k]
  BY DEF SpellsName
<1> HIDE DEF c
<1>5. /\ text \o c \in Seq(Nat) /\ Len(text \o c) = sum[k + 1]
      /\ \A p \in 1 .. sum[k] : (text \o c)[p] = text[p]
      /\ \A j \in 1 .. BytesOf(name[k + 1]) : (text \o c)[sum[k] + j] = c[j]
  <2> DEFINE b == BytesOf(name[k + 1])
  <2> HIDE DEF b
  <2>1. /\ c \in Seq(Nat) /\ Len(c) = b /\ b \in Nat
        /\ sum[k + 1] = sum[k] + b /\ sum[k] \in Nat
    BY <1>2, <1>3, LenProperties DEF b
  <2>2. /\ text \o c \in Seq(Nat) /\ Len(text \o c) = sum[k] + b
        /\ \A p \in 1 .. sum[k] : (text \o c)[p] = text[p]
        /\ \A j \in 1 .. b : (text \o c)[sum[k] + j] = c[j]
    <3>1. /\ text \o c \in Seq(Nat) /\ Len(text \o c) = Len(text) + Len(c)
          /\ \A p \in 1 .. Len(text) : (text \o c)[p] = text[p]
          /\ \A p \in 1 .. Len(c) : (text \o c)[Len(text) + p] = c[p]
      BY <1>4, <2>1, Appended, Zenon
    <3> QED BY <1>4, <2>1, <3>1
  <2> QED BY <2>1, <2>2 DEF b
<1>6. ASSUME NEW i \in 1 .. k + 1, NEW j \in 1 .. BytesOf(name[i])
      PROVE  (text \o c)[sum[i - 1] + j] = Utf8(name[i])[j]
  <2>1. CASE i = k + 1
    BY <1>1, <1>5, <2>1 DEF c
  <2>2. CASE i # k + 1
    <3>1. i \in 1 .. k /\ i \in Nat /\ i <= k /\ i \in 1 .. Len(name) /\ i - 1 \in 0 .. Len(name)
      BY <2>2, SMT
    <3>2. sum[i] <= sum[k]
      BY <1>1, <3>1, OffsetsGrow
    <3>3. sum[i] = sum[i - 1] + BytesOf(name[i]) /\ sum[i - 1] \in Nat
      BY <3>1, Zenon DEF AreOffsets
    <3>4. BytesOf(name[i]) \in 1 .. 3
      BY SMT DEF BytesOf
    <3>5. sum[i - 1] + j \in 1 .. sum[k]
      BY <1>3, <3>2, <3>3, <3>4, SMTT(30)
    <3>6. text[sum[i - 1] + j] = Utf8(name[i])[j]
      BY <3>1 DEF SpellsName
    <3> QED BY <1>5, <3>5, <3>6
  <2> QED BY <2>1, <2>2
<1> QED BY <1>5, <1>6 DEF SpellsName, c

\* The text of a name: ended if it has room, and then its bytes.
IsText(utf8, name, sum) ==
  /\ utf8.ended <=> sum[Len(name)] + Len(name) < LfnU8Buflen
  /\ utf8.ended => SpellsName(utf8.text, name, sum, Len(name))

LEMMA Utf8Text ==
  ASSUME LfnBuflen \in Nat, LfnU8Buflen \in Nat,
         NEW name, Len(name) \in Nat, Len(name) < LfnBuflen,
         \A i \in 1 .. Len(name) : name[i] \in Units,
         NEW sum, AreOffsets(name, sum), NEW buf, BeginsWith(buf, name)
  PROVE  IsText(LfnToUtf8(buf), name, sum)
<1> DEFINE n == Len(name)
           size == LfnU8Buflen
           room == LfnBuflen
<1>1. PICK f : /\ f[0] = AtFirst
               /\ \A k \in 1 .. room : f[k] = Utf8Step(f[k - 1], buf[k - 1])
               /\ LfnToUtf8(buf) = f[room]
  BY Utf8Steps
<1> DEFINE HasText(k) ==
             /\ f[k] = [text |-> f[k].text, counted |-> sum[k] + k, ended |-> FALSE]
             /\ SpellsName(f[k].text, name, sum, k)
           Stuck(k) ==
             /\ f[k].counted \in Nat /\ f[k].counted >= size /\ f[k].ended = FALSE
             /\ sum[k] + k >= size
           Along(k) == HasText(k) \/ Stuck(k)
           T == {k \in Nat : k <= n => Along(k)}
<1>2. \A k \in 0 .. n : sum[k] \in Nat
  BY DEF AreOffsets
<1>3. T = Nat
  <2>1. 0 \in T
    <3>1. f[0] = [text |-> << >>, counted |-> 0, ended |-> FALSE] /\ sum[0] = 0
      BY <1>1 DEF AtFirst, AreOffsets
    <3>2. SpellsName(<< >>, name, sum, 0)
      <4>1. << >> \in Seq(Nat) /\ Len(<< >>) = sum[0]
        BY <3>1
      <4>2. 1 .. 0 = {}
        BY SMT
      <4> QED BY <4>1, <4>2 DEF SpellsName
    <3>3. HasText(0)
      BY <3>1, <3>2
    <3> HIDE DEF HasText, Stuck
    <3> QED BY <3>3
  <2>2. ASSUME NEW k \in Nat, Along(k), k + 1 <= n PROVE Along(k + 1)
    <3>1. /\ k + 1 \in 1 .. n /\ k + 1 \in 1 .. room /\ (k + 1) - 1 = k /\ k \in 0 .. n
          /\ k \in 0 .. n - 1 /\ k + 1 \in 0 .. n
      <4> HIDE DEF Along
      <4> QED BY <2>2, SMT
    <3>2. buf[k] = name[k + 1]
      BY <3>1 DEF BeginsWith
    <3>3. f[k + 1] = Utf8Step(f[k], name[k + 1])
      BY <1>1, <3>1, <3>2
    <3>4. /\ ~EndsName(name[k + 1]) /\ Utf8(name[k + 1]) \in Seq(Nat)
          /\ Len(Utf8(name[k + 1])) = BytesOf(name[k + 1])
      BY <3>1, Utf8Typed
    <3>5. sum[k + 1] = sum[k] + BytesOf(name[k + 1]) /\ sum[k] \in Nat
      BY <3>1, Zenon DEF AreOffsets
    <3>6. BytesOf(name[k + 1]) \in 1 .. 3
      BY SMT DEF BytesOf
    <3>7. CASE Stuck(k)
      <4>1. f[k + 1] = f[k]
        BY <3>3, <3>7, SMT DEF Utf8Step
      <4>2. sum[k + 1] + (k + 1) >= size
        BY <3>5, <3>6, <3>7, SMT
      <4> QED BY <3>7, <4>1, <4>2
    <3>8. CASE HasText(k) /\ sum[k] + k >= size
      <4>1. f[k].counted = sum[k] + k /\ f[k].ended = FALSE
        BY <3>8
      <4>2. Stuck(k)
        BY <3>5, <3>8, <4>1, SMT
      <4> HIDE DEF Stuck, HasText
      <4> QED BY <3>7, <4>2
    <3>9. CASE HasText(k) /\ ~(sum[k] + k >= size)
      <4> DEFINE text == f[k].text
                 c == Utf8(name[k + 1])
      <4>1. f[k].counted = sum[k] + k /\ f[k].ended = FALSE
        BY <3>9
      <4>2. f[k].text = text
        OBVIOUS
      <4> HIDE DEF text
      <4>3. f[k + 1] = [text |-> text \o c, counted |-> (sum[k] + k) + Len(c) + 1, ended |-> FALSE]
        BY <3>3, <3>4, <3>9, <4>1, <4>2 DEF Utf8Step
      <4>4. (sum[k] + k) + Len(c) + 1 = sum[k + 1] + (k + 1)
        <5> HIDE DEF HasText, Stuck, Along
        <5>1. Len(c) = BytesOf(name[k + 1])
          BY <3>4
        <5> QED BY <3>5, <3>6, <5>1, SMTT(30)
      <4>5. SpellsName(text \o c, name, sum, k + 1)
        BY <3>1, <3>9, <4>2, SpellsOneMore
      <4> HIDE DEF text, c
      <4>6. f[k + 1] = [text |-> text \o c, counted |-> sum[k + 1] + (k + 1), ended |-> FALSE]
        BY <4>3, <4>4
      <4>7. f[k + 1].text = text \o c
        BY <4>6
      <4>8. HasText(k + 1)
        BY <4>5, <4>6, <4>7, Zenon
      <4> HIDE DEF HasText, Stuck
      <4> QED BY <4>8
    <3> HIDE DEF Stuck, HasText
    <3> QED BY <2>2, <3>7, <3>8, <3>9
  <2>3. T \in SUBSET Nat
    OBVIOUS
  <2>4. ASSUME NEW k \in T PROVE k + 1 \in T
    <3> HIDE DEF Along
    <3>1. k \in Nat /\ k + 1 \in Nat /\ (k + 1 <= n => k <= n)
      BY SMT
    <3> QED BY <2>2, <3>1
  <2> HIDE DEF T
  <2> QED BY <2>1, <2>3, <2>4, SetInduction
<1>4. Along(n)
  <2> HIDE DEF Along
  <2>1. n <= n
    BY SMT
  <2> QED BY <1>3, <2>1

\* Where there is no room nothing changes any more, nor behind the end.
<1> DEFINE Done(s) == s.ended = TRUE \/ (s.counted \in Nat /\ s.counted >= size)
<1>5. ASSUME NEW m \in 0 .. room, Done(f[m]) PROVE f[room] = f[m]
  <2> DEFINE R == {d \in Nat : m + d <= room => f[m + d] = f[m]}
  <2>1. 0 \in R
    BY SMT
  <2>2. ASSUME NEW d \in R PROVE d + 1 \in R
    <3> SUFFICES ASSUME m + (d + 1) <= room PROVE f[m + (d + 1)] = f[m]
      OBVIOUS
    <3> DEFINE a == m + d
    <3>1. m + (d + 1) = a + 1 /\ a + 1 \in 1 .. room /\ (a + 1) - 1 = a /\ m + d <= room
      BY SMT
    <3>2. f[a] = f[m]
      BY <3>1
    <3> HIDE DEF a
    <3>3. f[a + 1] = Utf8Step(f[m], buf[a])
      BY <1>1, <3>1, <3>2
    <3>4. f[a + 1] = f[m]
      BY <1>5, <3>3 DEF Utf8Step
    <3> QED BY <3>1, <3>4
  <2>3. R \in SUBSET Nat
    OBVIOUS
  <2> HIDE DEF R
  <2>4. R = Nat
    BY <2>1, <2>2, <2>3, SetInduction
  <2>5. room - m \in Nat /\ m + (room - m) = room /\ room <= room
    BY SMT
  <2> QED BY <2>4, <2>5 DEF R
<1>6. n \in 0 .. room /\ n + 1 \in 1 .. room /\ (n + 1) - 1 = n /\ n \in 0 .. n /\ n + 1 \in 0 .. room
  BY SMT
<1>7. CASE Stuck(n)
  <2>1. f[room] = f[n] /\ f[n].ended = FALSE /\ sum[n] + n >= size /\ sum[n] \in Nat
    BY <1>2, <1>5, <1>6, <1>7
  <2> QED BY <1>1, <2>1, SMT DEF IsText
<1>8. CASE HasText(n) /\ sum[n] + n >= size
  <2>1. f[n].counted = sum[n] + n /\ f[n].ended = FALSE /\ sum[n] \in Nat
    BY <1>2, <1>6, <1>8
  <2>2. Stuck(n)
    BY <1>8, <2>1, SMT
  <2> HIDE DEF HasText, Stuck
  <2> QED BY <1>7, <2>2
<1>9. CASE HasText(n) /\ ~(sum[n] + n >= size)
  <2>1. f[n].counted = sum[n] + n /\ f[n].ended = FALSE /\ sum[n] \in Nat
    BY <1>2, <1>6, <1>9
  <2>2. buf[n] = 0
    BY DEF BeginsWith
  <2>3. f[n + 1] = Utf8Step(f[n], 0)
    BY <1>1, <1>6, <2>2
  <2>4. f[n + 1] = [f[n] EXCEPT !.ended = TRUE]
    BY <1>9, <2>1, <2>3 DEF Utf8Step, EndsName
  <2>5. f[n + 1].ended = TRUE /\ f[n + 1].text = f[n].text
    BY <1>9, <2>4
  <2>6. f[room] = f[n + 1]
    BY <1>5, <1>6, <2>5
  <2>7. sum[n] + n < size
    BY <1>9, <2>1, SMT
  <2> QED BY <1>1, <1>9, <2>5, <2>6, <2>7 DEF IsText
<1> HIDE DEF Stuck, HasText
<1> QED BY <1>4, <1>7, <1>8, <1>9

\* The characters of the text of a name are those of the name.
LEMMA CharactersOf ==
  ASSUME NEW name \in Seq(Units), NEW sum, AreOffsets(name, sum),
         NEW text, SpellsName(text, name, sum, Len(name))
  PROVE  Characters(text) = name
<1> DEFINE n == Len(name)
           size == Len(text)
           W == {CharAt(text, p) : p \in Int}
           V == Seq(W)
           step == [p \in 1 .. size |-> [v \in V |-> <<CharAt(text, p)>> \o v]]
           next == [p \in 1 .. size |-> p + CharSize(text[p])]
           IsFrom(f) == f = [p \in 1 .. size + 3 |->
                               IF p > size THEN << >>
                               ELSE <<CharAt(text, p)>> \o f[p + CharSize(text[p])]]
<1>1. n \in Nat /\ size \in Nat /\ size = sum[n] /\ \A i \in 1 .. n : name[i] \in Units
  BY LenProperties, ElementOfSeq DEF SpellsName
<1>2. \A x : CharSize(x) \in 1 .. 3
  BY SMT DEF CharSize
<1>3. \A p \in 1 .. size : p + CharSize(text[p]) \in 1 .. size + 3 /\ p < p + CharSize(text[p])
  BY <1>1, <1>2, SMT
<1>4. \A p \in 1 .. size, v \in V : <<CharAt(text, p)>> \o v \in V
  <2>1. \A p \in 1 .. size : CharAt(text, p) \in W
    OBVIOUS
  <2> HIDE DEF W
  <2>2. \A p \in 1 .. size : <<CharAt(text, p)>> \in Seq(W)
    BY <2>1
  <2> QED BY <2>2, ConcatProperties
<1>5. PICK g \in [1 .. size + 3 -> V] :
        \A p \in 1 .. size + 3 : g[p] = IF p >= size + 1 THEN << >> ELSE step[p][g[next[p]]]
  <2>1. 1 \in Nat /\ size + 1 \in Nat /\ size + 3 \in Nat /\ 1 <= size + 1 /\ size + 1 <= (size + 3) + 1
        /\ (size + 1) - 1 = size
    BY <1>1, SMT
  <2>2. << >> \in V
    OBVIOUS
  <2>3. step \in [1 .. size -> [V -> V]]
    <3> HIDE DEF V
    <3> QED BY <1>4
  <2>4. next \in [1 .. size -> 1 .. size + 3] /\ \A p \in 1 .. size : p < next[p]
    BY <1>3
  <2> HIDE DEF step, next, V, size
  <2>5. HasValuesDown(1, size + 1, size + 3, V, << >>, step, next)
    BY <2>1, <2>2, <2>3, <2>4, StepByStepDown
  <2> QED BY <2>5 DEF HasValuesDown
<1>6. IsFrom(g)
  <2>1. ASSUME NEW p \in 1 .. size + 3
        PROVE  g[p] = IF p > size THEN << >> ELSE <<CharAt(text, p)>> \o g[p + CharSize(text[p])]
    <3> HIDE DEF V, size
    <3>1. CASE p > size
      <4>1. p >= size + 1
        BY <1>1, <3>1, SMT
      <4> QED BY <1>5, <3>1, <4>1
    <3>2. CASE ~(p > size)
      <4>1. p \in 1 .. size /\ ~(p >= size + 1)
        BY <1>1, <3>2, SMT
      <4>2. next[p] = p + CharSize(text[p]) /\ g[next[p]] \in V
        BY <1>3, <4>1
      <4>3. g[p] = step[p][g[next[p]]]
        BY <1>5, <4>1
      <4> QED BY <3>2, <4>1, <4>2, <4>3
    <3> QED BY <3>1, <3>2
  <2> HIDE DEF V, size
  <2> QED BY <2>1
<1> DEFINE f == CHOOSE h : IsFrom(h)
<1>7. IsFrom(f)
  <2> HIDE DEF IsFrom
  <2> QED BY <1>6
<1>8. Characters(text) = f[1]
  BY DEF Characters
<1> HIDE DEF f
<1> DEFINE Reads(i) == f[sum[i] + 1] = SubSeq(name, i + 1, n)
           T == {m \in Nat : m <= n => Reads(n - m)}
<1>9. T = Nat
  <2>1. 0 \in T
    <3>1. n - 0 = n /\ size + 1 \in 1 .. size + 3 /\ size + 1 > size
      BY <1>1, SMT
    <3>2. f[size + 1] = << >>
      BY <1>7, <3>1
    <3>3. SubSeq(name, n + 1, n) = << >>
      BY <1>1, SMT
    <3> QED BY <1>1, <3>1, <3>2, <3>3
  <2>2. ASSUME NEW m \in T PROVE m + 1 \in T
    <3> DEFINE i == n - (m + 1)
    <3> SUFFICES ASSUME m + 1 <= n PROVE Reads(i)
      OBVIOUS
    <3>1. /\ i \in 0 .. n - 1 /\ n - m = i + 1 /\ m <= n /\ i + 1 \in 1 .. n /\ (i + 1) - 1 = i
          /\ i \in 0 .. n /\ i \in Nat /\ i + 1 \in Nat /\ i + 1 <= n
      BY <1>1, SMT
    <3>2. f[sum[i + 1] + 1] = SubSeq(name, (i + 1) + 1, n)
      BY <3>1
    <3> HIDE DEF i, T
    <3> DEFINE p == sum[i] + 1
               u == name[i + 1]
    <3>3. sum[i + 1] = sum[i] + BytesOf(u) /\ sum[i] \in Nat
      BY <3>1, Zenon DEF AreOffsets
    <3>4. BytesOf(u) \in 1 .. 3
      BY SMT DEF BytesOf
    <3>5. sum[i + 1] <= size
      BY <1>1, <3>1, OffsetsGrow
    <3>6. u \in Units
      BY <1>1, <3>1
    <3>7. \A j \in 1 .. BytesOf(u) : text[sum[i] + j] = Utf8(u)[j]
      BY <3>1 DEF SpellsName
    <3>8. CharSize(text[p]) = BytesOf(u) /\ CharAt(text, p) = u
      BY <3>3, <3>6, <3>7, Utf8Decoded
    <3>9. p \in 1 .. size + 3 /\ ~(p > size) /\ p + BytesOf(u) = sum[i + 1] + 1
      BY <1>1, <3>3, <3>4, <3>5, SMT
    <3>10. f[p] = <<CharAt(text, p)>> \o f[p + CharSize(text[p])]
      <4> HIDE DEF p
      <4> QED BY <1>7, <3>9
    <3>11. f[p] = <<u>> \o SubSeq(name, (i + 1) + 1, n)
      BY <3>2, <3>8, <3>9, <3>10
    <3>12. <<u>> \o SubSeq(name, (i + 1) + 1, n) = SubSeq(name, i + 1, n)
      <4>1. i + 1 \in 1 .. Len(name) + 1 /\ Len(name) \in i + 1 .. Len(name)
        BY <1>1, <3>1, SMT
      <4> QED BY <1>1, <3>1, <4>1, SubSeqRecursiveFirst
    <3> QED BY <3>11, <3>12
  <2>3. T \in SUBSET Nat
    OBVIOUS
  <2> HIDE DEF T
  <2> QED BY <2>1, <2>2, <2>3, SetInduction
<1>10. f[1] = SubSeq(name, 1, n)
  <2>1. n - n = 0 /\ n <= n /\ 0 + 1 = 1
    BY <1>1, SMT
  <2>2. sum[0] = 0
    BY DEF AreOffsets
  <2> QED BY <1>1, <1>9, <2>1, <2>2
<1>11. SubSeq(name, 1, n) = name
  BY SubSeqFull
<1> QED BY <1>8, <1>10, <1>11

\* A name without Unicode: its ASCII characters, and the fallback for the others.
LEMMA AsciiOf ==
  ASSUME NEW name \in Seq(Units), Len(name) < LfnBuflen, NEW fallback \in Int \ {0},
         NEW buf, BeginsWith(buf, name)
  PROVE  CString(LfnToAscii(buf, fallback))
           = [i \in DOMAIN name |-> IF name[i] < 128 THEN name[i] ELSE fallback]
<1> DEFINE n == Len(name)
           room == LfnBuflen
           a == LfnToAscii(buf, fallback)
           kept == [i \in 1 .. n |-> IF name[i] < 128 THEN name[i] ELSE fallback]
<1>1. /\ n \in Nat /\ room \in Nat /\ n < room
      /\ \A i \in 1 .. n : name[i] \in Nat /\ 0 < name[i] /\ name[i] # Undef
  <2>1. \A u \in Units : u \in Nat /\ 0 < u /\ u # Undef
    BY UndefAssumption, SMT DEF Units
  <2> QED BY <2>1, LenProperties, ElementOfSeq, NamesAssumption
<1>2. a = [i \in 1 .. room |-> IF buf[i - 1] = Undef THEN Undef
                               ELSE IF buf[i - 1] < 128 THEN buf[i - 1] ELSE fallback]
  BY DEF LfnToAscii
<1>3. DOMAIN a = 1 .. room /\ Len(a) = room
  BY <1>1, <1>2
<1> HIDE DEF a
<1>4. ASSUME NEW i \in 1 .. n
      PROVE  a[i] = kept[i] /\ a[i] # 0
  <2>1. i \in 1 .. room /\ i - 1 \in 0 .. n - 1 /\ (i - 1) + 1 = i
    BY <1>1, SMT
  <2>2. buf[i - 1] = name[i]
    BY <2>1 DEF BeginsWith
  <2> QED BY <1>1, <1>2, <2>1, <2>2
<1>5. a[n + 1] = 0
  <2>1. n + 1 \in 1 .. room /\ (n + 1) - 1 = n
    BY <1>1, SMT
  <2>2. buf[n] = 0 /\ 0 # Undef
    BY UndefAssumption DEF BeginsWith
  <2> QED BY <1>2, <2>1, <2>2
<1>6. CString(a) = SubSeq(a, 1, n)
  <2>1. n + 1 \in 1 .. room /\ (n + 1) - 1 = n
    BY <1>1, SMT
  <2>2. \A i \in 1 .. (n + 1) - 1 : a[i] # 0
    BY <1>4, <2>1
  <2>3. CString(a) = SubSeq(a, 1, (n + 1) - 1)
    BY <1>1, <1>3, <1>5, <2>1, <2>2, CStringEnds
  <2> QED BY <2>1, <2>3
<1>7. SubSeq(a, 1, n) = kept
  <2> HIDE DEF kept
  <2>1. SubSeq(a, 1, n) = [i \in 1 .. n |-> a[i]]
    BY <1>1, <1>3, SMT
  <2>2. kept = [i \in 1 .. n |-> kept[i]]
    BY DEF kept
  <2> QED BY <1>4, <2>1, <2>2
<1>8. DOMAIN name = 1 .. n
  BY LenProperties
<1> QED BY <1>6, <1>7, <1>8 DEF a

\* The name of an iterator is the one its entries hold.
KeepsName(before, name, unicode, fallback) ==
  LET filename == LfnFilename(before \o EntriesOf(name), unicode, fallback) IN
  IF unicode
  THEN /\ filename.ended <=> Bytes(name) + Len(name) < LfnU8Buflen
       /\ filename.ended => Len(filename.text) = Bytes(name) /\ Characters(filename.text) = name
  ELSE filename.text = [i \in DOMAIN name |-> IF name[i] < 128 THEN name[i] ELSE fallback]

\* A long name is what its entries hold, whatever was in the buffer before:
\* character by character where Unicode is allowed, if it takes fewer than
\* LfnU8Buflen bytes with one more counted for each character, and otherwise is
\* not ended; with the fallback for what is not ASCII elsewhere.  For all names
\* whose entries the buffer holds and for all units that get as many bytes as in
\* UTF-8 (fat.c:724-785).
THEOREM LongNameKept ==
  ASSUME NEW W, NEW before \in Seq(W), NEW name \in Seq(Units), Len(name) > 0,
         CeilDiv(Len(name), FragmentLength) * FragmentLength < LfnBuflen,
         NEW unicode \in BOOLEAN, NEW fallback \in Int \ {0}
  PROVE  KeepsName(before, name, unicode, fallback)
<1> DEFINE n == Len(name)
           buf == UnitsOf(before \o EntriesOf(name))
           utf8 == LfnToUtf8(buf)
<1>1. /\ n \in Nat \ {0} /\ LfnBuflen \in Nat /\ LfnU8Buflen \in Nat
      /\ \A i \in 1 .. n : name[i] \in Units
  BY LenProperties, ElementOfSeq, NamesAssumption
<1>2. n < LfnBuflen
  <2>1. n <= CeilDiv(n, FragmentLength) * FragmentLength
    BY <1>1, EntriesAre
  <2>2. CeilDiv(n, FragmentLength) \in Nat
    BY <1>1, EntriesAre
  <2> QED BY <1>1, <2>1, <2>2, SMT DEF FragmentLength
<1>3. BeginsWith(buf, name)
  BY <1>1, BufferHolds
<1>4. PICK sum : AreOffsets(name, sum) /\ Bytes(name) = sum[n]
  BY <1>1, BytesSum
<1> HIDE DEF buf
<1>5. CASE unicode
  <2>1. IsText(utf8, name, sum)
    BY <1>1, <1>2, <1>3, <1>4, Utf8Text
  <2> HIDE DEF utf8
  <2>2. ASSUME utf8.ended PROVE Len(utf8.text) = Bytes(name) /\ Characters(utf8.text) = name
    <3>1. SpellsName(utf8.text, name, sum, n)
      BY <2>1, <2>2 DEF IsText
    <3>2. Characters(utf8.text) = name
      BY <1>4, <3>1, CharactersOf
    <3> QED BY <1>4, <3>1, <3>2 DEF SpellsName
  <2>3. utf8.ended <=> Bytes(name) + n < LfnU8Buflen
    BY <1>4, <2>1 DEF IsText
  <2>4. LfnFilename(before \o EntriesOf(name), unicode, fallback)
          = [text |-> utf8.text, ended |-> utf8.ended]
    BY <1>5 DEF LfnFilename, utf8, buf
  <2> DEFINE filename == LfnFilename(before \o EntriesOf(name), unicode, fallback)
  <2> HIDE DEF filename
  <2>5. filename.text = utf8.text /\ filename.ended = utf8.ended
    BY <2>4 DEF filename
  <2> QED BY <1>5, <2>2, <2>3, <2>5 DEF KeepsName, filename
<1>6. CASE ~unicode
  <2>1. CString(LfnToAscii(buf, fallback))
          = [i \in DOMAIN name |-> IF name[i] < 128 THEN name[i] ELSE fallback]
    BY <1>2, <1>3, AsciiOf
  <2>2. LfnFilename(before \o EntriesOf(name), unicode, fallback).text
          = CString(LfnToAscii(buf, fallback))
    BY <1>6 DEF LfnFilename, buf
  <2> QED BY <1>6, <2>1, <2>2 DEF KeepsName
<1> QED BY <1>5, <1>6

\* The names of the run are of units the theorem is about.
LEMMA ScriptsAre ==
  ASSUME NEW script \in DOMAIN Script
  PROVE  Script[script] \in Seq(Units) /\ Len(Script[script]) = 247
<1> DEFINE All == [1 .. 247 -> Units]
<1>1. ASSUME NEW s \in All PROVE s \in Seq(Units) /\ Len(s) = 247
  <2>1. ASSUME NEW n \in Nat, NEW t \in [1 .. n -> Units] PROVE t \in Seq(Units) /\ Len(t) = n
    <3>1. t \in Seq(Units) /\ DOMAIN t = 1 .. n
      <4>1. t = [i \in 1 .. n |-> t[i]] /\ \A i \in 1 .. n : t[i] \in Units
        OBVIOUS
      <4>2. [i \in 1 .. n |-> t[i]] \in Seq(Units)
        BY <4>1
      <4> QED BY <4>1, <4>2
    <3>2. Len(t) \in Nat /\ DOMAIN t = 1 .. Len(t)
      BY <3>1, LenProperties
    <3>3. ASSUME NEW a \in Nat, NEW b \in Nat, 1 .. a = 1 .. b PROVE a = b
      <4>1. a \in 1 .. a \/ a = 0
        BY SMT
      <4>2. b \in 1 .. b \/ b = 0
        BY SMT
      <4> QED BY <3>3, <4>1, <4>2, SMT
    <3> QED BY <3>1, <3>2, <3>3
  <2>2. 247 \in Nat
    OBVIOUS
  <2> QED BY <2>1, <2>2, Zenon
<1>2. [i \in 1 .. 247 |-> 97 + (i % 26)] \in [1 .. 247 -> Units]
  BY SMT DEF Units
<1>3. [i \in 1 .. 247 |-> 192 + (i % 64)] \in [1 .. 247 -> Units]
  BY SMT DEF Units
<1>4. [i \in 1 .. 247 |-> 44032 + i] \in [1 .. 247 -> Units]
  BY SMT DEF Units
<1>5. [i \in 1 .. 247 |-> <<48 + (i % 10), 1024 + i, 44032 + i>>[1 + (i % 3)]]
        \in [1 .. 247 -> Units]
  <2>1. ASSUME NEW i \in 1 .. 247
        PROVE  <<48 + (i % 10), 1024 + i, 44032 + i>>[1 + (i % 3)] \in Units
    BY SMT DEF Units
  <2> QED BY <2>1
<1>6. [i \in 1 .. 247 |-> <<126, 128, 2046, 2048, 65534>>[1 + (i % 5)]] \in [1 .. 247 -> Units]
  <2>1. ASSUME NEW i \in 1 .. 247
        PROVE  <<126, 128, 2046, 2048, 65534>>[1 + (i % 5)] \in Units
    BY SMT DEF Units
  <2> QED BY <2>1
<1>7. Script[script] \in All
  <2> DEFINE a == [i \in 1 .. 247 |-> 97 + (i % 26)]
             l == [i \in 1 .. 247 |-> 192 + (i % 64)]
             h == [i \in 1 .. 247 |-> 44032 + i]
             m == [i \in 1 .. 247 |-> <<48 + (i % 10), 1024 + i, 44032 + i>>[1 + (i % 3)]]
             e == [i \in 1 .. 247 |-> <<126, 128, 2046, 2048, 65534>>[1 + (i % 5)]]
  <2>1. a \in All /\ l \in All /\ h \in All /\ m \in All /\ e \in All
    BY <1>2, <1>3, <1>4, <1>5, <1>6
  <2>2. Script = [ascii |-> a, latin |-> l, hangul |-> h, mixed |-> m, edges |-> e]
    BY SMT DEF Script
  <2> HIDE DEF a, l, h, m, e, All
  <2> QED BY <2>1, <2>2
<1> HIDE DEF All
<1> QED BY <1>1, <1>7

LEMMA NameIs ==
  ASSUME NEW script \in DOMAIN Script,
         NEW length \in Nat, 1 <= length, length <= 247
  PROVE  Name(script, length) \in Seq(Units) /\ Len(Name(script, length)) = length
<1> DEFINE s == Script[script]
<1>1. s \in Seq(Units) /\ Len(s) = 247
  BY ScriptsAre
<1> HIDE DEF s
<1>2. s \in Seq(Units) /\ length <= Len(s)
  BY <1>1
<1>3. SubSeq(s, 1, length) \in Seq(Units) /\ Len(SubSeq(s, 1, length)) = length
  BY <1>2, SMT
<1> QED BY <1>3 DEF Name, s

\* The long names of the run.
IsLongName(script, length, stale, unicode) ==
  input = [kind |-> "long name", name |-> Name(script, length), unicode |-> unicode,
           before |-> IF stale THEN EntriesOf(Name("hangul", 247)) ELSE << >>]
LongPart ==
  input.kind = "long name" =>
    \E script \in DOMAIN Script, length \in NameLengths, stale, unicode \in BOOLEAN :
      IsLongName(script, length, stale, unicode)

LEMMA LongNamesMade == Spec => []LongPart
<1>1. Init => LongPart
  <2>1. Init => input.kind = "none"
    BY DEF Init, NoInput
  <2> QED BY <2>1 DEF LongPart
<1>2. ASSUME LongPart, [Next]_input PROVE LongPart'
  <2>1. CASE UNCHANGED input
    BY <1>2, <2>1, ZenonT(60) DEF LongPart, IsLongName
  <2>2. CASE Return
    BY <2>2 DEF Return, NoInput, LongPart
  <2>3. CASE Convert
    BY <2>3, MadeByKind, Zenon DEF LongPart, ConvertLongName, IsLongName
  <2> QED BY <1>2, <2>1, <2>2, <2>3 DEF Next
<1> QED BY <1>1, <1>2, PTL DEF Spec

\* Every long name of the run is what its entries hold (fat.c:724-785).
THEOREM LongNamesAlwaysKept == Spec => []LongNamesKept
<1>1. ASSUME NEW name, Len(name) \in Nat
      PROVE  \E W : EntriesOf(name) \in Seq(W)
  <2> DEFINE count == CeilDiv(Len(name), FragmentLength)
             E == EntriesOf(name)
             W == {E[k] : k \in 1 .. count}
  <2>1. count \in Nat /\ E = [k \in 1 .. count |-> E[k]]
    BY <1>1, EntriesAre
  <2> HIDE DEF E, count
  <2>2. \A k \in 1 .. count : E[k] \in W
    OBVIOUS
  <2> HIDE DEF W
  <2>3. E \in Seq(W)
    BY <2>1, <2>2, SeqDef
  <2> QED BY <2>3 DEF E
<1>2. ASSUME LongPart, input.kind = "long name" PROVE LongNamesKept
  <2>1. PICK script \in DOMAIN Script, length \in NameLengths, stale \in BOOLEAN, unicode \in BOOLEAN :
          IsLongName(script, length, stale, unicode)
    BY <1>2 DEF LongPart
  <2> DEFINE name == Name(script, length)
             before == IF stale THEN EntriesOf(Name("hangul", 247)) ELSE << >>
  <2>2. length \in Nat /\ 1 <= length /\ length <= 247 /\ LfnBuflen > 247 /\ 247 \in Nat
    BY LengthsAssumption, SMT
  <2>3. name \in Seq(Units) /\ Len(name) = length /\ length > 0
    <3>1. name \in Seq(Units) /\ Len(name) = length
      BY <2>2, NameIs
    <3>2. length > 0
      BY <2>2, SMT
    <3> QED BY <3>1, <3>2
  <2>4. CeilDiv(Len(name), FragmentLength) * FragmentLength < LfnBuflen
    <3>1. ((length + 13 - 1) \div 13) * 13 <= 247
      BY <2>2, SMT
    <3> HIDE DEF name
    <3>2. ((length + 13 - 1) \div 13) * 13 \in Int
      BY <2>2, SMT
    <3>3. CeilDiv(Len(name), FragmentLength) * FragmentLength = ((length + 13 - 1) \div 13) * 13
      BY <2>3 DEF CeilDiv, FragmentLength
    <3> QED BY <2>2, <3>1, <3>2, <3>3, NamesAssumption, SMT
  <2>5. PICK W : before \in Seq(W)
    <3>1. "hangul" \in DOMAIN Script
      BY DEF Script
    <3>2. Len(Name("hangul", 247)) \in Nat
      BY <2>2, <3>1, NameIs
    <3>3. \E W : EntriesOf(Name("hangul", 247)) \in Seq(W)
      BY <1>1, <3>2
    <3>4. << >> \in Seq({})
      OBVIOUS
    <3> QED BY <3>3, <3>4
  <2>6. 63 \in Int \ {0}
    BY SMT
  <2>7. KeepsName(before, name, unicode, 63)
    <3> HIDE DEF before, name
    <3> QED BY <2>3, <2>4, <2>5, <2>6, LongNameKept
  <2>8. input.before = before /\ input.name = name /\ input.unicode = unicode
    BY <2>1 DEF IsLongName
  <2> HIDE DEF before, name
  <2> QED BY <2>7, <2>8, Zenon DEF LongNamesKept, KeepsName
<1>3. ASSUME LongPart PROVE LongNamesKept
  BY <1>2, <1>3 DEF LongNamesKept
<1> QED BY <1>3, LongNamesMade, PTL

-----------------------------------------------------------------------------
\* The calendar: dates sort by their days.

\* The days of a month of a year, months counted from 0, and the dates of the
\* years a FAT can record.
MonthDays(y, mon) ==
  IF mon = 1 THEN (IF IsLeap(y) THEN 29 ELSE 28) ELSE IF mon \in {3, 5, 8, 10} THEN 30 ELSE 31
Months == 0 .. 11
FatYears == {y \in Nat : 1980 <= y /\ y <= 2107}
IsDate(y, mon, d) == y \in FatYears /\ mon \in 0 .. 11 /\ d \in 1 .. MonthDays(y, mon)

DayOf(y, mon, d) == DaysBeforeYear(y) + DaysBeforeMonth(y, mon) + d - 1

\* The days before a year are a number.
LEMMA YearTyped ==
  ASSUME NEW y \in FatYears
  PROVE  y \in Int /\ DaysBeforeYear(y) \in Int
  BY SMT DEF FatYears, DaysBeforeYear

\* A year has 366 or 365 days.
LEMMA YearsFollow ==
  ASSUME NEW y \in FatYears, NEW next, next = y + 1
  PROVE  /\ IsLeap(y) => DaysBeforeYear(next) = DaysBeforeYear(y) + 366
         /\ ~IsLeap(y) => DaysBeforeYear(next) = DaysBeforeYear(y) + 365
  BY SMT DEF DaysBeforeYear, IsLeap, FatYears

\* More days are before a later year.
LEMMA YearsGrow ==
  ASSUME NEW y \in FatYears, NEW z \in FatYears, y <= z
  PROVE  DaysBeforeYear(y) <= DaysBeforeYear(z)
  BY SMT DEF DaysBeforeYear, FatYears

\* A date is inside its year.
LEMMA DaysInYear ==
  ASSUME NEW y, NEW mon, NEW d, IsDate(y, mon, d)
  PROVE  /\ DaysBeforeMonth(y, mon) \in Nat /\ d \in Nat \ {0}
         /\ IsLeap(y) => DaysBeforeMonth(y, mon) + d <= 366
         /\ ~IsLeap(y) => DaysBeforeMonth(y, mon) + d <= 365
  BY SMT DEF DaysBeforeMonth, MonthDays, IsDate

\* A month is over when a later one begins.
LEMMA MonthsFollow ==
  ASSUME NEW y, NEW mon \in 0 .. 11, NEW next \in 0 .. 11, mon < next
  PROVE  DaysBeforeMonth(y, mon) + MonthDays(y, mon) <= DaysBeforeMonth(y, next)
  BY SMT DEF DaysBeforeMonth, MonthDays

\* A later date is a later day.
LEMMA LaterDate ==
  ASSUME NEW y, NEW m, NEW d, NEW z, NEW n, NEW e, IsDate(y, m, d), IsDate(z, n, e),
         \/ y < z
         \/ y = z /\ m < n
         \/ y = z /\ m = n /\ d < e
  PROVE  DayOf(y, m, d) < DayOf(z, n, e)
<1>1. /\ y \in FatYears /\ z \in FatYears /\ m \in 0 .. 11 /\ n \in 0 .. 11
      /\ d \in 1 .. MonthDays(y, m) /\ e \in 1 .. MonthDays(z, n)
  BY DEF IsDate
<1> DEFINE before == DaysBeforeMonth(y, m)
           after  == DaysBeforeMonth(z, n)
<1>2. /\ before \in Nat /\ d \in Nat \ {0}
      /\ IsLeap(y) => before + d <= 366
      /\ ~IsLeap(y) => before + d <= 365
  BY DaysInYear
<1>3. after \in Nat /\ e \in Nat \ {0}
  BY DaysInYear
<1> HIDE DEF before, after
<1>4. DaysBeforeYear(y) \in Int /\ y \in Int
  BY <1>1, YearTyped
<1>5. DaysBeforeYear(z) \in Int /\ z \in Int
  BY <1>1, YearTyped
<1>6. CASE y < z
  <2> DEFINE next == y + 1
  <2>1. next \in FatYears /\ next <= z
    BY <1>1, <1>6, SMT DEF FatYears
  <2>2. /\ IsLeap(y) => DaysBeforeYear(next) = DaysBeforeYear(y) + 366
        /\ ~IsLeap(y) => DaysBeforeYear(next) = DaysBeforeYear(y) + 365
    BY <1>1, YearsFollow
  <2> HIDE DEF next
  <2>3. DaysBeforeYear(next) <= DaysBeforeYear(z) /\ DaysBeforeYear(next) \in Int
    BY <1>1, <2>1, YearsGrow, YearTyped
  <2>4. DaysBeforeYear(y) + before + d <= DaysBeforeYear(next)
    BY <1>2, <1>4, <2>2
  <2> QED BY <1>2, <1>3, <1>4, <1>5, <2>3, <2>4 DEF DayOf, before, after
<1>7. CASE y = z /\ m < n
  <2>1. before + MonthDays(y, m) <= after
    BY <1>1, <1>7, MonthsFollow DEF before, after
  <2>2. MonthDays(y, m) \in Nat
    BY SMT DEF MonthDays
  <2>3. before + d <= after
    BY <1>1, <1>2, <1>3, <2>1, <2>2
  <2> QED BY <1>2, <1>3, <1>4, <1>7, <2>3 DEF DayOf, before, after
<1>8. CASE y = z /\ m = n /\ d < e
  BY <1>2, <1>3, <1>4, <1>8 DEF DayOf, before, after
<1> QED BY <1>6, <1>7, <1>8

\* Dates are days, in their order.
LEMMA DatesSort ==
  ASSUME NEW y, NEW m, NEW d, NEW z, NEW n, NEW e, IsDate(y, m, d), IsDate(z, n, e)
  PROVE  /\ DayOf(y, m, d) \in Int
         /\ DayOf(y, m, d) < DayOf(z, n, e)
              <=> (y < z \/ (y = z /\ (m < n \/ (m = n /\ d < e))))
         /\ DayOf(y, m, d) = DayOf(z, n, e) <=> (y = z /\ m = n /\ d = e)
<1>1. DayOf(y, m, d) \in Int /\ DayOf(z, n, e) \in Int
  <2>1. y \in FatYears /\ z \in FatYears
    BY DEF IsDate
  <2>2. DaysBeforeYear(y) \in Int /\ DaysBeforeYear(z) \in Int
    BY <2>1, YearTyped
  <2>3. DaysBeforeMonth(y, m) \in Int /\ d \in Int
    BY DaysInYear
  <2>4. DaysBeforeMonth(z, n) \in Int /\ e \in Int
    BY DaysInYear
  <2> QED BY <2>2, <2>3, <2>4 DEF DayOf
<1>2. /\ y \in Int /\ m \in Int /\ d \in Int /\ z \in Int /\ n \in Int /\ e \in Int
  BY SMT DEF IsDate, MonthDays, FatYears
<1> DEFINE less == y < z \/ (y = z /\ (m < n \/ (m = n /\ d < e)))
           more == z < y \/ (z = y /\ (n < m \/ (n = m /\ e < d)))
           same == y = z /\ m = n /\ d = e
<1>3. less => DayOf(y, m, d) < DayOf(z, n, e)
  BY LaterDate
<1>4. more => DayOf(z, n, e) < DayOf(y, m, d)
  BY LaterDate
<1>5. less \/ more \/ same
  BY <1>2, SMT
<1>6. same => DayOf(y, m, d) = DayOf(z, n, e) /\ ~less /\ ~more
  BY <1>2, SMT
<1> HIDE DEF less, more, same
<1>7. /\ DayOf(y, m, d) < DayOf(z, n, e) <=> less
      /\ DayOf(y, m, d) = DayOf(z, n, e) <=> same
  BY <1>1, <1>3, <1>4, <1>5, <1>6, SMT
<1> QED BY <1>1, <1>7 DEF less, same

-----------------------------------------------------------------------------
\* Timestamps of a FAT.

\* What the fields of a directory entry hold: a date, a time in steps of two
\* seconds, and less than 20 tenths.
IsStamp(s) ==
  /\ s \in [year : 0 .. 127, month : 1 .. 12, day : 1 .. 31,
            hour : 0 .. 23, minute : 0 .. 59, secondDiv2 : 0 .. 29, createdTenth : 0 .. 19]
  /\ s.day <= MonthDays(1980 + s.year, s.month - 1)

\* The seconds of a day, and the one of a time of day.
Hours == 0 .. 23
Sixty == 0 .. 59
DaySeconds == {t \in Nat : t < 86400}
ClockSecond(h, min, sec) == (3600 * h) + (60 * min) + sec

\* A time of day is a second of that day, the one timegm counts.
LEMMA ClockInDay ==
  ASSUME NEW h \in Hours, NEW min \in Sixty, NEW sec \in Sixty
  PROVE  /\ ClockSecond(h, min, sec) \in DaySeconds
         /\ sec + 60 * (min + 60 * h) = ClockSecond(h, min, sec)
<1>1. /\ h \in Int /\ min \in Int /\ sec \in Int
      /\ 0 <= h /\ h <= 23 /\ 0 <= min /\ min <= 59 /\ 0 <= sec /\ sec <= 59
  BY SMT DEF Hours, Sixty
<1>2. ClockSecond(h, min, sec) \in Int /\ ClockSecond(h, min, sec) < 86400
      /\ 0 <= ClockSecond(h, min, sec)
  BY <1>1, SMT DEF ClockSecond
<1>3. sec + 60 * (min + 60 * h) = ClockSecond(h, min, sec)
  BY <1>1, SMT DEF ClockSecond
<1> QED BY <1>2, <1>3, SMT DEF DaySeconds

\* The seconds of one day carry nothing over to the next.
LEMMA OneDay ==
  ASSUME NEW t \in DaySeconds
  PROVE  t \div 86400 = 0 /\ t % 86400 = t /\ t \in Int
<1> DEFINE w == 86400
<1>1. w \in Nat \ {0} /\ t \in Nat /\ t < w
  BY SMT DEF DaySeconds
<1> HIDE DEF w
<1>2. t \div w = 0 /\ t % w = t /\ t \in Int
  BY <1>1, SMT
<1> QED BY <1>2 DEF w

\* The second of the day a stamp of a type says.
SecondOf(type, s) ==
  IF type = "ACCESS" THEN 0
  ELSE ClockSecond(s.hour, s.minute,
         (2 * s.secondDiv2) + (IF type = "CREATION" THEN s.createdTenth \div 10 ELSE 0))

StampTypes == {"CREATION", "MODIFICATION", "ACCESS"}

\* The time of a struct tm, by its day and the second counted from its beginning.
LEMMA TimeOfDay ==
  ASSUME NEW y \in FatYears, NEW mon \in Months, NEW d \in Nat, NEW t \in Nat, NEW tm,
         tm.year = y - 1900, tm.mon = mon, tm.mday = d, tm.sec + 60 * (tm.min + 60 * tm.hour) = t
  PROVE  /\ Timegm(tm) = <<DayOf(y, mon, d) + (t \div 86400), t % 86400>>
         /\ DayOf(y, mon, d) \in Int
<1> DEFINE z == 1900 + tm.year + (tm.mon \div 12)
           q == t \div 86400
           r == t % 86400
<1>1. z = y /\ tm.mon % 12 = mon
  BY SMT DEF FatYears, Months
<1>2. Timegm(tm) = <<DaysBeforeYear(z) + DaysBeforeMonth(z, tm.mon % 12) + tm.mday - 1 + q, r>>
  BY DEF Timegm
<1>3. q \in Int
  BY SMT
<1> HIDE DEF z, q, r
<1>4. DaysBeforeYear(y) \in Int
  BY YearTyped
<1>5. DaysBeforeMonth(y, mon) \in Int
  BY SMT DEF DaysBeforeMonth, Months
<1>6. DaysBeforeYear(y) + DaysBeforeMonth(y, mon) + d - 1 + q = DayOf(y, mon, d) + q
      /\ DayOf(y, mon, d) \in Int
  BY <1>3, <1>4, <1>5 DEF DayOf
<1>7. Timegm(tm) = <<DayOf(y, mon, d) + q, r>>
  BY <1>1, <1>2, <1>6
<1> QED BY <1>6, <1>7 DEF q, r

\* The time of a struct tm whose seconds are those of one day.
LEMMA TimeInDay ==
  ASSUME NEW y \in FatYears, NEW mon \in Months, NEW d \in Nat,
         NEW h \in Hours, NEW min \in Sixty, NEW sec \in Sixty, NEW tm,
         tm.year = y - 1900, tm.mon = mon, tm.mday = d, tm.hour = h, tm.min = min, tm.sec = sec
  PROVE  /\ Timegm(tm) = <<DayOf(y, mon, d), ClockSecond(h, min, sec)>>
         /\ ClockSecond(h, min, sec) \in DaySeconds
<1> DEFINE t == ClockSecond(h, min, sec)
<1>1. /\ t \in DaySeconds
      /\ tm.sec + 60 * (tm.min + 60 * tm.hour) = t
  BY ClockInDay
<1> HIDE DEF t
<1>2. t \in Nat
  BY <1>1 DEF DaySeconds
<1>3. /\ Timegm(tm) = <<DayOf(y, mon, d) + (t \div 86400), t % 86400>>
      /\ DayOf(y, mon, d) \in Int
  BY <1>1, <1>2, TimeOfDay
<1>4. t \div 86400 = 0 /\ t % 86400 = t
  BY <1>1, OneDay
<1> QED BY <1>1, <1>3, <1>4 DEF t

\* The time a stamp is converted to.
LEMMA TimeOfStamp ==
  ASSUME NEW type \in StampTypes, NEW s, IsStamp(s)
  PROVE  /\ Timegm(TmOf(type, s))
              = <<DayOf(1980 + s.year, s.month - 1, s.day), SecondOf(type, s)>>
         /\ IsDate(1980 + s.year, s.month - 1, s.day)
         /\ SecondOf(type, s) \in DaySeconds
<1> DEFINE y    == 1980 + s.year
           mon  == s.month - 1
           d    == s.day
           h    == IF type = "ACCESS" THEN 0 ELSE s.hour
           min  == IF type = "ACCESS" THEN 0 ELSE s.minute
           half == s.secondDiv2
           ten  == s.createdTenth
           sec  == IF type = "ACCESS" THEN 0
                   ELSE (2 * half) + (IF type = "CREATION" THEN ten \div 10 ELSE 0)
           tm   == TmOf(type, s)
<1>1. /\ s.year \in 0 .. 127 /\ s.month \in 1 .. 12 /\ d \in 1 .. 31 /\ s.hour \in 0 .. 23
      /\ s.minute \in 0 .. 59 /\ half \in 0 .. 29 /\ ten \in 0 .. 19
      /\ d <= MonthDays(y, mon)
  BY DEF IsStamp
<1>2. y \in FatYears /\ mon \in Months /\ h \in Hours /\ min \in Sixty /\ y - 1900 = s.year + 80
  BY <1>1 DEF FatYears, Months, Hours, Sixty
<1>3. sec \in Sixty
  <2> HIDE DEF half, ten
  <2> QED BY <1>1, SMT DEF Sixty
<1>4. /\ tm.year = y - 1900 /\ tm.mon = mon /\ tm.mday = d
      /\ tm.hour = h /\ tm.min = min /\ tm.sec = sec
  <2>1. CASE type = "CREATION"
    <3>1. tm = [sec |-> 2 * s.secondDiv2 + (s.createdTenth \div 10), min |-> s.minute, hour |-> s.hour,
                mday |-> s.day, mon |-> s.month - 1, year |-> s.year + 80]
      BY <2>1 DEF TmOf, CreationTm, ModificationTm
    <3> HIDE DEF tm
    <3> QED BY <1>2, <2>1, <3>1
  <2>2. CASE type = "MODIFICATION"
    <3>1. tm = [sec |-> 2 * s.secondDiv2, min |-> s.minute, hour |-> s.hour,
                mday |-> s.day, mon |-> s.month - 1, year |-> s.year + 80]
      BY <2>2 DEF TmOf, ModificationTm
    <3>2. 2 * half = 2 * half + 0
      BY <1>1
    <3> HIDE DEF tm
    <3> QED BY <1>2, <2>2, <3>1, <3>2
  <2>3. CASE type = "ACCESS"
    <3>1. tm = [sec |-> 0, min |-> 0, hour |-> 0,
                mday |-> s.day, mon |-> s.month - 1, year |-> s.year + 80]
      BY <2>3 DEF TmOf, AccessTm, ModificationTm
    <3> HIDE DEF tm
    <3> QED BY <1>2, <2>3, <3>1
  <2> QED BY <2>1, <2>2, <2>3 DEF StampTypes
<1>5. MonthDays(y, mon) \in Nat
  BY SMT DEF MonthDays
<1>6. SecondOf(type, s) = ClockSecond(h, min, sec)
  <2>1. CASE type = "ACCESS"
    BY <2>1, SMT DEF SecondOf, ClockSecond
  <2>2. CASE type # "ACCESS"
    BY <2>2 DEF SecondOf
  <2> QED BY <2>1, <2>2
<1> HIDE DEF y, mon, d, h, min, sec, tm
<1>7. /\ Timegm(tm) = <<DayOf(y, mon, d), ClockSecond(h, min, sec)>>
      /\ ClockSecond(h, min, sec) \in DaySeconds
  <2>1. d \in Nat
    BY <1>1
  <2> QED BY <1>2, <1>3, <1>4, <2>1, TimeInDay
<1>8. IsDate(y, mon, d)
  BY <1>1, <1>2, <1>5 DEF IsDate, Months
<1> DEFINE second == SecondOf(type, s)
           day    == DayOf(y, mon, d)
<1> HIDE DEF second, day
<1>9. Timegm(tm) = <<day, second>> /\ second \in DaySeconds
  BY <1>6, <1>7 DEF second, day
<1> QED BY <1>8, <1>9 DEF y, mon, d, tm, second, day

\* Times of day sort by their seconds.
LEMMA ClockSorts ==
  ASSUME NEW h \in Hours, NEW min \in Sixty, NEW sec \in Sixty,
         NEW g \in Hours, NEW mi \in Sixty, NEW se \in Sixty
  PROVE  ClockSecond(h, min, sec) < ClockSecond(g, mi, se)
           <=> (h < g \/ (h = g /\ (min < mi \/ (min = mi /\ sec < se))))
<1>1. /\ h \in Int /\ min \in Int /\ sec \in Int /\ g \in Int /\ mi \in Int /\ se \in Int
      /\ 0 <= min /\ min <= 59 /\ 0 <= sec /\ sec <= 59
      /\ 0 <= mi /\ mi <= 59 /\ 0 <= se /\ se <= 59
  BY SMT DEF Hours, Sixty
<1> QED BY <1>1, SMT DEF ClockSecond

\* Sequences of two to seven numbers, the most significant first.
LEMMA PrecedesTwo ==
  ASSUME NEW a1, NEW a2, NEW b1, NEW b2
  PROVE  Precedes(<<a1, a2>>, <<b1, b2>>) <=> (a1 < b1 \/ (a1 = b1 /\ a2 < b2))
<1> DEFINE a == <<a1, a2>>
           b == <<b1, b2>>
<1>1. DOMAIN a = {1, 2} /\ a[1] = a1 /\ a[2] = a2 /\ b[1] = b1 /\ b[2] = b2
  BY SMT
<1> HIDE DEF a, b
<1>2. 1 .. 1 - 1 = {} /\ 1 .. 2 - 1 = {1}
  BY SMT
<1>3. Precedes(a, b) <=> \/ a[1] < b[1] /\ \A j \in {} : a[j] = b[j]
                         \/ a[2] < b[2] /\ \A j \in {1} : a[j] = b[j]
  BY <1>1, <1>2, Zenon DEF Precedes
<1> QED BY <1>1, <1>3 DEF a, b

\* As PrecedesTwo.
LEMMA PrecedesThree ==
  ASSUME NEW a1, NEW a2, NEW a3, NEW b1, NEW b2, NEW b3
  PROVE  Precedes(<<a1, a2, a3>>, <<b1, b2, b3>>)
           <=> (a1 < b1 \/ (a1 = b1 /\ (a2 < b2 \/ (a2 = b2 /\ a3 < b3))))
<1> DEFINE a == <<a1, a2, a3>>
           b == <<b1, b2, b3>>
<1>1. DOMAIN a = {1, 2, 3} /\ a[1] = a1 /\ a[2] = a2 /\ a[3] = a3 /\ b[1] = b1 /\ b[2] = b2 /\ b[3] = b3
  BY SMT
<1> HIDE DEF a, b
<1>2. 1 .. 1 - 1 = {} /\ 1 .. 2 - 1 = {1} /\ 1 .. 3 - 1 = {1, 2}
  BY SMT
<1>3. Precedes(a, b) <=> \/ a[1] < b[1] /\ \A j \in {} : a[j] = b[j]
                         \/ a[2] < b[2] /\ \A j \in {1} : a[j] = b[j]
                         \/ a[3] < b[3] /\ \A j \in {1, 2} : a[j] = b[j]
  BY <1>1, <1>2, Zenon DEF Precedes
<1> QED BY <1>1, <1>3 DEF a, b

\* As PrecedesTwo.
LEMMA PrecedesSix ==
  ASSUME NEW a1, NEW a2, NEW a3, NEW a4, NEW a5, NEW a6,
         NEW b1, NEW b2, NEW b3, NEW b4, NEW b5, NEW b6
  PROVE  Precedes(<<a1, a2, a3, a4, a5, a6>>, <<b1, b2, b3, b4, b5, b6>>)
           <=> (a1 < b1 \/ (a1 = b1 /\ (a2 < b2 \/ (a2 = b2
                /\ (a3 < b3 \/ (a3 = b3 /\ (a4 < b4 \/ (a4 = b4
                /\ (a5 < b5 \/ (a5 = b5 /\ (a6 < b6)))))))))))
<1> DEFINE a == <<a1, a2, a3, a4, a5, a6>>
           b == <<b1, b2, b3, b4, b5, b6>>
           At(x) == a[x] < b[x] /\ \A y \in 1 .. x - 1 : a[y] = b[y]
<1>1. /\ DOMAIN a = {1, 2, 3, 4, 5, 6}
      /\ a[1] = a1 /\ a[2] = a2 /\ a[3] = a3 /\ a[4] = a4 /\ a[5] = a5 /\ a[6] = a6
      /\ b[1] = b1 /\ b[2] = b2 /\ b[3] = b3 /\ b[4] = b4 /\ b[5] = b5 /\ b[6] = b6
  BY SMT
<1> HIDE DEF a, b
<1>2. /\ 1 .. 1 - 1 = {} /\ 1 .. 2 - 1 = {1} /\ 1 .. 3 - 1 = {1, 2}
      /\ 1 .. 4 - 1 = {1, 2, 3} /\ 1 .. 5 - 1 = {1, 2, 3, 4} /\ 1 .. 6 - 1 = {1, 2, 3, 4, 5}
  BY SMT
<1>3. Precedes(a, b) <=> \E x \in {1, 2, 3, 4, 5, 6} : At(x)
  BY <1>1, Zenon DEF Precedes
<1>4. /\ At(1) <=> a[1] < b[1] /\ \A y \in {} : a[y] = b[y]
      /\ At(2) <=> a[2] < b[2] /\ \A y \in {1} : a[y] = b[y]
      /\ At(3) <=> a[3] < b[3] /\ \A y \in {1, 2} : a[y] = b[y]
      /\ At(4) <=> a[4] < b[4] /\ \A y \in {1, 2, 3} : a[y] = b[y]
      /\ At(5) <=> a[5] < b[5] /\ \A y \in {1, 2, 3, 4} : a[y] = b[y]
      /\ At(6) <=> a[6] < b[6] /\ \A y \in {1, 2, 3, 4, 5} : a[y] = b[y]
  BY <1>2, Zenon
<1> HIDE DEF At
<1>5. Precedes(a, b) <=> At(1) \/ At(2) \/ At(3) \/ At(4) \/ At(5) \/ At(6)
  BY <1>3, Zenon
<1> QED BY <1>1, <1>4, <1>5 DEF a, b

\* As PrecedesTwo.
LEMMA PrecedesSeven ==
  ASSUME NEW a1, NEW a2, NEW a3, NEW a4, NEW a5, NEW a6, NEW a7,
         NEW b1, NEW b2, NEW b3, NEW b4, NEW b5, NEW b6, NEW b7
  PROVE  Precedes(<<a1, a2, a3, a4, a5, a6, a7>>, <<b1, b2, b3, b4, b5, b6, b7>>)
           <=> (a1 < b1 \/ (a1 = b1 /\ (a2 < b2 \/ (a2 = b2
                /\ (a3 < b3 \/ (a3 = b3 /\ (a4 < b4 \/ (a4 = b4
                /\ (a5 < b5 \/ (a5 = b5 /\ (a6 < b6 \/ (a6 = b6
                /\ (a7 < b7)))))))))))))
<1> DEFINE a == <<a1, a2, a3, a4, a5, a6, a7>>
           b == <<b1, b2, b3, b4, b5, b6, b7>>
           At(x) == a[x] < b[x] /\ \A y \in 1 .. x - 1 : a[y] = b[y]
<1>1. /\ DOMAIN a = {1, 2, 3, 4, 5, 6, 7}
      /\ a[1] = a1 /\ a[2] = a2 /\ a[3] = a3 /\ a[4] = a4 /\ a[5] = a5 /\ a[6] = a6 /\ a[7] = a7
      /\ b[1] = b1 /\ b[2] = b2 /\ b[3] = b3 /\ b[4] = b4 /\ b[5] = b5 /\ b[6] = b6 /\ b[7] = b7
  BY SMT
<1> HIDE DEF a, b
<1>2. /\ 1 .. 1 - 1 = {} /\ 1 .. 2 - 1 = {1} /\ 1 .. 3 - 1 = {1, 2}
      /\ 1 .. 4 - 1 = {1, 2, 3} /\ 1 .. 5 - 1 = {1, 2, 3, 4} /\ 1 .. 6 - 1 = {1, 2, 3, 4, 5}
      /\ 1 .. 7 - 1 = {1, 2, 3, 4, 5, 6}
  BY SMT
<1>3. Precedes(a, b) <=> \E x \in {1, 2, 3, 4, 5, 6, 7} : At(x)
  BY <1>1, Zenon DEF Precedes
<1>4. /\ At(1) <=> a[1] < b[1] /\ \A y \in {} : a[y] = b[y]
      /\ At(2) <=> a[2] < b[2] /\ \A y \in {1} : a[y] = b[y]
      /\ At(3) <=> a[3] < b[3] /\ \A y \in {1, 2} : a[y] = b[y]
      /\ At(4) <=> a[4] < b[4] /\ \A y \in {1, 2, 3} : a[y] = b[y]
      /\ At(5) <=> a[5] < b[5] /\ \A y \in {1, 2, 3, 4} : a[y] = b[y]
      /\ At(6) <=> a[6] < b[6] /\ \A y \in {1, 2, 3, 4, 5} : a[y] = b[y]
      /\ At(7) <=> a[7] < b[7] /\ \A y \in {1, 2, 3, 4, 5, 6} : a[y] = b[y]
  BY <1>2, Zenon
<1> HIDE DEF At
<1>5. Precedes(a, b) <=> At(1) \/ At(2) \/ At(3) \/ At(4) \/ At(5) \/ At(6) \/ At(7)
  BY <1>3, Zenon
<1> QED BY <1>1, <1>4, <1>5 DEF a, b

\* The parts of what a stamp records, put together.
LEMMA SixOf ==
  ASSUME NEW a1, NEW a2, NEW a3, NEW a4, NEW a5, NEW a6
  PROVE  <<a1, a2, a3>> \o <<a4, a5, a6>> = <<a1, a2, a3, a4, a5, a6>>
<1> DEFINE S == {a1, a2, a3, a4, a5, a6}
           u == <<a1, a2, a3>>
           v == <<a4, a5, a6>>
           w == <<a1, a2, a3, a4, a5, a6>>
<1>1. /\ u \in Seq(S) /\ Len(u) = 3 /\ u[1] = a1 /\ u[2] = a2 /\ u[3] = a3
      /\ v \in Seq(S) /\ Len(v) = 3 /\ v[1] = a4 /\ v[2] = a5 /\ v[3] = a6
      /\ w \in Seq(S) /\ Len(w) = 6 /\ w[1] = a1 /\ w[2] = a2 /\ w[3] = a3
      /\ w[4] = a4 /\ w[5] = a5 /\ w[6] = a6
  BY SMT
<1> HIDE DEF S, u, v, w
<1>2. /\ u \o v \in Seq(S) /\ Len(u \o v) = Len(u) + Len(v)
      /\ \A i \in 1 .. Len(u) + Len(v) :
           (u \o v)[i] = IF i <= Len(u) THEN u[i] ELSE v[i - Len(u)]
  BY <1>1, ConcatProperties, Zenon
<1>3. Len(u \o v) = Len(w) /\ \A i \in 1 .. Len(u \o v) : (u \o v)[i] = w[i]
  BY <1>1, <1>2, SMT
<1>4. u \o v = w
  BY <1>1, <1>2, <1>3, SeqEqual, Zenon
<1> QED BY <1>4 DEF u, v, w

\* As SixOf.
LEMMA SevenOf ==
  ASSUME NEW a1, NEW a2, NEW a3, NEW a4, NEW a5, NEW a6, NEW a7
  PROVE  <<a1, a2, a3, a4, a5, a6>> \o <<a7>> = <<a1, a2, a3, a4, a5, a6, a7>>
<1> DEFINE S == {a1, a2, a3, a4, a5, a6, a7}
           u == <<a1, a2, a3, a4, a5, a6>>
           v == <<a7>>
           w == <<a1, a2, a3, a4, a5, a6, a7>>
<1>1. /\ u \in Seq(S) /\ Len(u) = 6 /\ u[1] = a1 /\ u[2] = a2 /\ u[3] = a3
      /\ u[4] = a4 /\ u[5] = a5 /\ u[6] = a6
      /\ v \in Seq(S) /\ Len(v) = 1 /\ v[1] = a7
      /\ w \in Seq(S) /\ Len(w) = 7 /\ w[1] = a1 /\ w[2] = a2 /\ w[3] = a3
      /\ w[4] = a4 /\ w[5] = a5 /\ w[6] = a6 /\ w[7] = a7
  BY SMT
<1> HIDE DEF S, u, v, w
<1>2. /\ u \o v \in Seq(S) /\ Len(u \o v) = Len(u) + Len(v)
      /\ \A i \in 1 .. Len(u) + Len(v) :
           (u \o v)[i] = IF i <= Len(u) THEN u[i] ELSE v[i - Len(u)]
  BY <1>1, ConcatProperties, Zenon
<1>3. Len(u \o v) = Len(w) /\ \A i \in 1 .. Len(u \o v) : (u \o v)[i] = w[i]
  BY <1>1, <1>2, SMT
<1>4. u \o v = w
  BY <1>1, <1>2, <1>3, SeqEqual, Zenon
<1> QED BY <1>4 DEF u, v, w

\* What a stamp of each type records.
LEMMA RecordedFields ==
  ASSUME NEW s
  PROVE  /\ Recorded("ACCESS", s) = <<s.year, s.month, s.day>>
         /\ Recorded("MODIFICATION", s) = <<s.year, s.month, s.day, s.hour, s.minute, s.secondDiv2>>
         /\ Recorded("CREATION", s)
              = <<s.year, s.month, s.day, s.hour, s.minute, s.secondDiv2, s.createdTenth \div 10>>
<1> DEFINE date  == <<s.year, s.month, s.day>>
           clock == <<s.hour, s.minute, s.secondDiv2>>
           tenth == <<s.createdTenth \div 10>>
           both  == <<s.year, s.month, s.day, s.hour, s.minute, s.secondDiv2>>
<1>1. /\ Recorded("ACCESS", s) = date \o << >> \o << >>
      /\ Recorded("MODIFICATION", s) = date \o clock \o << >>
      /\ Recorded("CREATION", s) = date \o clock \o tenth
  BY Zenon DEF Recorded
<1>2. ASSUME NEW a1, NEW a2, NEW a3 PROVE <<a1, a2, a3>> \o << >> \o << >> = <<a1, a2, a3>>
  BY SMT
<1>3. date \o clock = both
  BY SixOf
<1>4. ASSUME NEW a1, NEW a2, NEW a3, NEW a4, NEW a5, NEW a6
      PROVE <<a1, a2, a3, a4, a5, a6>> \o << >> = <<a1, a2, a3, a4, a5, a6>>
  BY SMT
<1>5. both \o tenth = <<s.year, s.month, s.day, s.hour, s.minute, s.secondDiv2, s.createdTenth \div 10>>
  BY SevenOf, ZenonT(60)
<1>6. both \o << >> = both
  BY <1>4, Zenon
<1>7. date \o << >> \o << >> = date
  BY <1>2, Zenon
<1> HIDE DEF date, clock, tenth
<1> QED BY <1>1, <1>3, <1>5, <1>6, <1>7, Zenon DEF date

\* A FAT's stamps of a type sort as the times they are converted to
\* (fat.c:1271-1314).
THEOREM StampsSort ==
  ASSUME NEW type \in StampTypes, NEW a, NEW b, IsStamp(a), IsStamp(b)
  PROVE  Precedes(Recorded(type, a), Recorded(type, b))
           <=> Precedes(Timegm(TmOf(type, a)), Timegm(TmOf(type, b)))
<1> DEFINE day(s)  == DayOf(1980 + s.year, s.month - 1, s.day)
           half(s) == s.secondDiv2
           ten(s)  == s.createdTenth \div 10
           less    == a.year < b.year
                        \/ (a.year = b.year
                             /\ (a.month < b.month \/ (a.month = b.month /\ a.day < b.day)))
           same    == a.year = b.year /\ a.month = b.month /\ a.day = b.day
<1>1. ASSUME NEW s, IsStamp(s)
      PROVE  /\ s.year \in Nat /\ s.month \in Nat /\ s.day \in Nat
             /\ s.hour \in Hours /\ s.minute \in Sixty
             /\ half(s) \in 0 .. 29 /\ ten(s) \in 0 .. 1
             /\ 2 * half(s) \in Sixty /\ (2 * half(s)) + ten(s) \in Sixty
  <2>1. /\ s.year \in Nat /\ s.month \in Nat /\ s.day \in Nat
        /\ s.hour \in Hours /\ s.minute \in Sixty
        /\ half(s) \in 0 .. 29 /\ s.createdTenth \in 0 .. 19
    BY <1>1 DEF IsStamp, Hours, Sixty
  <2> DEFINE t == s.createdTenth
             u == t \div 10
  <2> HIDE DEF t
  <2>2. u \in 0 .. 1
    BY <2>1, SMT DEF t
  <2> HIDE DEF u, half
  <2>3. 2 * half(s) \in Sixty /\ (2 * half(s)) + u \in Sixty
    <3>1. half(s) \in Int /\ 0 <= half(s) /\ half(s) <= 29 /\ u \in Int /\ 0 <= u /\ u <= 1
      BY <2>1, <2>2, SMT DEF half
    <3> QED BY <3>1, SMT DEF Sixty
  <2> QED BY <2>1, <2>2, <2>3 DEF half, u, t
<1>2. /\ day(a) < day(b) <=> less
      /\ day(a) = day(b) <=> same
  <2> DEFINE y == 1980 + a.year
             m == a.month - 1
             z == 1980 + b.year
             n == b.month - 1
  <2>1. IsDate(y, m, a.day) /\ IsDate(z, n, b.day)
    BY TimeOfStamp
  <2>2. /\ y < z <=> a.year < b.year
        /\ y = z <=> a.year = b.year
        /\ m < n <=> a.month < b.month
        /\ m = n <=> a.month = b.month
    BY <1>1, SMT
  <2> HIDE DEF y, m, z, n
  <2>3. /\ DayOf(y, m, a.day) < DayOf(z, n, b.day)
             <=> (y < z \/ (y = z /\ (m < n \/ (m = n /\ a.day < b.day))))
        /\ DayOf(y, m, a.day) = DayOf(z, n, b.day) <=> (y = z /\ m = n /\ a.day = b.day)
    BY <2>1, DatesSort
  <2> QED BY <2>2, <2>3 DEF y, m, z, n
<1>3. Precedes(Timegm(TmOf(type, a)), Timegm(TmOf(type, b)))
        <=> (less \/ (same /\ SecondOf(type, a) < SecondOf(type, b)))
  <2>1. /\ Timegm(TmOf(type, a)) = <<day(a), SecondOf(type, a)>>
        /\ Timegm(TmOf(type, b)) = <<day(b), SecondOf(type, b)>>
    BY TimeOfStamp
  <2> HIDE DEF day, less, same
  <2> QED BY <1>2, <2>1, PrecedesTwo
<1>4. CASE type = "ACCESS"
  <2>1. ~(SecondOf(type, a) < SecondOf(type, b))
    BY <1>4, SMT DEF SecondOf
  <2>2. Precedes(Recorded(type, a), Recorded(type, b)) <=> less
    <3>1. Precedes(Recorded(type, a), Recorded(type, b))
            <=> Precedes(<<a.year, a.month, a.day>>, <<b.year, b.month, b.day>>)
      BY <1>4, RecordedFields
    <3> QED BY <3>1, PrecedesThree
  <2> QED BY <1>3, <2>1, <2>2
<1>5. CASE type = "MODIFICATION"
  <2>1. /\ SecondOf(type, a) = ClockSecond(a.hour, a.minute, 2 * half(a))
        /\ SecondOf(type, b) = ClockSecond(b.hour, b.minute, 2 * half(b))
    <3>1. 2 * half(a) = 2 * half(a) + 0 /\ 2 * half(b) = 2 * half(b) + 0
      BY <1>1, SMT
    <3> QED BY <1>5, <3>1 DEF SecondOf
  <2>2. 2 * half(a) < 2 * half(b) <=> half(a) < half(b)
    BY <1>1, SMT
  <2>3. SecondOf(type, a) < SecondOf(type, b)
          <=> (a.hour < b.hour \/ (a.hour = b.hour
                /\ (a.minute < b.minute \/ (a.minute = b.minute /\ half(a) < half(b)))))
    <3> HIDE DEF half
    <3>1. ClockSecond(a.hour, a.minute, 2 * half(a)) < ClockSecond(b.hour, b.minute, 2 * half(b))
            <=> (a.hour < b.hour \/ (a.hour = b.hour
                  /\ (a.minute < b.minute \/ (a.minute = b.minute /\ 2 * half(a) < 2 * half(b)))))
      BY <1>1, ClockSorts
    <3> QED BY <2>1, <2>2, <3>1
  <2>4. Precedes(Recorded(type, a), Recorded(type, b))
          <=> (less \/ (same /\ (a.hour < b.hour \/ (a.hour = b.hour
                /\ (a.minute < b.minute \/ (a.minute = b.minute /\ half(a) < half(b)))))))
    <3>1. Precedes(Recorded(type, a), Recorded(type, b))
            <=> Precedes(<<a.year, a.month, a.day, a.hour, a.minute, half(a)>>,
                         <<b.year, b.month, b.day, b.hour, b.minute, half(b)>>)
      BY <1>5, RecordedFields
    <3> HIDE DEF half
    <3> QED BY <3>1, PrecedesSix
  <2> HIDE DEF less, same
  <2> QED BY <1>3, <2>3, <2>4
<1>6. CASE type = "CREATION"
  <2>1. /\ SecondOf(type, a) = ClockSecond(a.hour, a.minute, (2 * half(a)) + ten(a))
        /\ SecondOf(type, b) = ClockSecond(b.hour, b.minute, (2 * half(b)) + ten(b))
    BY <1>6 DEF SecondOf
  <2>2. /\ (2 * half(a)) + ten(a) < (2 * half(b)) + ten(b)
             <=> (half(a) < half(b) \/ (half(a) = half(b) /\ ten(a) < ten(b)))
    <3>1. /\ half(a) \in 0 .. 29 /\ ten(a) \in 0 .. 1
          /\ half(b) \in 0 .. 29 /\ ten(b) \in 0 .. 1
      BY <1>1
    <3> HIDE DEF half, ten
    <3>2. /\ half(a) \in Int /\ half(b) \in Int /\ ten(a) \in Int /\ ten(b) \in Int
          /\ 0 <= ten(a) /\ ten(a) <= 1 /\ 0 <= ten(b) /\ ten(b) <= 1
      BY <3>1, SMT
    <3> QED BY <3>2, SMT
  <2>3. SecondOf(type, a) < SecondOf(type, b)
          <=> (a.hour < b.hour \/ (a.hour = b.hour
                /\ (a.minute < b.minute \/ (a.minute = b.minute
                     /\ (half(a) < half(b) \/ (half(a) = half(b) /\ ten(a) < ten(b)))))))
    <3> HIDE DEF half, ten
    <3>1. ClockSecond(a.hour, a.minute, (2 * half(a)) + ten(a)) < ClockSecond(b.hour, b.minute, (2 * half(b)) + ten(b))
            <=> (a.hour < b.hour \/ (a.hour = b.hour
                  /\ (a.minute < b.minute \/ (a.minute = b.minute /\ (2 * half(a)) + ten(a) < (2 * half(b)) + ten(b)))))
      BY <1>1, ClockSorts
    <3> QED BY <2>1, <2>2, <3>1
  <2>4. Precedes(Recorded(type, a), Recorded(type, b))
          <=> (less \/ (same /\ (a.hour < b.hour \/ (a.hour = b.hour
                /\ (a.minute < b.minute \/ (a.minute = b.minute
                     /\ (half(a) < half(b) \/ (half(a) = half(b) /\ ten(a) < ten(b)))))))))
    <3>1. Precedes(Recorded(type, a), Recorded(type, b))
            <=> Precedes(<<a.year, a.month, a.day, a.hour, a.minute, half(a), ten(a)>>,
                         <<b.year, b.month, b.day, b.hour, b.minute, half(b), ten(b)>>)
      BY <1>6, RecordedFields
    <3> HIDE DEF half, ten
    <3> QED BY <3>1, PrecedesSeven
  <2> HIDE DEF less, same
  <2> QED BY <1>3, <2>3, <2>4
<1> QED BY <1>4, <1>5, <1>6 DEF StampTypes

-----------------------------------------------------------------------------
\* The long dates of ISO 9660.

\* A point in time as a mastering tool writes it.
IsMoment(d) ==
  /\ IsDate(d.year, d.mon - 1, d.mday) /\ d.mon \in Nat
  /\ d.hour \in Hours /\ d.min \in Sixty /\ d.sec \in Sixty
Fields(d) == <<d.year, d.mon, d.mday, d.hour, d.min, d.sec>>
FirstDigit(n) == 48 + (n \div 10)
LastDigit(n)  == 48 + (n % 10)
LongBytes(n1, n2, n3, n4, n5, n6, n7) ==
  Digits(n1) \o Digits(n2) \o Digits(n3) \o Digits(n4)
    \o Digits(n5) \o Digits(n6) \o Digits(n7) \o <<48, 48, 0>>
Spells(b, n1, n2, n3, n4, n5, n6, n7) ==
  /\ b[1] = FirstDigit(n1) /\ b[2] = LastDigit(n1)
  /\ b[3] = FirstDigit(n2) /\ b[4] = LastDigit(n2)
  /\ b[5] = FirstDigit(n3) /\ b[6] = LastDigit(n3)
  /\ b[7] = FirstDigit(n4) /\ b[8] = LastDigit(n4)
  /\ b[9] = FirstDigit(n5) /\ b[10] = LastDigit(n5)
  /\ b[11] = FirstDigit(n6) /\ b[12] = LastDigit(n6)
  /\ b[13] = FirstDigit(n7) /\ b[14] = LastDigit(n7)
LongOf(d) ==
  LongBytes(d.year \div 100, d.year % 100, d.mon, d.mday, d.hour, d.min, d.sec)

\* Two bytes behind others.
LEMMA TwoMore ==
  ASSUME NEW u \in Seq(Int), NEW x \in Int, NEW y \in Int
  PROVE  /\ u \o <<x, y>> \in Seq(Int) /\ Len(u \o <<x, y>>) = Len(u) + 2
         /\ (u \o <<x, y>>)[Len(u) + 1] = x /\ (u \o <<x, y>>)[Len(u) + 2] = y
         /\ \A i \in 1 .. Len(u) : (u \o <<x, y>>)[i] = u[i]
<1> DEFINE v == <<x, y>>
           w == u \o v
           n == Len(u)
<1>1. v \in Seq(Int) /\ Len(v) = 2 /\ v[1] = x /\ v[2] = y /\ n \in Nat
  BY SMT
<1> HIDE DEF v
<1>2. /\ w \in Seq(Int) /\ Len(w) = n + Len(v)
      /\ \A i \in 1 .. n + Len(v) : w[i] = IF i <= n THEN u[i] ELSE v[i - n]
  BY <1>1, ConcatProperties, Zenon
<1> HIDE DEF w, n
<1>3. Len(w) = n + 2 /\ w[n + 1] = v[(n + 1) - n] /\ w[n + 2] = v[(n + 2) - n]
  BY <1>1, <1>2, SMT
<1>4. (n + 1) - n = 1 /\ (n + 2) - n = 2
  BY <1>1, SMT
<1>5. \A i \in 1 .. n : w[i] = u[i]
  BY <1>1, <1>2, SMT
<1> QED BY <1>1, <1>2, <1>3, <1>4, <1>5 DEF v, w, n

\* Two digits, taken for their number and for the characters they are.
LEMMA DigitsRead ==
  ASSUME NEW n \in Nat
  PROVE  /\ 48 + (n \div 10) \in Int /\ 48 + (n % 10) \in Int
         /\ 10 * ((48 + (n \div 10)) - 48) + ((48 + (n % 10)) - 48) = n
         /\ 10 * (48 + (n \div 10)) + (48 + (n % 10)) = n + 528
  BY SMT

\* The characters of a long date.
LEMMA LongRead ==
  ASSUME NEW n1 \in Nat, NEW n2 \in Nat, NEW n3 \in Nat, NEW n4 \in Nat,
         NEW n5 \in Nat, NEW n6 \in Nat, NEW n7 \in Nat
  PROVE  Spells(LongBytes(n1, n2, n3, n4, n5, n6, n7), n1, n2, n3, n4, n5, n6, n7)
<1> DEFINE b == LongBytes(n1, n2, n3, n4, n5, n6, n7)
<1> DEFINE hi(n) == 48 + (n \div 10)
           lo(n) == 48 + (n % 10)
           u1 == <<hi(n1), lo(n1)>>
           u2 == u1 \o <<hi(n2), lo(n2)>>
           u3 == u2 \o <<hi(n3), lo(n3)>>
           u4 == u3 \o <<hi(n4), lo(n4)>>
           u5 == u4 \o <<hi(n5), lo(n5)>>
           u6 == u5 \o <<hi(n6), lo(n6)>>
           u7 == u6 \o <<hi(n7), lo(n7)>>
           v  == <<48, 48, 0>>
<1>1. ASSUME NEW n \in Nat PROVE hi(n) \in Int /\ lo(n) \in Int /\ Digits(n) = <<hi(n), lo(n)>>
  BY <1>1, DigitsRead DEF Digits
<1>2. b = u7 \o v
  BY <1>1, Zenon DEF LongBytes
<1>3. v \in Seq(Int) /\ Len(v) = 3
  BY SMT
<1> HIDE DEF hi, lo, v, b
<1>4. u1 \in Seq(Int) /\ Len(u1) = 2 /\ u1[1] = hi(n1) /\ u1[2] = lo(n1)
  BY <1>1, SMT
<1> HIDE DEF u1
<1>5. /\ u2 \in Seq(Int) /\ Len(u2) = 4
      /\ u2[1] = hi(n1) /\ u2[2] = lo(n1) /\ u2[3] = hi(n2) /\ u2[4] = lo(n2)
  <2>1. /\ u2 \in Seq(Int) /\ Len(u2) = Len(u1) + 2
        /\ u2[Len(u1) + 1] = hi(n2) /\ u2[Len(u1) + 2] = lo(n2)
        /\ \A i \in 1 .. Len(u1) : u2[i] = u1[i]
    <3>1. u1 \in Seq(Int) /\ hi(n2) \in Int /\ lo(n2) \in Int
      BY <1>1, <1>4
    <3> QED BY <3>1, TwoMore, ZenonT(60)
  <2> HIDE DEF u2
  <2> QED BY <1>4, <2>1, SMT
<1> HIDE DEF u2
<1>6. /\ u3 \in Seq(Int) /\ Len(u3) = 6
      /\ u3[1] = hi(n1) /\ u3[2] = lo(n1) /\ u3[3] = hi(n2) /\ u3[4] = lo(n2)
      /\ u3[5] = hi(n3) /\ u3[6] = lo(n3)
  <2>1. /\ u3 \in Seq(Int) /\ Len(u3) = Len(u2) + 2
        /\ u3[Len(u2) + 1] = hi(n3) /\ u3[Len(u2) + 2] = lo(n3)
        /\ \A i \in 1 .. Len(u2) : u3[i] = u2[i]
    <3>1. u2 \in Seq(Int) /\ hi(n3) \in Int /\ lo(n3) \in Int
      BY <1>1, <1>5
    <3> QED BY <3>1, TwoMore, ZenonT(60)
  <2> HIDE DEF u3
  <2> QED BY <1>5, <2>1, SMT
<1> HIDE DEF u3
<1>7. /\ u4 \in Seq(Int) /\ Len(u4) = 8
      /\ u4[1] = hi(n1) /\ u4[2] = lo(n1) /\ u4[3] = hi(n2) /\ u4[4] = lo(n2)
      /\ u4[5] = hi(n3) /\ u4[6] = lo(n3) /\ u4[7] = hi(n4) /\ u4[8] = lo(n4)
  <2>1. /\ u4 \in Seq(Int) /\ Len(u4) = Len(u3) + 2
        /\ u4[Len(u3) + 1] = hi(n4) /\ u4[Len(u3) + 2] = lo(n4)
        /\ \A i \in 1 .. Len(u3) : u4[i] = u3[i]
    <3>1. u3 \in Seq(Int) /\ hi(n4) \in Int /\ lo(n4) \in Int
      BY <1>1, <1>6
    <3> QED BY <3>1, TwoMore, ZenonT(60)
  <2> HIDE DEF u4
  <2> QED BY <1>6, <2>1, SMT
<1> HIDE DEF u4
<1>8. /\ u5 \in Seq(Int) /\ Len(u5) = 10
      /\ u5[1] = hi(n1) /\ u5[2] = lo(n1) /\ u5[3] = hi(n2) /\ u5[4] = lo(n2)
      /\ u5[5] = hi(n3) /\ u5[6] = lo(n3) /\ u5[7] = hi(n4) /\ u5[8] = lo(n4)
      /\ u5[9] = hi(n5) /\ u5[10] = lo(n5)
  <2>1. /\ u5 \in Seq(Int) /\ Len(u5) = Len(u4) + 2
        /\ u5[Len(u4) + 1] = hi(n5) /\ u5[Len(u4) + 2] = lo(n5)
        /\ \A i \in 1 .. Len(u4) : u5[i] = u4[i]
    <3>1. u4 \in Seq(Int) /\ hi(n5) \in Int /\ lo(n5) \in Int
      BY <1>1, <1>7
    <3> QED BY <3>1, TwoMore, ZenonT(60)
  <2> HIDE DEF u5
  <2> QED BY <1>7, <2>1, SMT
<1> HIDE DEF u5
<1>9. /\ u6 \in Seq(Int) /\ Len(u6) = 12
      /\ u6[1] = hi(n1) /\ u6[2] = lo(n1) /\ u6[3] = hi(n2) /\ u6[4] = lo(n2)
      /\ u6[5] = hi(n3) /\ u6[6] = lo(n3) /\ u6[7] = hi(n4) /\ u6[8] = lo(n4)
      /\ u6[9] = hi(n5) /\ u6[10] = lo(n5) /\ u6[11] = hi(n6) /\ u6[12] = lo(n6)
  <2>1. /\ u6 \in Seq(Int) /\ Len(u6) = Len(u5) + 2
        /\ u6[Len(u5) + 1] = hi(n6) /\ u6[Len(u5) + 2] = lo(n6)
        /\ \A i \in 1 .. Len(u5) : u6[i] = u5[i]
    <3>1. u5 \in Seq(Int) /\ hi(n6) \in Int /\ lo(n6) \in Int
      BY <1>1, <1>8
    <3> QED BY <3>1, TwoMore, ZenonT(60)
  <2> HIDE DEF u6
  <2> QED BY <1>8, <2>1, SMT
<1> HIDE DEF u6
<1>10. /\ u7 \in Seq(Int) /\ Len(u7) = 14
      /\ u7[1] = hi(n1) /\ u7[2] = lo(n1) /\ u7[3] = hi(n2) /\ u7[4] = lo(n2)
      /\ u7[5] = hi(n3) /\ u7[6] = lo(n3) /\ u7[7] = hi(n4) /\ u7[8] = lo(n4)
      /\ u7[9] = hi(n5) /\ u7[10] = lo(n5) /\ u7[11] = hi(n6) /\ u7[12] = lo(n6)
      /\ u7[13] = hi(n7) /\ u7[14] = lo(n7)
  <2>1. /\ u7 \in Seq(Int) /\ Len(u7) = Len(u6) + 2
        /\ u7[Len(u6) + 1] = hi(n7) /\ u7[Len(u6) + 2] = lo(n7)
        /\ \A i \in 1 .. Len(u6) : u7[i] = u6[i]
    <3>1. u6 \in Seq(Int) /\ hi(n7) \in Int /\ lo(n7) \in Int
      BY <1>1, <1>9
    <3> QED BY <3>1, TwoMore, ZenonT(60)
  <2> HIDE DEF u7
  <2> QED BY <1>9, <2>1, SMT
<1> HIDE DEF u7
<1>11. /\ b[1] = u7[1] /\ b[2] = u7[2] /\ b[3] = u7[3] /\ b[4] = u7[4]
       /\ b[5] = u7[5] /\ b[6] = u7[6] /\ b[7] = u7[7]
       /\ b[8] = u7[8] /\ b[9] = u7[9] /\ b[10] = u7[10] /\ b[11] = u7[11]
       /\ b[12] = u7[12] /\ b[13] = u7[13] /\ b[14] = u7[14]
  <2>1. \A i \in 1 .. Len(u7) + Len(v) : (u7 \o v)[i] = IF i <= Len(u7) THEN u7[i] ELSE v[i - Len(u7)]
    BY <1>10, <1>3, ConcatProperties, Zenon
  <2> DEFINE n == Len(u7)
             m == Len(v)
  <2>2. n = 14 /\ m \in Nat
    BY <1>10, <1>3
  <2>3. \A i \in 1 .. n + m : b[i] = IF i <= n THEN u7[i] ELSE v[i - n]
    BY <1>2, <2>1, Zenon
  <2> HIDE DEF n, m
  <2>4. \A i \in 1 .. n : i \in 1 .. n + m /\ i <= n
    BY <2>2, SMT
  <2>5. \A i \in 1 .. n : b[i] = u7[i]
    BY <2>3, <2>4, Zenon
  <2>6. /\ 1 \in 1 .. n /\ 2 \in 1 .. n /\ 3 \in 1 .. n /\ 4 \in 1 .. n
        /\ 5 \in 1 .. n /\ 6 \in 1 .. n /\ 7 \in 1 .. n
        /\ 8 \in 1 .. n /\ 9 \in 1 .. n /\ 10 \in 1 .. n /\ 11 \in 1 .. n
        /\ 12 \in 1 .. n /\ 13 \in 1 .. n /\ 14 \in 1 .. n
    BY <2>2, SMT
  <2> QED BY <2>5, <2>6
<1>12. Spells(b, n1, n2, n3, n4, n5, n6, n7)
  BY <1>10, <1>11 DEF hi, lo, FirstDigit, LastDigit, Spells
<1> QED BY <1>12 DEF b

\* What the driver makes of a long date: the second of the day is later by 528
\* minutes and 528 seconds, as it takes the last digits for the characters they
\* are (iso9660.c:115-152).
Skew == (60 * 528) + 528

\* The time a long date is converted to.
LEMMA LongTimeOf ==
  ASSUME NEW d, IsMoment(d)
  PROVE  LET t == ClockSecond(d.hour, d.min, d.sec) + Skew IN
         /\ LongTime(LongOf(d))
              = <<DayOf(d.year, d.mon - 1, d.mday) + (t \div 86400), t % 86400>>
         /\ DayOf(d.year, d.mon - 1, d.mday) \in Int
         /\ ClockSecond(d.hour, d.min, d.sec) \in DaySeconds
<1> DEFINE b == LongOf(d)
           clock == ClockSecond(d.hour, d.min, d.sec)
           tm == [year |-> d.year - 1900, mon |-> d.mon - 1, mday |-> d.mday,
                  hour |-> d.hour, min |-> d.min + 528, sec |-> d.sec + 528]
<1>1. /\ d.year \in FatYears /\ d.mon - 1 \in Months /\ d.mon \in Nat /\ d.mday \in Nat
      /\ d.hour \in Hours /\ d.min \in Sixty /\ d.sec \in Sixty
  BY SMT DEF IsMoment, IsDate, MonthDays, Months
<1>2. /\ d.year \in Nat /\ d.hour \in Nat /\ d.min \in Nat /\ d.sec \in Nat
  BY <1>1, SMT DEF FatYears, Hours, Sixty
<1> DEFINE century == d.year \div 100
           yy      == d.year % 100
<1>3. century \in Nat /\ yy \in Nat /\ (100 * century) + yy = d.year
  <2> DEFINE y == d.year
  <2> HIDE DEF y
  <2> QED BY <1>2, SMT DEF y
<1>4. b = LongBytes(century, yy, d.mon, d.mday, d.hour, d.min, d.sec)
  BY DEF LongOf
<1> HIDE DEF b, century, yy
<1>5. /\ b[1] = FirstDigit(century) /\ b[2] = LastDigit(century)
      /\ b[3] = FirstDigit(yy) /\ b[4] = LastDigit(yy)
      /\ b[5] = FirstDigit(d.mon) /\ b[6] = LastDigit(d.mon)
      /\ b[7] = FirstDigit(d.mday) /\ b[8] = LastDigit(d.mday)
      /\ b[9] = FirstDigit(d.hour) /\ b[10] = LastDigit(d.hour)
      /\ b[11] = FirstDigit(d.min) /\ b[12] = LastDigit(d.min)
      /\ b[13] = FirstDigit(d.sec) /\ b[14] = LastDigit(d.sec)
  <2>1. /\ century \in Nat /\ yy \in Nat /\ d.mon \in Nat /\ d.mday \in Nat
        /\ d.hour \in Nat /\ d.min \in Nat /\ d.sec \in Nat
    BY <1>1, <1>2, <1>3
  <2>2. Spells(b, century, yy, d.mon, d.mday, d.hour, d.min, d.sec)
    BY <1>4, <2>1, LongRead
  <2> QED BY <2>2 DEF Spells
<1>6. ASSUME NEW n \in Nat
      PROVE  /\ 10 * (FirstDigit(n) - 48) + (LastDigit(n) - 48) = n
             /\ 10 * FirstDigit(n) + LastDigit(n) = n + 528
  BY <1>6, DigitsRead DEF FirstDigit, LastDigit
<1>7. LongTime(b) = Timegm([year |-> (100 * (10 * (b[1] - 48) + (b[2] - 48)))
                                      + (10 * (b[3] - 48) + (b[4] - 48)) - 1900,
                            mon  |-> (10 * (b[5] - 48) + (b[6] - 48)) - 1,
                            mday |-> 10 * (b[7] - 48) + (b[8] - 48),
                            hour |-> 10 * (b[9] - 48) + (b[10] - 48),
                            min  |-> 10 * b[11] + b[12], sec |-> 10 * b[13] + b[14]])
  BY SMT DEF LongTime
<1>8. LongTime(b) = Timegm(tm)
  <2>1. /\ 10 * (b[1] - 48) + (b[2] - 48) = century
        /\ 10 * (b[3] - 48) + (b[4] - 48) = yy
        /\ 10 * (b[5] - 48) + (b[6] - 48) = d.mon
        /\ 10 * (b[7] - 48) + (b[8] - 48) = d.mday
        /\ 10 * (b[9] - 48) + (b[10] - 48) = d.hour
        /\ 10 * b[11] + b[12] = d.min + 528 /\ 10 * b[13] + b[14] = d.sec + 528
    BY <1>1, <1>2, <1>3, <1>5, <1>6
  <2> QED BY <1>3, <1>7, <2>1
<1> DEFINE t == clock + Skew
<1>9. clock \in DaySeconds /\ d.sec + 60 * (d.min + 60 * d.hour) = clock
  BY <1>1, ClockInDay
<1> HIDE DEF clock
<1>10. t \in Nat /\ tm.sec + 60 * (tm.min + 60 * tm.hour) = t
  BY <1>2, <1>9, SMT DEF DaySeconds, Skew
<1>11. tm.year = d.year - 1900 /\ tm.mon = d.mon - 1 /\ tm.mday = d.mday
  OBVIOUS
<1> HIDE DEF tm, t
<1>12. /\ Timegm(tm) = <<DayOf(d.year, d.mon - 1, d.mday) + (t \div 86400), t % 86400>>
       /\ DayOf(d.year, d.mon - 1, d.mday) \in Int
  <2> DEFINE y == d.year
             m == d.mon - 1
             k == d.mday
  <2>1. /\ y \in FatYears /\ m \in Months /\ k \in Nat /\ t \in Nat
        /\ tm.year = y - 1900 /\ tm.mon = m /\ tm.mday = k
        /\ tm.sec + 60 * (tm.min + 60 * tm.hour) = t
    BY <1>1, <1>10, <1>11
  <2> HIDE DEF y, m, k
  <2>2. /\ Timegm(tm) = <<DayOf(y, m, k) + (t \div 86400), t % 86400>>
        /\ DayOf(y, m, k) \in Int
    BY <2>1, TimeOfDay
  <2> QED BY <2>2 DEF y, m, k
<1> QED BY <1>8, <1>9, <1>12 DEF b, t, clock

\* Days and seconds, both moved by the same time.
LEMMA MovedSorts ==
  ASSUME NEW x \in Int, NEW y \in Int, NEW s \in DaySeconds, NEW t \in DaySeconds, NEW skew \in Nat
  PROVE  LET p == s + skew
             q == t + skew
         IN  (\/ x + (p \div 86400) < y + (q \div 86400)
              \/ x + (p \div 86400) = y + (q \div 86400) /\ p % 86400 < q % 86400)
               <=> (x < y \/ (x = y /\ s < t))
<1> DEFINE p == s + skew
           q == t + skew
           i == p \div 86400
           j == q \div 86400
           k == p % 86400
           l == q % 86400
<1>1. s \in Nat /\ s < 86400 /\ t \in Nat /\ t < 86400 /\ p \in Nat /\ q \in Nat
  BY SMT DEF DaySeconds
<1> HIDE DEF p, q
<1>2. /\ i \in Int /\ k \in Int /\ p = (86400 * i) + k /\ 0 <= k /\ k < 86400
      /\ j \in Int /\ l \in Int /\ q = (86400 * j) + l /\ 0 <= l /\ l < 86400
  BY <1>1, SMT
<1> HIDE DEF i, j, k, l
<1>3. p - q = s - t
  BY <1>1, SMT DEF p, q
<1>4. (x + i < y + j \/ (x + i = y + j /\ k < l)) <=> (x < y \/ (x = y /\ s < t))
  BY <1>1, <1>2, <1>3, SMT
<1> QED BY <1>4 DEF i, j, k, l, p, q

\* Long dates sort as they were written, although the times they are converted
\* to are not theirs.
THEOREM LongDatesSort ==
  ASSUME NEW a, NEW b, IsMoment(a), IsMoment(b)
  PROVE  Precedes(LongTime(LongOf(a)), LongTime(LongOf(b))) <=> Precedes(Fields(a), Fields(b))
<1> DEFINE x == DayOf(a.year, a.mon - 1, a.mday)
           y == DayOf(b.year, b.mon - 1, b.mday)
           s == ClockSecond(a.hour, a.min, a.sec)
           t == ClockSecond(b.hour, b.min, b.sec)
<1>1. /\ LongTime(LongOf(a)) = <<x + ((s + Skew) \div 86400), (s + Skew) % 86400>>
      /\ LongTime(LongOf(b)) = <<y + ((t + Skew) \div 86400), (t + Skew) % 86400>>
      /\ x \in Int /\ y \in Int /\ s \in DaySeconds /\ t \in DaySeconds
  BY LongTimeOf
<1>2. /\ x < y <=> (a.year < b.year \/ (a.year = b.year
                      /\ (a.mon < b.mon \/ (a.mon = b.mon /\ a.mday < b.mday))))
      /\ x = y <=> (a.year = b.year /\ a.mon = b.mon /\ a.mday = b.mday)
  <2> DEFINE m == a.mon - 1
             n == b.mon - 1
  <2>1. /\ m < n <=> a.mon < b.mon
        /\ m = n <=> a.mon = b.mon
    BY SMT DEF IsMoment
  <2>2. IsDate(a.year, m, a.mday) /\ IsDate(b.year, n, b.mday)
    BY DEF IsMoment
  <2> HIDE DEF m, n
  <2>3. /\ DayOf(a.year, m, a.mday) < DayOf(b.year, n, b.mday)
             <=> (a.year < b.year \/ (a.year = b.year /\ (m < n \/ (m = n /\ a.mday < b.mday))))
        /\ DayOf(a.year, m, a.mday) = DayOf(b.year, n, b.mday)
             <=> (a.year = b.year /\ m = n /\ a.mday = b.mday)
    BY <2>2, DatesSort
  <2> QED BY <2>1, <2>3 DEF m, n
<1>3. s < t <=> (a.hour < b.hour \/ (a.hour = b.hour
                   /\ (a.min < b.min \/ (a.min = b.min /\ a.sec < b.sec))))
  BY ClockSorts DEF IsMoment
<1> HIDE DEF x, y, s, t
<1>4. Skew \in Nat
  BY SMT DEF Skew
<1>5. Precedes(LongTime(LongOf(a)), LongTime(LongOf(b))) <=> (x < y \/ (x = y /\ s < t))
  BY <1>1, <1>4, MovedSorts, PrecedesTwo
<1>6. Precedes(Fields(a), Fields(b))
        <=> (a.year < b.year \/ (a.year = b.year
              /\ (a.mon < b.mon \/ (a.mon = b.mon
                   /\ (a.mday < b.mday \/ (a.mday = b.mday
                        /\ (a.hour < b.hour \/ (a.hour = b.hour
                             /\ (a.min < b.min \/ (a.min = b.min /\ a.sec < b.sec))))))))))
  BY PrecedesSix DEF Fields
<1> QED BY <1>2, <1>3, <1>5, <1>6

-----------------------------------------------------------------------------
\* The stamps and dates of the run.

\* The stamps of the run are such as a FAT holds.
LEMMA RunStamps ==
  ASSUME NEW s \in Stamps
  PROVE  IsStamp(s)
<1>1. PICK d \in Days, t \in Times, tenth \in {0, 19} :
        s = [year |-> d[1] - 1980, month |-> d[2], day |-> d[3],
             hour |-> t[1], minute |-> t[2], secondDiv2 |-> t[3], createdTenth |-> tenth]
  BY DEF Stamps
<1>2. t[1] \in 0 .. 23 /\ t[2] \in 0 .. 59 /\ t[3] \in 0 .. 29
  BY SMT DEF Times
<1>3. /\ d[1] \in {1980, 1999, 2000, 2100, 2107} /\ d[2] \in 1 .. 12
      /\ d[3] \in 1 .. 31 /\ d[3] <= MonthDays(d[1], d[2] - 1)
  <2>1. CASE d \in {1999, 2000, 2100} \X (1 .. 12) \X {1, 28}
    <3>1. d[1] \in {1999, 2000, 2100} /\ d[2] \in 1 .. 12 /\ d[3] \in {1, 28}
      BY <2>1, SMT
    <3>2. MonthDays(d[1], d[2] - 1) \in Nat /\ MonthDays(d[1], d[2] - 1) >= 28
      BY SMT DEF MonthDays
    <3> QED BY <3>1, <3>2, SMT
  <2>2. CASE d = <<1980, 1, 1>> \/ d = <<1999, 1, 31>> \/ d = <<1999, 12, 31>> \/ d = <<2107, 12, 31>>
    <3>1. /\ d[1] \in {1980, 1999, 2107} /\ d[2] \in {1, 12} /\ d[3] \in {1, 31}
      BY <2>2, SMT
    <3>2. MonthDays(d[1], d[2] - 1) = 31
      BY <3>1, SMT DEF MonthDays
    <3> QED BY <3>1, <3>2, SMT
  <2>3. CASE d = <<2000, 2, 29>>
    <3>1. d[1] = 2000 /\ d[2] = 2 /\ d[3] = 29
      BY <2>3, SMT
    <3>2. MonthDays(2000, 1) = 29
      BY SMT DEF MonthDays, IsLeap
    <3> QED BY <3>1, <3>2, SMT
  <2>4. CASE d = <<1999, 4, 30>>
    <3>1. d[1] = 1999 /\ d[2] = 4 /\ d[3] = 30
      BY <2>4, SMT
    <3>2. MonthDays(1999, 3) = 30
      BY SMT DEF MonthDays
    <3> QED BY <3>1, <3>2, SMT
  <2> QED BY <2>1, <2>2, <2>3, <2>4 DEF Days
<1>4. s.year \in 0 .. 127 /\ 1980 + s.year = d[1]
  BY <1>1, <1>3, SMT
<1>5. /\ s.month = d[2] /\ s.day = d[3] /\ s.hour = t[1] /\ s.minute = t[2]
      /\ s.secondDiv2 = t[3] /\ s.createdTenth = tenth /\ tenth \in 0 .. 19
  BY <1>1, SMT
<1>6. s.day <= MonthDays(1980 + s.year, s.month - 1)
  BY <1>3, <1>4, <1>5
<1>7. s \in [year : 0 .. 127, month : 1 .. 12, day : 1 .. 31,
             hour : 0 .. 23, minute : 0 .. 59, secondDiv2 : 0 .. 29, createdTenth : 0 .. 19]
  <2> DEFINE year   == d[1] - 1980
             month  == d[2]
             day    == d[3]
             hour   == t[1]
             minute == t[2]
             half   == t[3]
  <2>1. s = [year |-> year, month |-> month, day |-> day,
             hour |-> hour, minute |-> minute, secondDiv2 |-> half, createdTenth |-> tenth]
    BY <1>1
  <2>2. /\ year \in 0 .. 127 /\ month \in 1 .. 12 /\ day \in 1 .. 31
        /\ hour \in 0 .. 23 /\ minute \in 0 .. 59 /\ half \in 0 .. 29 /\ tenth \in 0 .. 19
    BY <1>2, <1>3, <1>5, SMT
  <2> HIDE DEF year, month, day, hour, minute, half
  <2> QED BY <2>1, <2>2
<1> QED BY <1>6, <1>7 DEF IsStamp

\* The long dates of the run.
LEMMA RunDates ==
  ASSUME NEW k \in 1 .. 12
  PROVE  IsMoment(Date(k)) /\ Long(k) = LongOf(Date(k)) /\ Date(k).year = 2000 + k
<1>1. /\ Date(k).year = 2000 + k /\ Date(k).mon = k /\ Date(k).mday = k + 1
      /\ Date(k).hour = k + 2 /\ Date(k).min = 10 + k /\ Date(k).sec = 20 + k
  BY DEF Date
<1>2. MonthDays(2000 + k, k - 1) \in Nat /\ MonthDays(2000 + k, k - 1) >= 28
  BY SMT DEF MonthDays
<1>3. IsDate(2000 + k, k - 1, k + 1)
  BY <1>2, SMT DEF IsDate, FatYears
<1>4. k + 2 \in Hours /\ 10 + k \in Sixty /\ 20 + k \in Sixty /\ k \in Nat
  BY SMT DEF Hours, Sixty
<1>5. IsMoment(Date(k))
  BY <1>1, <1>3, <1>4 DEF IsMoment
<1>6. Long(k) = LongOf(Date(k))
  BY Zenon DEF Long, LongOf, LongBytes
<1> QED BY <1>1, <1>5, <1>6

\* They sort by their numbers.
LEMMA RunDatesSort ==
  ASSUME NEW j \in {1, 2, 7, 12}, NEW k \in {1, 2, 7, 12}
  PROVE  Precedes(LongTime(Long(j)), LongTime(Long(k))) <=> j < k
<1>1. IsMoment(Date(j)) /\ Long(j) = LongOf(Date(j)) /\ Date(j).year = 2000 + j
  <2>1. j \in 1 .. 12
    BY SMT
  <2> QED BY <2>1, RunDates
<1>2. IsMoment(Date(k)) /\ Long(k) = LongOf(Date(k)) /\ Date(k).year = 2000 + k
  <2>1. k \in 1 .. 12
    BY SMT
  <2> QED BY <2>1, RunDates
<1>3. Precedes(LongTime(Long(j)), LongTime(Long(k))) <=> Precedes(Fields(Date(j)), Fields(Date(k)))
  BY <1>1, <1>2, LongDatesSort
<1>4. Precedes(Fields(Date(j)), Fields(Date(k))) <=> j < k
  <2> DEFINE a == Date(j)
             b == Date(k)
  <2>1. Precedes(Fields(a), Fields(b))
          <=> (a.year < b.year \/ (a.year = b.year
                /\ (a.mon < b.mon \/ (a.mon = b.mon
                     /\ (a.mday < b.mday \/ (a.mday = b.mday
                          /\ (a.hour < b.hour \/ (a.hour = b.hour
                               /\ (a.min < b.min \/ (a.min = b.min /\ a.sec < b.sec))))))))))
    BY PrecedesSix DEF Fields
  <2>2. CASE j = k
    <3>1. a.mon \in Int /\ a.mday \in Int /\ a.hour \in Int /\ a.min \in Int /\ a.sec \in Int
      BY SMT DEF Date
    <3> HIDE DEF a
    <3>2. /\ ~(a.mon < a.mon) /\ ~(a.mday < a.mday)
          /\ ~(a.hour < a.hour) /\ ~(a.min < a.min) /\ ~(a.sec < a.sec)
      BY <3>1, SMT
    <3>3. a = b /\ ~(j < k) /\ ~(a.year < b.year)
      BY <1>1, <2>2, SMT DEF a
    <3> HIDE DEF b
    <3>4. /\ ~(a.mon < b.mon) /\ ~(a.mday < b.mday)
          /\ ~(a.hour < b.hour) /\ ~(a.min < b.min) /\ ~(a.sec < b.sec)
      BY <3>2, <3>3
    <3>5. Precedes(Fields(a), Fields(b)) <=> j < k
      BY <2>1, <3>3, <3>4
    <3> QED BY <3>5 DEF a, b
  <2>3. CASE j # k
    <3>1. (a.year < b.year <=> j < k) /\ a.year # b.year
      BY <1>1, <1>2, <2>3, SMT
    <3> HIDE DEF a, b
    <3>2. Precedes(Fields(a), Fields(b)) <=> j < k
      BY <2>1, <3>1
    <3> QED BY <3>2 DEF a, b
  <2> QED BY <2>2, <2>3
<1> QED BY <1>3, <1>4

StampPart ==
  input.kind = "stamp" =>
    \E type \in StampTypes, stamp \in Stamps :
      input = [kind |-> "stamp", type |-> type, stamp |-> stamp]
DatesPart ==
  input.kind = "volume dates" =>
    \E k \in [{d[2] : d \in VolumeDates} -> {1, 2, 7, 12}] :
      input = [kind |-> "volume dates", written |-> k, pvd |-> [field \in DOMAIN k |-> Long(k[field])]]

\* Every stamp and date of the run is one the conversions made.
LEMMA StampsMade == Spec => [](StampPart /\ DatesPart)
<1>1. Init => StampPart /\ DatesPart
  BY DEF Init, NoInput, StampPart, DatesPart
<1>2. ASSUME StampPart, DatesPart, [Next]_input PROVE StampPart' /\ DatesPart'
  <2>1. CASE UNCHANGED input
    BY <1>2, <2>1 DEF StampPart, DatesPart
  <2>2. CASE Return
    BY <2>2 DEF Return, NoInput, StampPart, DatesPart
  <2>3. CASE ConvertStamp
    BY <2>3 DEF ConvertStamp, StampPart, DatesPart, StampTypes
  <2>4. CASE ConvertVolumeDates
    <3>1. PICK k \in [{d[2] : d \in VolumeDates} -> {1, 2, 7, 12}] :
            input' = [kind |-> "volume dates", written |-> k,
                      pvd |-> [field \in DOMAIN k |-> Long(k[field])]]
      BY <2>4, Zenon DEF ConvertVolumeDates
    <3>2. input'.kind = "volume dates"
      BY <3>1, Zenon
    <3> QED BY <3>1, <3>2, Zenon DEF StampPart, DatesPart
  <2>5. CASE input'.kind \notin {"stamp", "volume dates"}
    BY <2>5 DEF StampPart, DatesPart
  <2>6. CASE ConvertLongName
    <3>1. input'.kind = "long name"
      BY <2>6, KindOfInput
    <3> QED BY <2>5, <3>1
  <2>7. CASE ConvertShortName
    <3>1. input'.kind = "short name"
      BY <2>7, KindOfInput
    <3> QED BY <2>5, <3>1
  <2>8. CASE ConvertRecord
    <3>1. input'.kind = "record"
      BY <2>8, KindOfInput
    <3> QED BY <2>5, <3>1
  <2>9. CASE ConvertLabel
    <3>1. input'.kind = "label"
      BY <2>9, KindOfInput
    <3> QED BY <2>5, <3>1
  <2>10. CASE ConvertString
    <3>1. input'.kind = "string"
      BY <2>10, KindOfInput
    <3> QED BY <2>5, <3>1
  <2>11. CASE ConvertVolume
    <3>1. input'.kind = "volume"
      BY <2>11, KindOfInput
    <3> QED BY <2>5, <3>1
  <2>12. CASE ConvertTimes
    <3>1. input'.kind = "times"
      BY <2>12, KindOfInput
    <3> QED BY <2>5, <3>1
  <2> QED BY <1>2, <2>1, <2>2, <2>3, <2>4, <2>6, <2>7, <2>8, <2>9, <2>10, <2>11, <2>12 DEF Next, Convert
<1> QED BY <1>1, <1>2, PTL DEF Spec

\* Timestamps of files and volumes sort as what was recorded (fat.c:1271-1314,
\* iso9660.c:115-152, 861-876).
THEOREM StampsAlwaysOrdered == Spec => []StampsOrdered
<1>1. ASSUME StampPart, DatesPart PROVE StampsOrdered
  <2>1. ASSUME input.kind = "stamp", NEW other \in Stamps
        PROVE  Precedes(Recorded(input.type, input.stamp), Recorded(input.type, other))
                 <=> Precedes(Timegm(TmOf(input.type, input.stamp)), Timegm(TmOf(input.type, other)))
    <3>1. input.type \in StampTypes /\ input.stamp \in Stamps
      BY <1>1, <2>1 DEF StampPart
    <3>2. IsStamp(input.stamp) /\ IsStamp(other)
      BY <3>1, <2>1, RunStamps
    <3> QED BY <3>1, <3>2, StampsSort
  <2>2. ASSUME input.kind = "volume dates", NEW d \in VolumeDates, NEW e \in VolumeDates
        PROVE  input.written[d[2]] < input.written[e[2]]
                 <=> Precedes(VolumeTimestamp(input.pvd, d[1]), VolumeTimestamp(input.pvd, e[1]))
    <3>1. PICK k \in [{f[2] : f \in VolumeDates} -> {1, 2, 7, 12}] :
            input = [kind |-> "volume dates", written |-> k,
                     pvd |-> [field \in DOMAIN k |-> Long(k[field])]]
      BY <1>1, <2>2, Zenon DEF DatesPart
    <3>2. input.written = k /\ input.pvd = [field \in DOMAIN k |-> Long(k[field])]
      BY <3>1, Zenon
    <3>3. ASSUME NEW f \in VolumeDates
          PROVE  /\ VolumeTimestamp(input.pvd, f[1]) = LongTime(Long(k[f[2]]))
                 /\ k[f[2]] \in {1, 2, 7, 12}
      <4>1. f[2] \in {g[2] : g \in VolumeDates}
        BY <3>3
      <4>2. f[1] \in DOMAIN DateField /\ DateField[f[1]] = f[2]
        BY <3>3, SMT DEF VolumeDates, DateField
      <4>3. f[2] \in DOMAIN k /\ k[f[2]] \in {1, 2, 7, 12}
        BY <4>1, Zenon
      <4>4. input.pvd[f[2]] = Long(k[f[2]])
        BY <3>2, <4>3, Zenon
      <4> QED BY <4>2, <4>3, <4>4, Zenon DEF VolumeTimestamp
    <3> DEFINE x == k[d[2]]
               y == k[e[2]]
    <3>4. Precedes(LongTime(Long(x)), LongTime(Long(y))) <=> x < y
      <4>1. x \in {1, 2, 7, 12} /\ y \in {1, 2, 7, 12}
        BY <2>2, <3>3, Zenon
      <4> HIDE DEF x, y
      <4> QED BY <4>1, RunDatesSort
    <3> QED BY <2>2, <3>2, <3>3, <3>4, Zenon
  <2> QED BY <2>1, <2>2, Zenon DEF StampsOrdered
<1> QED BY <1>1, StampsMade, PTL

-----------------------------------------------------------------------------
\* Directory records.

Octet == {n \in Nat : n < 256}

\* A part of a record is the text whose bytes it has.
LEMMA TextIs ==
  ASSUME NEW S, NEW r \in Seq(S), NEW o \in Nat, NEW t \in Seq(S), o + Len(t) <= Len(r),
         \A j \in 1 .. Len(t) : r[o + j] = t[j]
  PROVE  Text(r, o, Len(t)) = t
<1> DEFINE n == Len(t)
           u == SubSeq(r, o + 1, o + n)
<1>1. n \in Nat /\ Len(r) \in Nat
  BY LenProperties
<1> HIDE DEF n
<1>2. /\ o + 1 \in 1 .. Len(r) + 1 /\ o + n \in (o + 1) - 1 .. Len(r)
      /\ (o + n) - (o + 1) + 1 = n /\ (o + 1 <= o + n <=> n # 0)
  BY <1>1, SMT DEF n
<1>3. /\ u \in Seq(S) /\ Len(u) = n
      /\ \A i \in 1 .. n : u[i] = r[o + 1 + i - 1]
  <2>1. \A i \in o + 1 .. o + n : i \in 1 .. Len(r)
    BY <1>1, <1>2, SMT
  <2>2. (\A i \in o + 1 .. o + n : r[i] \in S) /\ o + 1 \in Int /\ o + n \in Int
    BY <1>1, <2>1, ElementOfSeq
  <2>3. /\ u \in Seq(S)
        /\ Len(u) = IF o + 1 <= o + n THEN (o + n) - (o + 1) + 1 ELSE 0
        /\ \A i \in 1 .. (o + n) - (o + 1) + 1 : u[i] = r[o + 1 + i - 1]
    <3> DEFINE a == o + 1
               b == o + n
    <3>1. (\A i \in a .. b : r[i] \in S) /\ a \in Int /\ b \in Int
      BY <2>2
    <3> HIDE DEF a, b
    <3>2. /\ SubSeq(r, a, b) \in Seq(S)
          /\ Len(SubSeq(r, a, b)) = IF a <= b THEN b - a + 1 ELSE 0
          /\ \A i \in 1 .. b - a + 1 : SubSeq(r, a, b)[i] = r[a + i - 1]
      BY <3>1, SubSeqProperties
    <3> QED BY <3>2, Zenon DEF a, b
  <2> QED BY <1>2, <2>3
<1> HIDE DEF u
<1>4. \A i \in 1 .. n : u[i] = t[i]
  <2>1. \A i \in 1 .. n : o + 1 + i - 1 = o + i
    BY <1>1, SMT
  <2> QED BY <1>3, <2>1 DEF n
<1>5. u = t
  BY <1>3, <1>4, SeqEqual DEF n
<1> QED BY <1>5 DEF u, n, Text

\* Bytes without a 0 are a C string.
LEMMA WholeText ==
  ASSUME NEW t \in Seq(Nat), \A i \in 1 .. Len(t) : t[i] # 0
  PROVE  CString(t) = t
<1>1. DOMAIN t = 1 .. Len(t) /\ Len(t) \in Nat
  BY LenProperties
<1>2. {i \in DOMAIN t : t[i] = 0} = {}
  BY <1>1
<1>3. Min({Len(t) + 1}) = Len(t) + 1
  BY <1>1, SMT DEF Min
<1>4. {} \cup {Len(t) + 1} = {Len(t) + 1} /\ (Len(t) + 1) - 1 = Len(t)
  BY <1>1, SMT
<1>5. CString(t) = SubSeq(t, 1, Len(t))
  BY <1>2, <1>3, <1>4 DEF CString
<1> QED BY <1>5, SubSeqFull

\* The loop over the extensions: what it makes of each place.
Walks(r, identifier, f) ==
  \A cur \in 0 .. 510 :
    f[cur] = IF cur >= EntrySize(r) \/ Byte(r, cur + 2) = 0 THEN Nothing
             ELSE IF Text(r, cur, 2) = identifier THEN cur
             ELSE f[cur + Byte(r, cur + 2)]
HasWalk(r, identifier) ==
  \E f : Walks(r, identifier, f) /\ FirstExtension(r, identifier) = f[ExtensionStart(r)]

LEMMA WalkOf ==
  ASSUME NEW r \in Seq(Octet), NEW identifier, EntrySize(r) \in Octet, EntrySize(r) + 3 <= Len(r)
  PROVE  HasWalk(r, identifier)
<1> DEFINE n == EntrySize(r)
           IsF(f) == f = [cur \in 0 .. 510 |->
                            IF cur >= EntrySize(r) \/ Byte(r, cur + 2) = 0 THEN Nothing
                            ELSE IF Text(r, cur, 2) = identifier THEN cur
                            ELSE f[cur + Byte(r, cur + 2)]]
           f == CHOOSE h : IsF(h)
           step == [k \in 0 .. n - 1 |-> [v \in Nat |->
                      IF Byte(r, k + 2) = 0 THEN 0
                      ELSE IF Text(r, k, 2) = identifier THEN k ELSE v]]
           next == [k \in 0 .. n - 1 |->
                      IF Byte(r, k + 2) = 0 THEN k + 1 ELSE k + Byte(r, k + 2)]
<1>1. n \in Nat /\ n <= 255 /\ Len(r) \in Nat
  <2>1. Len(r) \in Nat /\ n \in Octet
    BY LenProperties
  <2> HIDE DEF n
  <2> QED BY <2>1, SMT DEF Octet
<1>2. ASSUME NEW k \in 0 .. n - 1 PROVE Byte(r, k + 2) \in Nat /\ Byte(r, k + 2) <= 255
  <2>1. (k + 2) + 1 \in 1 .. Len(r)
    BY <1>1, SMT
  <2>2. r[(k + 2) + 1] \in Octet
    BY <2>1, ElementOfSeq
  <2> QED BY <2>2, SMT DEF Byte, Octet
<1>3. step \in [0 .. n - 1 -> [Nat -> Nat]]
  <2>1. \A k \in 0 .. n - 1 : k \in Nat
    BY <1>1, SMT
  <2> QED BY <2>1
<1>4. next \in [0 .. n - 1 -> 0 .. 510] /\ \A k \in 0 .. n - 1 : k < next[k]
  <2>1. ASSUME NEW k \in 0 .. n - 1
        PROVE  /\ k < IF Byte(r, k + 2) = 0 THEN k + 1 ELSE k + Byte(r, k + 2)
               /\ (IF Byte(r, k + 2) = 0 THEN k + 1 ELSE k + Byte(r, k + 2)) \in 0 .. 510
    <3> DEFINE b == Byte(r, k + 2)
    <3>1. b \in Nat /\ b <= 255
      BY <1>2
    <3> HIDE DEF b, n
    <3>2. k \in Nat /\ k <= 254
      BY <1>1, SMT
    <3>3. /\ k < IF b = 0 THEN k + 1 ELSE k + b
          /\ (IF b = 0 THEN k + 1 ELSE k + b) >= 0
          /\ (IF b = 0 THEN k + 1 ELSE k + b) <= 510
          /\ (IF b = 0 THEN k + 1 ELSE k + b) \in Int
      BY <3>1, <3>2, SMT
    <3> DEFINE w == 510
               e == IF b = 0 THEN k + 1 ELSE k + b
    <3> HIDE DEF w, e
    <3>4. e \in 0 .. w
      <4>1. e \in Int /\ 0 <= e /\ e <= w /\ w \in Int
        BY <3>3, SMT DEF w, e
      <4> QED BY <4>1, SMT
    <3> QED BY <3>3, <3>4 DEF b, w, e
  <2> QED BY <2>1
<1>5. HasValuesDown(0, n, 510, Nat, 0, step, next)
  <2>1. 0 \in Nat /\ 510 \in Nat /\ 0 <= n /\ n <= 510 + 1
    BY <1>1, SMT
  <2> HIDE DEF n, step, next
  <2> QED BY <1>1, <1>3, <1>4, <2>1, StepByStepDown, ZenonT(60)
<1>6. PICK g \in [0 .. 510 -> Nat] :
        \A k \in 0 .. 510 : g[k] = IF k >= n THEN 0 ELSE step[k][g[next[k]]]
  BY <1>5 DEF HasValuesDown
<1>7. ASSUME NEW k \in 0 .. 510
      PROVE  g[k] = IF k >= n \/ Byte(r, k + 2) = 0 THEN Nothing
                    ELSE IF Text(r, k, 2) = identifier THEN k
                    ELSE g[k + Byte(r, k + 2)]
  <2>1. CASE k >= n
    BY <1>6, <2>1 DEF Nothing
  <2>2. CASE ~(k >= n)
    <3>1. k \in 0 .. n - 1
      <4> HIDE DEF n
      <4>1. k \in Nat
        BY SMTT(30)
      <4> QED BY <1>1, <2>2, <4>1, SMT
    <3>2. g[k] = step[k][g[next[k]]]
      BY <1>6, <2>2
    <3>3. g[next[k]] \in Nat
      BY <1>4, <3>1, ZenonT(60)
    <3>4. g[k] = IF Byte(r, k + 2) = 0 THEN 0
                 ELSE IF Text(r, k, 2) = identifier THEN k ELSE g[next[k]]
      BY <3>1, <3>2, <3>3
    <3>5. Byte(r, k + 2) # 0 => next[k] = k + Byte(r, k + 2)
      BY <3>1
    <3> QED BY <2>2, <3>4, <3>5 DEF Nothing
  <2> QED BY <2>1, <2>2
<1>8. IsF(g)
  <2> DEFINE D == 0 .. 510
             h == [cur \in D |->
                            IF cur >= EntrySize(r) \/ Byte(r, cur + 2) = 0 THEN Nothing
                            ELSE IF Text(r, cur, 2) = identifier THEN cur
                            ELSE g[cur + Byte(r, cur + 2)]]
  <2>1. \A k \in D : g[k] = h[k]
    BY <1>7, Zenon
  <2>2. g \in [D -> Nat]
    BY <1>6
  <2>3. g = h
    <3>1. g = [k \in D |-> g[k]]
      BY <2>2
    <3>2. h = [k \in D |-> h[k]]
      OBVIOUS
    <3> HIDE DEF h, D
    <3> QED BY <2>1, <3>1, <3>2
  <2> QED BY <2>3
<1>9. IsF(f)
  BY <1>8, ZenonT(60)
<1>10. FirstExtension(r, identifier) = f[ExtensionStart(r)]
  BY DEF FirstExtension
<1>11. Walks(r, identifier, f)
  <2> HIDE DEF f
  <2> QED BY <1>9, Zenon DEF Walks
<1> QED BY <1>10, <1>11 DEF HasWalk

\* One text behind another.
LEMMA Joined2 ==
  ASSUME NEW S, NEW s \in Seq(S), NEW t \in Seq(S)
  PROVE  /\ s \o t \in Seq(S) /\ Len(s \o t) = Len(s) + Len(t)
         /\ Len(s) \in Nat /\ Len(t) \in Nat
         /\ \A p \in 1 .. Len(s) : (s \o t)[p] = s[p]
         /\ \A p \in 1 .. Len(t) : (s \o t)[Len(s) + p] = t[p]
<1>1. Len(s) \in Nat /\ Len(t) \in Nat
  BY LenProperties
<1>2. /\ s \o t \in Seq(S) /\ Len(s \o t) = Len(s) + Len(t)
      /\ \A i \in 1 .. Len(s) + Len(t) :
           (s \o t)[i] = IF i <= Len(s) THEN s[i] ELSE t[i - Len(s)]
  BY ConcatProperties
<1>3. ASSUME NEW p \in 1 .. Len(s) PROVE (s \o t)[p] = s[p]
  BY <1>1, <1>2, SMT
<1>4. ASSUME NEW p \in 1 .. Len(t) PROVE (s \o t)[Len(s) + p] = t[p]
  <2>1. /\ Len(s) + p \in 1 .. Len(s) + Len(t) /\ ~(Len(s) + p <= Len(s))
        /\ (Len(s) + p) - Len(s) = p
    BY <1>1, SMT
  <2> QED BY <1>2, <2>1
<1> QED BY <1>1, <1>2, <1>3, <1>4

\* Texts joined, and where each begins.
PartsAt(texts, flat, k, at) ==
  /\ at[1] = 0 /\ at[k + 1] = Len(flat)
  /\ \A i \in 1 .. k : /\ at[i + 1] = at[i] + Len(texts[i]) /\ at[i + 1] <= Len(flat)
                       /\ \A j \in 1 .. Len(texts[i]) : flat[at[i] + j] = texts[i][j]
HasParts(S, texts, flat, k) ==
  flat \in Seq(S) /\ \E at \in [1 .. k + 1 -> Nat] : PartsAt(texts, flat, k, at)

LEMMA OnePartMore ==
  ASSUME NEW S, NEW texts \in Seq(Seq(S)), NEW k \in Nat, k < Len(texts),
         NEW flat, HasParts(S, texts, flat, k)
  PROVE  HasParts(S, texts, flat \o texts[k + 1], k + 1)
<1>1. PICK at \in [1 .. k + 1 -> Nat] : PartsAt(texts, flat, k, at)
  BY DEF HasParts
<1> DEFINE t == texts[k + 1]
           more == [i \in 1 .. (k + 1) + 1 |-> IF i = (k + 1) + 1 THEN Len(flat) + Len(t) ELSE at[i]]
<1>2. Len(texts) \in Nat /\ k + 1 \in 1 .. Len(texts)
  <2>1. Len(texts) \in Nat
    BY LenProperties
  <2> QED BY <2>1, SMT
<1>3. t \in Seq(S) /\ flat \in Seq(S)
  BY <1>2, ElementOfSeq DEF HasParts
<1> HIDE DEF t
<1>4. /\ flat \o t \in Seq(S) /\ Len(flat \o t) = Len(flat) + Len(t)
      /\ Len(flat) \in Nat /\ Len(t) \in Nat
      /\ \A p \in 1 .. Len(flat) : (flat \o t)[p] = flat[p]
      /\ \A p \in 1 .. Len(t) : (flat \o t)[Len(flat) + p] = t[p]
  BY <1>3, Joined2
<1>5. more \in [1 .. (k + 1) + 1 -> Nat]
  <2>1. \A i \in 1 .. (k + 1) + 1 : i # (k + 1) + 1 => i \in 1 .. k + 1
    BY SMT
  <2>2. Len(flat) + Len(t) \in Nat
    BY <1>4, SMT
  <2> QED BY <1>1, <2>1, <2>2
<1>6. /\ more[1] = 0 /\ more[(k + 1) + 1] = Len(flat) + Len(t)
      /\ \A i \in 1 .. k + 1 : more[i] = at[i]
  <2>1. /\ 1 # (k + 1) + 1 /\ 1 \in 1 .. (k + 1) + 1 /\ (k + 1) + 1 \in 1 .. (k + 1) + 1
        /\ \A i \in 1 .. k + 1 : i \in 1 .. (k + 1) + 1 /\ i # (k + 1) + 1
    BY SMT
  <2>2. at[1] = 0
    BY <1>1 DEF PartsAt
  <2> QED BY <2>1, <2>2, Zenon
<1> HIDE DEF more
<1>7. ASSUME NEW i \in 1 .. k + 1
      PROVE  /\ more[i + 1] = more[i] + Len(texts[i]) /\ more[i + 1] <= Len(flat \o t)
             /\ \A j \in 1 .. Len(texts[i]) : (flat \o t)[more[i] + j] = texts[i][j]
  <2>1. CASE i = k + 1
    <3>1. more[i] = Len(flat) /\ more[i + 1] = Len(flat) + Len(t) /\ texts[i] = t
      BY <1>1, <1>6, <2>1 DEF PartsAt, t
    <3> QED BY <1>4, <3>1, SMT
  <2>2. CASE i # k + 1
    <3>1. i \in 1 .. k /\ i + 1 \in 1 .. k + 1 /\ i \in 1 .. Len(texts)
      BY <1>2, <2>2, SMT
    <3>2. more[i] = at[i] /\ more[i + 1] = at[i + 1] /\ at[i] \in Nat
      BY <1>1, <1>6, <3>1
    <3>3. /\ at[i + 1] = at[i] + Len(texts[i]) /\ at[i + 1] <= Len(flat)
          /\ \A j \in 1 .. Len(texts[i]) : flat[at[i] + j] = texts[i][j]
      BY <1>1, <3>1 DEF PartsAt
    <3>4. texts[i] \in Seq(S)
      BY <3>1, ElementOfSeq
    <3>5. Len(texts[i]) \in Nat
      BY <3>4, LenProperties
    <3>6. \A j \in 1 .. Len(texts[i]) : at[i] + j \in 1 .. Len(flat)
      BY <1>4, <3>2, <3>3, <3>5, SMTT(30)
    <3>7. \A j \in 1 .. Len(texts[i]) : (flat \o t)[more[i] + j] = texts[i][j]
      BY <1>4, <3>2, <3>3, <3>6
    <3>8. more[i + 1] <= Len(flat \o t)
      BY <1>4, <3>2, <3>3, <3>5, SMT
    <3> QED BY <3>2, <3>3, <3>7, <3>8
  <2> QED BY <2>1, <2>2
<1>8. PartsAt(texts, flat \o t, k + 1, more)
  BY <1>4, <1>6, <1>7 DEF PartsAt
<1> QED BY <1>4, <1>5, <1>8 DEF HasParts, t

LEMMA PartsOf ==
  ASSUME NEW S, NEW texts \in Seq(Seq(S))
  PROVE  HasParts(S, texts, FlattenSeq(texts), Len(texts))
<1> DEFINE n == Len(texts)
<1>1. n \in Nat /\ \A i \in 1 .. n : texts[i] \in Seq(S)
  BY LenProperties, ElementOfSeq
<1>2. HasParts(S, texts, << >>, 0)
  <2> DEFINE at == [i \in 1 .. 1 |-> 0]
  <2>1. << >> \in Seq(S) /\ Len(<< >>) = 0
    BY EmptySeq
  <2>2. 1 .. 0 = {} /\ 0 + 1 = 1
    BY SMT
  <2>3. at \in [1 .. 1 -> Nat] /\ at[1] = 0
    OBVIOUS
  <2> HIDE DEF at
  <2>4. PartsAt(texts, << >>, 0, at)
    BY <2>1, <2>2, <2>3 DEF PartsAt
  <2> QED BY <2>1, <2>2, <2>3, <2>4 DEF HasParts
<1>3. CASE n = 0
  <2>1. texts = << >>
    BY <1>3, EmptySeq
  <2> QED BY <1>2, <1>3, <2>1 DEF FlattenSeq
<1>4. CASE n # 0
  <2> DEFINE IsF(f) == f = [i \in 1 .. Len(texts) |->
                              IF i = 1 THEN texts[i] ELSE f[i - 1] \o texts[i]]
             f == CHOOSE h : IsF(h)
             V == Seq(S)
             step == [k \in 1 .. n |-> [v \in V |-> v \o texts[k]]]
  <2>1. step \in [1 .. n -> [V -> V]]
    BY <1>1, ConcatProperties
  <2>2. << >> \in V
    BY EmptySeq
  <2>3. HasValues(n, V, << >>, step)
    <3> HIDE DEF V, step, n
    <3> QED BY <1>1, <2>1, <2>2, StepByStep
  <2>4. PICK g \in [0 .. n -> V] : g[0] = << >> /\ \A k \in 1 .. n : g[k] = step[k][g[k - 1]]
    BY <2>3 DEF HasValues
  <2> DEFINE h == [i \in 1 .. n |-> g[i]]
  <2>5. ASSUME NEW i \in 1 .. n
        PROVE  h[i] = IF i = 1 THEN texts[i] ELSE h[i - 1] \o texts[i]
    <3>1. i - 1 \in 0 .. n /\ (i # 1 => i - 1 \in 1 .. n)
      <4> HIDE DEF n
      <4> QED BY <1>1, SMT
    <3>2. g[i] = g[i - 1] \o texts[i]
      BY <2>4, <3>1
    <3>3. i = 1 => g[i - 1] = << >>
      BY <2>4
    <3>4. << >> \o texts[i] = texts[i]
      BY <1>1, ConcatEmptySeq
    <3> QED BY <3>1, <3>2, <3>3, <3>4
  <2>6. IsF(h)
    <3>1. h = [i \in 1 .. n |-> h[i]]
      OBVIOUS
    <3> HIDE DEF h
    <3> QED BY <2>5, <3>1
  <2>7. IsF(f)
    BY <2>6
  <2>8. FlattenSeq(texts) = f[n]
    BY <1>4 DEF FlattenSeq
  <2> HIDE DEF f
  <2>9. \A i \in 1 .. n : f[i] = IF i = 1 THEN texts[i] ELSE f[i - 1] \o texts[i]
    BY <2>7
  <2> DEFINE T == {m \in Nat : m + 1 <= n => HasParts(S, texts, f[m + 1], m + 1)}
  <2>10. 0 \in T
    <3>1. HasParts(S, texts, << >> \o texts[0 + 1], 0 + 1)
      <4>1. 0 < n
        BY <1>1, <1>4, SMT
      <4> QED BY <1>2, <4>1, OnePartMore
    <3>2. 1 \in 1 .. n /\ 0 + 1 = 1
      BY <1>1, <1>4, SMT
    <3>3. << >> \o texts[1] = texts[1] /\ f[1] = texts[1]
      BY <1>1, <2>9, <3>2, ConcatEmptySeq
    <3> QED BY <3>1, <3>2, <3>3
  <2>11. ASSUME NEW m \in T PROVE m + 1 \in T
    <3> SUFFICES ASSUME (m + 1) + 1 <= n
                 PROVE  HasParts(S, texts, f[(m + 1) + 1], (m + 1) + 1)
      OBVIOUS
    <3>1. /\ m \in Nat /\ m + 1 <= n /\ m + 1 \in Nat /\ m + 1 < n
          /\ (m + 1) + 1 \in 1 .. n /\ (m + 1) + 1 # 1 /\ ((m + 1) + 1) - 1 = m + 1
      <4>1. m \in Nat
        OBVIOUS
      <4> HIDE DEF n, T
      <4> QED BY <1>1, <4>1, SMT
    <3>2. HasParts(S, texts, f[m + 1], m + 1)
      BY <3>1
    <3>3. HasParts(S, texts, f[m + 1] \o texts[(m + 1) + 1], (m + 1) + 1)
      BY <3>1, <3>2, OnePartMore
    <3>4. f[(m + 1) + 1] = f[m + 1] \o texts[(m + 1) + 1]
      BY <2>9, <3>1
    <3> QED BY <3>3, <3>4
  <2>12. T = Nat
    <3>1. T \in SUBSET Nat
      OBVIOUS
    <3> HIDE DEF T
    <3> QED BY <2>10, <2>11, <3>1, SetInduction
  <2>13. n - 1 \in Nat /\ (n - 1) + 1 = n /\ n <= n
    BY <1>1, <1>4, SMT
  <2>14. HasParts(S, texts, f[(n - 1) + 1], (n - 1) + 1)
    BY <2>12, <2>13
  <2> QED BY <2>8, <2>13, <2>14
<1> QED BY <1>3, <1>4

\* The bytes of the dates the records have.
LEMMA ShortTyped ==
  ASSUME NEW k \in 1 .. 8
  PROVE  Short(k) \in Seq(Octet) /\ Len(Short(k)) = 7
<1>1. k \in Nat /\ 1 <= k /\ k <= 8
  BY SMT
<1>2. Short(k) = <<(2000 + k) - 1900, k, k + 1, k + 2, 10 + k, 20 + k, 36>>
  BY DEF Short, Date
<1>3. /\ (2000 + k) - 1900 \in Octet /\ k \in Octet /\ k + 1 \in Octet /\ k + 2 \in Octet
      /\ 10 + k \in Octet /\ 20 + k \in Octet /\ 36 \in Octet
  BY <1>1, SMT DEF Octet
<1> QED BY <1>2, <1>3

LEMMA DigitsTyped ==
  ASSUME NEW n \in Nat, n < 100
  PROVE  Digits(n) \in Seq(Octet) /\ Len(Digits(n)) = 2
<1>1. 48 + (n \div 10) \in Octet /\ 48 + (n % 10) \in Octet
  BY SMT DEF Octet
<1> QED BY <1>1 DEF Digits

LEMMA Longer ==
  ASSUME NEW t \in Seq(Octet), NEW u \in Seq(Octet), NEW n \in Nat, NEW m \in Nat,
         Len(t) = n, Len(u) = m
  PROVE  t \o u \in Seq(Octet) /\ Len(t \o u) = n + m
BY Joined2

LEMMA LongTyped ==
  ASSUME NEW k \in 1 .. 7
  PROVE  Long(k) \in Seq(Octet) /\ Len(Long(k)) = 17
<1> DEFINE a == Digits(Date(k).year \div 100)
           b == Digits(Date(k).year % 100)
           c == Digits(Date(k).mon)
           d == Digits(Date(k).mday)
           e == Digits(Date(k).hour)
           f == Digits(Date(k).min)
           g == Digits(Date(k).sec)
           z == <<48, 48, 0>>
<1>1. /\ Date(k).year = 2000 + k /\ Date(k).mon = k /\ Date(k).mday = k + 1
      /\ Date(k).hour = k + 2 /\ Date(k).min = 10 + k /\ Date(k).sec = 20 + k
  BY DEF Date
<1>2. Long(k) = a \o b \o c \o d \o e \o f \o g \o z
  BY Zenon DEF Long
<1>3. /\ Date(k).year \div 100 \in Nat /\ Date(k).year \div 100 < 100
      /\ Date(k).year % 100 \in Nat /\ Date(k).year % 100 < 100
      /\ Date(k).mon \in Nat /\ Date(k).mday \in Nat /\ Date(k).hour \in Nat
      /\ Date(k).min \in Nat /\ Date(k).sec \in Nat
      /\ Date(k).mon < 100 /\ Date(k).mday < 100 /\ Date(k).hour < 100
      /\ Date(k).min < 100 /\ Date(k).sec < 100
  <2>1. k \in Nat /\ 1 <= k /\ k <= 7
    BY SMT
  <2> QED BY <1>1, <2>1, SMT
<1>4. a \in Seq(Octet) /\ Len(a) = 2 /\ b \in Seq(Octet) /\ Len(b) = 2
  BY <1>3, DigitsTyped
<1>5. c \in Seq(Octet) /\ Len(c) = 2 /\ d \in Seq(Octet) /\ Len(d) = 2
  BY <1>3, DigitsTyped
<1>6. e \in Seq(Octet) /\ Len(e) = 2 /\ f \in Seq(Octet) /\ Len(f) = 2
  BY <1>3, DigitsTyped
<1>7. g \in Seq(Octet) /\ Len(g) = 2
  BY <1>3, DigitsTyped
<1>8. z \in Seq(Octet) /\ Len(z) = 3
  <2>1. 48 \in Octet /\ 0 \in Octet
    BY SMT DEF Octet
  <2> QED BY <2>1
<1> HIDE DEF a, b, c, d, e, f, g, z
<1> DEFINE two == 2
           three == 3
           n4 == two + two
           n6 == n4 + two
           n8 == n6 + two
           n10 == n8 + two
           n12 == n10 + two
           n14 == n12 + two
           n17 == n14 + three
<1>9. /\ n4 \in Nat /\ n6 \in Nat /\ n8 \in Nat /\ n10 \in Nat /\ n12 \in Nat /\ n14 \in Nat
      /\ n17 = 17 /\ two \in Nat /\ three \in Nat
      /\ Len(a) = two /\ Len(b) = two /\ Len(c) = two /\ Len(d) = two /\ Len(e) = two
      /\ Len(f) = two /\ Len(g) = two /\ Len(z) = three
  BY <1>4, <1>5, <1>6, <1>7, <1>8, SMT
<1> HIDE DEF two, three
<1>10. a \o b \in Seq(Octet) /\ Len(a \o b) = n4
  BY <1>4, <1>9, Longer
<1> HIDE DEF n4
<1>11. a \o b \o c \in Seq(Octet) /\ Len(a \o b \o c) = n6
  <2> DEFINE t == a \o b
  <2>1. t \in Seq(Octet) /\ Len(t) = n4
    BY <1>10
  <2> HIDE DEF t
  <2>2. t \o c \in Seq(Octet) /\ Len(t \o c) = n6
    BY <1>5, <1>9, <2>1, Longer
  <2> QED BY <2>2 DEF t
<1> HIDE DEF n6
<1>12. a \o b \o c \o d \in Seq(Octet) /\ Len(a \o b \o c \o d) = n8
  <2> DEFINE t == a \o b \o c
  <2>1. t \in Seq(Octet) /\ Len(t) = n6
    BY <1>11
  <2> HIDE DEF t
  <2>2. t \o d \in Seq(Octet) /\ Len(t \o d) = n8
    BY <1>5, <1>9, <2>1, Longer
  <2> QED BY <2>2 DEF t
<1> HIDE DEF n8
<1>13. a \o b \o c \o d \o e \in Seq(Octet) /\ Len(a \o b \o c \o d \o e) = n10
  <2> DEFINE t == a \o b \o c \o d
  <2>1. t \in Seq(Octet) /\ Len(t) = n8
    BY <1>12
  <2> HIDE DEF t
  <2>2. t \o e \in Seq(Octet) /\ Len(t \o e) = n10
    BY <1>6, <1>9, <2>1, Longer
  <2> QED BY <2>2 DEF t
<1> HIDE DEF n10
<1>14. a \o b \o c \o d \o e \o f \in Seq(Octet) /\ Len(a \o b \o c \o d \o e \o f) = n12
  <2> DEFINE t == a \o b \o c \o d \o e
  <2>1. t \in Seq(Octet) /\ Len(t) = n10
    BY <1>13
  <2> HIDE DEF t
  <2>2. t \o f \in Seq(Octet) /\ Len(t \o f) = n12
    BY <1>6, <1>9, <2>1, Longer
  <2> QED BY <2>2 DEF t
<1> HIDE DEF n12
<1>15. a \o b \o c \o d \o e \o f \o g \in Seq(Octet) /\ Len(a \o b \o c \o d \o e \o f \o g) = n14
  <2> DEFINE t == a \o b \o c \o d \o e \o f
  <2>1. t \in Seq(Octet) /\ Len(t) = n12
    BY <1>14
  <2> HIDE DEF t
  <2>2. t \o g \in Seq(Octet) /\ Len(t \o g) = n14
    BY <1>7, <1>9, <2>1, Longer
  <2> QED BY <2>2 DEF t
<1> HIDE DEF n14
<1>16. a \o b \o c \o d \o e \o f \o g \o z \in Seq(Octet) /\ Len(a \o b \o c \o d \o e \o f \o g \o z) = n17
  <2> DEFINE t == a \o b \o c \o d \o e \o f \o g
  <2>1. t \in Seq(Octet) /\ Len(t) = n14
    BY <1>15
  <2> HIDE DEF t
  <2>2. t \o z \in Seq(Octet) /\ Len(t \o z) = n17
    BY <1>8, <1>9, <2>1, Longer
  <2> QED BY <2>2 DEF t
<1> HIDE DEF n17
<1> QED BY <1>2, <1>9, <1>16

\* The header of a record, and what fills it up to an even place.
LEMMA HeaderIs ==
  ASSUME NEW size \in Octet, NEW length \in Octet
  PROVE  /\ Header(size, length) \in Seq(Octet) /\ Len(Header(size, length)) = HeaderSize
         /\ Header(size, length)[1] = size /\ Header(size, length)[HeaderSize] = length
         /\ \A j \in 1 .. 7 : Header(size, length)[CreatedTime + j] = Short(HeaderDate)[j]
<1> DEFINE h == Header(size, length)
           entry(i) == IF i = 1 THEN size ELSE IF i = HeaderSize THEN length
                       ELSE IF i \in CreatedTime + 1 .. CreatedTime + 7
                            THEN Short(HeaderDate)[i - CreatedTime] ELSE 0
           w == HeaderSize
<1>1. h = [i \in 1 .. w |-> entry(i)]
  BY DEF Header
<1>2. Short(HeaderDate) \in Seq(Octet) /\ Len(Short(HeaderDate)) = 7
  BY ShortTyped DEF HeaderDate
<1>3. ASSUME NEW i \in 1 .. w PROVE entry(i) \in Octet
  <2>1. 0 \in Octet
    BY SMT DEF Octet
  <2>2. ASSUME i \in CreatedTime + 1 .. CreatedTime + 7 PROVE Short(HeaderDate)[i - CreatedTime] \in Octet
    <3>1. i - CreatedTime \in 1 .. 7
      BY <2>2, SMT DEF CreatedTime
    <3> QED BY <1>2, <3>1, ElementOfSeq
  <2> QED BY <2>1, <2>2, Zenon
<1>4. ASSUME NEW j \in 1 .. 7 PROVE CreatedTime + j \in 1 .. w /\ entry(CreatedTime + j) = Short(HeaderDate)[j]
  <2>1. /\ CreatedTime + j \in 1 .. w /\ CreatedTime + j # 1 /\ CreatedTime + j # HeaderSize
        /\ CreatedTime + j \in CreatedTime + 1 .. CreatedTime + 7
        /\ (CreatedTime + j) - CreatedTime = j
    BY SMT DEF CreatedTime, HeaderSize
  <2> QED BY <2>1
<1>5. 1 \in 1 .. w /\ w \in 1 .. w /\ entry(1) = size /\ entry(w) = length /\ w \in Nat
  BY SMT DEF HeaderSize
<1> HIDE DEF w, entry, h
<1>6. h \in Seq(Octet) /\ Len(h) = w
  <2>1. h \in [1 .. w -> Octet]
    BY <1>1, <1>3
  <2> QED BY <1>5, <2>1, SMT
<1> QED BY <1>1, <1>4, <1>5, <1>6 DEF w, h

LEMMA FilledIs ==
  ASSUME NEW b \in Seq(Octet)
  PROVE  /\ Filled(b) \in Seq(Octet) /\ Len(Filled(b)) = Len(b) + (Len(b) % 2)
         /\ \A p \in 1 .. Len(b) : Filled(b)[p] = b[p]
         /\ Len(b) % 2 = 1 => Filled(b)[Len(b) + 1] = 0
<1>1. <<0>> \in Seq(Octet) /\ Len(<<0>>) = 1 /\ <<0>>[1] = 0
  <2>1. 0 \in Octet
    BY SMT DEF Octet
  <2> QED BY <2>1
<1>2. Len(b) \in Nat /\ Len(b) % 2 \in {0, 1}
  <2>1. Len(b) \in Nat
    BY LenProperties
  <2> QED BY <2>1, SMT
<1>3. CASE Len(b) % 2 = 1
  <2>1. Filled(b) = b \o <<0>>
    BY <1>3 DEF Filled
  <2>2. /\ b \o <<0>> \in Seq(Octet) /\ Len(b \o <<0>>) = Len(b) + 1
        /\ \A p \in 1 .. Len(b) : (b \o <<0>>)[p] = b[p]
        /\ (b \o <<0>>)[Len(b) + 1] = 0
    BY <1>1, Joined2
  <2> QED BY <1>3, <2>1, <2>2
<1>4. CASE Len(b) % 2 # 1
  <2>1. Filled(b) = b
    BY <1>4 DEF Filled
  <2>2. Len(b) + (Len(b) % 2) = Len(b)
    BY <1>2, <1>4, SMT
  <2> QED BY <1>4, <2>1, <2>2
<1> QED BY <1>3, <1>4

\* Where the extensions of a record begin, by the length of its name, and the
\* record itself: its bytes, and those of the next one it is followed by.
StartBehind(length) == HeaderSize + length + ((length + 1) % 2)
Body(size, identifier, flat) ==
  Filled(Filled(Header(size, Len(identifier)) \o identifier) \o flat)
IsBody(b, size, identifier, flat, s, e) ==
  /\ b \in Seq(Octet) /\ Len(b) = e + (e % 2)
  /\ b[1] = size /\ b[HeaderSize] = Len(identifier)
  /\ \A j \in 1 .. 7 : b[CreatedTime + j] = Short(HeaderDate)[j]
  /\ \A j \in 1 .. Len(identifier) : b[HeaderSize + j] = identifier[j]
  /\ \A j \in 1 .. Len(flat) : b[s + j] = flat[j]

LEMMA BodyIs ==
  ASSUME NEW size \in Octet, NEW identifier \in Seq(Octet), Len(identifier) \in Octet,
         NEW flat \in Seq(Octet)
  PROVE  LET s == StartBehind(Len(identifier))
             e == s + Len(flat)
         IN  IsBody(Body(size, identifier, flat), size, identifier, flat, s, e) /\ s \in Nat /\ e \in Nat
<1> DEFINE length == Len(identifier)
           h == Header(size, length)
           w == HeaderSize
           n == Len(flat)
           a == h \o identifier
           fa == Filled(a)
           c == fa \o flat
           b == Filled(c)
           s == StartBehind(length)
           e == s + n
<1>1. length \in Nat /\ n \in Nat /\ w \in Nat /\ w = 33
  BY LenProperties, SMT DEF HeaderSize
<1>2. /\ h \in Seq(Octet) /\ Len(h) = w /\ h[1] = size /\ h[w] = length
      /\ \A j \in 1 .. 7 : h[CreatedTime + j] = Short(HeaderDate)[j]
  BY HeaderIs, ZenonT(60)
<1> HIDE DEF h
<1>3. /\ a \in Seq(Octet) /\ Len(a) = w + length
      /\ \A p \in 1 .. w : a[p] = h[p]
      /\ \A p \in 1 .. length : a[w + p] = identifier[p]
  <2>1. /\ a \in Seq(Octet) /\ Len(a) = Len(h) + length
        /\ \A p \in 1 .. Len(h) : a[p] = h[p]
        /\ \A p \in 1 .. length : a[Len(h) + p] = identifier[p]
    <3>1. h \in Seq(Octet)
      BY <1>2
    <3> QED BY <3>1, Joined2
  <2> QED BY <1>2, <2>1
<1> HIDE DEF a
<1>4. /\ fa \in Seq(Octet) /\ Len(fa) = Len(a) + (Len(a) % 2)
      /\ \A p \in 1 .. Len(a) : fa[p] = a[p]
  BY <1>3, FilledIs
<1> HIDE DEF fa
<1>5. s = Len(fa) /\ s \in Nat /\ e \in Nat /\ w + length <= s
  <2>1. s = w + length + ((length + 1) % 2)
    BY DEF StartBehind
  <2>2. Len(fa) = (w + length) + ((w + length) % 2)
    BY <1>3, <1>4
  <2> HIDE DEF s, w, length, n
  <2>3. (w + length) % 2 = (length + 1) % 2 /\ (length + 1) % 2 \in Nat
    BY <1>1, SMT
  <2>4. s = Len(fa) /\ s \in Nat /\ w + length <= s /\ s + n \in Nat
    BY <1>1, <2>1, <2>2, <2>3, SMT
  <2> QED BY <2>4
<1>6. /\ c \in Seq(Octet) /\ Len(c) = s + n
      /\ \A p \in 1 .. s : c[p] = fa[p]
      /\ \A p \in 1 .. n : c[s + p] = flat[p]
  <2>1. /\ c \in Seq(Octet) /\ Len(c) = Len(fa) + n
        /\ \A p \in 1 .. Len(fa) : c[p] = fa[p]
        /\ \A p \in 1 .. n : c[Len(fa) + p] = flat[p]
    <3>1. fa \in Seq(Octet)
      BY <1>4
    <3> QED BY <3>1, Joined2
  <2> QED BY <1>5, <2>1
<1> HIDE DEF c, s, length, n, w
<1>7. /\ b \in Seq(Octet) /\ Len(b) = e + (e % 2)
      /\ \A p \in 1 .. e : b[p] = c[p]
  <2>1. /\ b \in Seq(Octet) /\ Len(b) = Len(c) + (Len(c) % 2)
        /\ \A p \in 1 .. Len(c) : b[p] = c[p]
    BY <1>6, FilledIs
  <2> QED BY <1>6, <2>1
<1> HIDE DEF b
<1>8. \A p \in 1 .. w + length : b[p] = a[p]
  <2>1. \A p \in 1 .. w + length : p \in 1 .. s /\ p \in 1 .. e
    BY <1>1, <1>5, SMT
  <2> QED BY <1>3, <1>4, <1>6, <1>7, <2>1
<1>9. /\ \A p \in 1 .. w : b[p] = h[p]
      /\ \A p \in 1 .. length : b[w + p] = identifier[p]
  <2>1. /\ \A p \in 1 .. w : p \in 1 .. w + length
        /\ \A p \in 1 .. length : w + p \in 1 .. w + length
    BY <1>1, SMT
  <2> QED BY <1>3, <1>8, <2>1
<1>10. \A p \in 1 .. n : b[s + p] = flat[p]
  <2>1. \A p \in 1 .. n : s + p \in 1 .. e
    BY <1>1, <1>5, SMT
  <2> QED BY <1>6, <1>7, <2>1
<1>11. /\ 1 \in 1 .. w /\ w \in 1 .. w
       /\ \A j \in 1 .. 7 : CreatedTime + j \in 1 .. w
  BY <1>1, SMT DEF CreatedTime
<1>12. /\ b[1] = size /\ b[w] = length
       /\ \A j \in 1 .. 7 : b[CreatedTime + j] = Short(HeaderDate)[j]
  BY <1>2, <1>9, <1>11
<1>13. IsBody(b, size, identifier, flat, s, e)
  BY <1>7, <1>9, <1>10, <1>12 DEF IsBody, w, length, n
<1>14. b = Body(size, identifier, flat)
  BY DEF Body, b, c, fa, a, h, length
<1> QED BY <1>5, <1>13, <1>14 DEF s, n, length

\* What a record is to the driver: fields, name and extensions, which end where
\* the record ends, or a byte before it.
IsRecord(r, identifier, flat) ==
  LET end == ExtensionStart(r) + Len(flat) IN
  /\ r \in Seq(Octet) /\ EntrySize(r) \in Octet /\ Len(r) = EntrySize(r) + 3
  /\ EntrySize(r) = end + (end % 2) /\ r[EntrySize(r) + 2] = 0
  /\ NameLength(r) = Len(identifier)
  /\ \A j \in 1 .. 7 : r[CreatedTime + j] = Short(HeaderDate)[j]
  /\ \A j \in 1 .. Len(identifier) : r[HeaderSize + j] = identifier[j]
  /\ \A j \in 1 .. Len(flat) : r[ExtensionStart(r) + j] = flat[j]

LEMMA RecordIs ==
  ASSUME NEW identifier \in Seq(Octet), Len(identifier) \in Octet,
         NEW extensions, FlattenSeq(extensions) \in Seq(Octet),
         StartBehind(Len(identifier)) + Len(FlattenSeq(extensions)) <= 254
  PROVE  IsRecord(RecordOf(identifier, extensions), identifier, FlattenSeq(extensions))
<1> DEFINE flat == FlattenSeq(extensions)
           length == Len(identifier)
           s == StartBehind(length)
           n == Len(flat)
           e == s + n
           size == Len(Body(0, identifier, flat))
           b == Body(size, identifier, flat)
           end == <<size, 0, 8>>
           r == RecordOf(identifier, extensions)
<1>1. 0 \in Octet /\ 8 \in Octet
  BY SMT DEF Octet
<1>2. length \in Nat /\ n \in Nat
  BY LenProperties
<1>3. s \in Nat /\ e \in Nat /\ size = e + (e % 2)
  BY <1>1, BodyIs DEF IsBody
<1>4. size \in Octet /\ size >= e /\ size \in Nat
  <2> HIDE DEF s, n, size
  <2>1. e <= 254 /\ e \in Nat
    BY <1>3 DEF s, n
  <2> HIDE DEF e
  <2>2. e + (e % 2) \in Nat /\ e + (e % 2) < 256 /\ e + (e % 2) >= e
    BY <2>1, SMT
  <2> QED BY <1>3, <2>2 DEF Octet
<1>5. IsBody(b, size, identifier, flat, s, e)
  BY <1>4, BodyIs
<1>6. r = b \o end
  BY DEF RecordOf, Body
<1>7. s >= HeaderSize + length
  <2>1. s = HeaderSize + length + ((length + 1) % 2)
    BY DEF StartBehind
  <2> HIDE DEF s, length
  <2> QED BY <1>2, <2>1, SMT DEF HeaderSize
<1> HIDE DEF s, n, length, size, r, b, e
<1>8. end \in Seq(Octet) /\ Len(end) = 3 /\ end[2] = 0
  BY <1>1, <1>4
<1> HIDE DEF end
<1>9. /\ r \in Seq(Octet) /\ Len(r) = size + 3
      /\ \A p \in 1 .. size : r[p] = b[p]
      /\ r[size + 2] = 0
  <2>1. b \in Seq(Octet) /\ Len(b) = size
    BY <1>3, <1>5 DEF IsBody
  <2>2. /\ b \o end \in Seq(Octet) /\ Len(b \o end) = Len(b) + Len(end)
        /\ \A p \in 1 .. Len(b) : (b \o end)[p] = b[p]
        /\ \A p \in 1 .. Len(end) : (b \o end)[Len(b) + p] = end[p]
    <3>1. b \in Seq(Octet) /\ end \in Seq(Octet)
      BY <1>8, <2>1
    <3> QED BY <3>1, Joined2
  <2>3. 2 \in 1 .. 3
    BY SMT
  <2> QED BY <1>6, <1>8, <2>1, <2>2, <2>3
<1>10. /\ 1 \in 1 .. size /\ HeaderSize \in 1 .. size
       /\ \A j \in 1 .. 7 : CreatedTime + j \in 1 .. size
       /\ \A j \in 1 .. length : HeaderSize + j \in 1 .. size
       /\ \A j \in 1 .. n : s + j \in 1 .. size
  <2>1. e = s + n
    BY DEF e
  <2> QED BY <1>2, <1>3, <1>4, <1>7, <2>1, SMT DEF CreatedTime, HeaderSize
<1>11. /\ r[1] = size /\ r[HeaderSize] = length
       /\ \A j \in 1 .. 7 : r[CreatedTime + j] = Short(HeaderDate)[j]
       /\ \A j \in 1 .. length : r[HeaderSize + j] = identifier[j]
       /\ \A j \in 1 .. n : r[s + j] = flat[j]
  <2>1. /\ b[1] = size /\ b[HeaderSize] = length
        /\ \A j \in 1 .. 7 : b[CreatedTime + j] = Short(HeaderDate)[j]
        /\ \A j \in 1 .. length : b[HeaderSize + j] = identifier[j]
        /\ \A j \in 1 .. n : b[s + j] = flat[j]
    BY <1>5 DEF IsBody, length, n
  <2> QED BY <1>9, <1>10, <2>1
<1>12. EntrySize(r) = size /\ NameLength(r) = length
  <2>1. 0 + 1 = 1 /\ 32 + 1 = HeaderSize
    BY SMT DEF HeaderSize
  <2> QED BY <1>11, <2>1 DEF EntrySize, NameLength, Byte
<1>13. ExtensionStart(r) = s
  BY <1>12 DEF ExtensionStart, s, StartBehind
<1>14. IsRecord(r, identifier, flat)
  BY <1>3, <1>4, <1>9, <1>11, <1>12, <1>13 DEF IsRecord, e, n, length
<1> QED BY <1>14 DEF r

\* An extension, what it is marked with, and where it lies in a record.
IsExtension(x) == x \in Seq(Octet) /\ Len(x) >= 4 /\ x[3] = Len(x)
Marked(x, mark) == x[1] = mark[1] /\ x[2] = mark[2]
HoldsAt(r, at, x) ==
  /\ at \in Nat \ {0} /\ at + Len(x) <= Len(r)
  /\ \A j \in 1 .. Len(x) : r[at + j] = x[j]
Finds(r, mark, extensions) ==
  \/ /\ FirstExtension(r, mark) = Nothing
     /\ \A i \in 1 .. Len(extensions) : ~Marked(extensions[i], mark)
  \/ \E i \in 1 .. Len(extensions) :
       Marked(extensions[i], mark) /\ HoldsAt(r, FirstExtension(r, mark), extensions[i])

\* The loop finds an extension with the mark where there is one, and nothing
\* where there is none (iso9660.c:437-482).
LEMMA ExtensionFound ==
  ASSUME NEW r, NEW identifier, NEW extensions \in Seq(Seq(Octet)),
         \A i \in 1 .. Len(extensions) : IsExtension(extensions[i]),
         IsRecord(r, identifier, FlattenSeq(extensions)), Len(identifier) \in Octet,
         NEW a \in Octet, NEW b \in Octet
  PROVE  Finds(r, <<a, b>>, extensions)
<1> DEFINE n == Len(extensions)
           flat == FlattenSeq(extensions)
           size == EntrySize(r)
           s == ExtensionStart(r)
           end == s + Len(flat)
           mark == <<a, b>>
<1>1. n \in Nat /\ \A i \in 1 .. n : extensions[i] \in Seq(Octet)
  BY LenProperties, ElementOfSeq
<1>2. PICK at \in [1 .. n + 1 -> Nat] : PartsAt(extensions, flat, n, at)
  BY PartsOf DEF HasParts
<1>3. /\ r \in Seq(Octet) /\ size \in Octet /\ Len(r) = size + 3
      /\ size = end + (end % 2) /\ r[size + 2] = 0
      /\ \A j \in 1 .. Len(flat) : r[s + j] = flat[j]
      /\ NameLength(r) = Len(identifier)
  BY DEF IsRecord
<1>4. size \in Nat /\ size <= 255 /\ Len(flat) \in Nat
  <2>1. flat \in Seq(Octet)
    BY PartsOf DEF HasParts
  <2> HIDE DEF size
  <2> QED BY <1>3, <2>1, LenProperties, SMT DEF Octet
<1>5. s \in Nat /\ s # 0
  <2> DEFINE l == Len(identifier)
  <2>1. l \in Nat
    BY SMT DEF Octet
  <2>2. s = HeaderSize + l + ((l + 1) % 2)
    BY <1>3 DEF ExtensionStart
  <2> HIDE DEF s, l
  <2> QED BY <2>1, <2>2, SMT DEF HeaderSize
<1>6. PICK f : Walks(r, mark, f) /\ FirstExtension(r, mark) = f[s]
  <2>1. size + 3 <= Len(r)
    BY <1>3, <1>4, SMT
  <2> QED BY <1>3, <2>1, WalkOf DEF HasWalk
<1> DEFINE place(i) == s + at[i]
<1> HIDE DEF flat, size, s, end, mark, n
<1>7. end \in Nat /\ end <= size /\ size <= end + 1
  <2>1. end \in Nat
    BY <1>4, <1>5 DEF end
  <2> QED BY <1>3, <2>1, SMT
<1>8. ASSUME NEW i \in 1 .. n
      PROVE  /\ at[i] \in Nat /\ i + 1 \in 1 .. n + 1 /\ at[i + 1] = at[i] + Len(extensions[i])
             /\ at[i + 1] <= Len(flat)
             /\ \A j \in 1 .. Len(extensions[i]) : flat[at[i] + j] = extensions[i][j]
             /\ Len(extensions[i]) \in Nat /\ Len(extensions[i]) >= 4
             /\ extensions[i][3] = Len(extensions[i]) /\ extensions[i] \in Seq(Octet)
  <2>1. i \in 1 .. n + 1 /\ i + 1 \in 1 .. n + 1
    BY <1>1, SMT
  <2>2. IsExtension(extensions[i])
    BY DEF n
  <2> QED BY <1>1, <1>2, <2>1, <2>2, LenProperties DEF PartsAt, IsExtension
<1>9. ASSUME NEW i \in 1 .. n
      PROVE  /\ HoldsAt(r, place(i), extensions[i]) /\ place(i) < size /\ place(i) \in Nat
             /\ place(i + 1) = place(i) + Len(extensions[i])
  <2> DEFINE x == extensions[i]
             l == Len(x)
             p == at[i]
  <2>1. /\ p \in Nat /\ l \in Nat /\ l >= 4 /\ p + l <= Len(flat) /\ at[i + 1] = p + l
        /\ \A j \in 1 .. l : flat[p + j] = x[j]
    BY <1>8
  <2> HIDE DEF x, l, p
  <2>2. s + p \in Nat /\ s + p # 0 /\ (s + p) + l <= Len(r) /\ s + p < size
        /\ s + (p + l) = (s + p) + l
    <3>1. end = s + Len(flat)
      BY DEF end
    <3> QED BY <1>3, <1>4, <1>5, <1>7, <2>1, <3>1, SMTT(30)
  <2>3. ASSUME NEW j \in 1 .. l PROVE r[(s + p) + j] = x[j]
    <3>1. p + j \in 1 .. Len(flat) /\ s + (p + j) = (s + p) + j
      BY <1>4, <1>5, <2>1, SMT
    <3>2. r[s + (p + j)] = flat[p + j]
      BY <1>3, <3>1
    <3> QED BY <2>1, <3>1, <3>2
  <2>4. HoldsAt(r, s + p, x)
    BY <2>2, <2>3 DEF HoldsAt, l
  <2> QED BY <2>1, <2>2, <2>4 DEF x, l, p
<1>10. ASSUME NEW i \in 1 .. n
       PROVE  f[place(i)] = IF Marked(extensions[i], mark) THEN place(i) ELSE f[place(i + 1)]
  <2> DEFINE x == extensions[i]
             l == Len(x)
             p == place(i)
  <2>1. /\ HoldsAt(r, p, x) /\ p < size /\ p \in Nat /\ place(i + 1) = p + l
        /\ l \in Nat /\ l >= 4 /\ x[3] = l /\ x \in Seq(Octet)
    BY <1>8, <1>9
  <2> DEFINE q == place(i + 1)
  <2>2. q = p + l
    BY <2>1
  <2> HIDE DEF x, l, p, q
  <2>3. \A j \in 1 .. l : r[p + j] = x[j]
    BY <2>1 DEF HoldsAt, l
  <2>4. 1 \in 1 .. l /\ 2 \in 1 .. l /\ 3 \in 1 .. l /\ l # 0 /\ ~(p >= size) /\ (p + 2) + 1 = p + 3
    BY <1>4, <2>1, SMT
  <2>5. Byte(r, p + 2) = l
    BY <2>1, <2>3, <2>4 DEF Byte
  <2>6. Text(r, p, 2) = <<x[1], x[2]>>
    <3> DEFINE t == <<x[1], x[2]>>
    <3>1. x[1] \in Octet /\ x[2] \in Octet
      BY <2>1, <2>4, ElementOfSeq DEF l
    <3>2. t \in Seq(Octet) /\ Len(t) = 2 /\ t[1] = x[1] /\ t[2] = x[2]
      BY <3>1
    <3> HIDE DEF t
    <3>3. p + 2 <= Len(r)
      BY <1>3, <1>4, <2>1, SMT
    <3>4. \A j \in 1 .. 2 : j = 1 \/ j = 2
      BY SMT
    <3>5. \A j \in 1 .. Len(t) : r[p + j] = t[j]
      BY <2>3, <2>4, <3>2, <3>4
    <3>6. Text(r, p, Len(t)) = t
      BY <1>3, <2>1, <3>2, <3>3, <3>5, TextIs
    <3> QED BY <3>2, <3>6 DEF t
  <2>7. Text(r, p, 2) = mark <=> Marked(x, mark)
    BY <2>6 DEF Marked, mark
  <2>8. p \in 0 .. 510
    <3> DEFINE w == 510
    <3>1. w \in Nat /\ p <= w
      BY <1>4, <2>1, SMT
    <3> HIDE DEF w
    <3>2. p \in 0 .. w
      BY <2>1, <3>1, SMT
    <3> QED BY <3>2 DEF w
  <2>9. f[p] = IF Text(r, p, 2) = mark THEN p ELSE f[p + l]
    BY <1>6, <2>4, <2>5, <2>8 DEF Walks, size
  <2> QED BY <2>2, <2>7, <2>9 DEF x, p, q
<1>11. f[place(n + 1)] = Nothing
  <2>1. at[n + 1] = Len(flat)
    BY <1>2 DEF PartsAt
  <2>2. place(n + 1) = end
    BY <2>1 DEF end
  <2> HIDE DEF place
  <2>3. end \in 0 .. 510
    <3> DEFINE w == 510
    <3>1. w \in Nat /\ end <= w
      BY <1>4, <1>7, SMT
    <3> HIDE DEF w
    <3>2. end \in 0 .. w
      BY <1>7, <3>1, SMT
    <3> QED BY <3>2 DEF w
  <2>4. end >= size \/ Byte(r, end + 2) = 0
    <3>1. CASE end = size
      BY <1>4, <3>1, SMT
    <3>2. CASE end # size
      <4>1. (end + 2) + 1 = size + 2
        BY <1>4, <1>7, <3>2, SMT
      <4> QED BY <1>3, <4>1 DEF Byte
    <3> QED BY <3>1, <3>2
  <2> QED BY <1>6, <2>2, <2>3, <2>4 DEF Walks, size
<1> DEFINE From(i) ==
             \/ f[place(i)] = Nothing /\ \A j \in i .. n : ~Marked(extensions[j], mark)
             \/ \E j \in i .. n : Marked(extensions[j], mark) /\ f[place(i)] = place(j)
           T == {m \in Nat : m <= n => From((n + 1) - m)}
<1>12. 0 \in T
  <2>1. (n + 1) - 0 = n + 1 /\ (n + 1) .. n = {} /\ 0 \in Nat
    BY <1>1, SMT
  <2> HIDE DEF place
  <2>2. From(n + 1)
    BY <1>11, <2>1
  <2> QED BY <2>1, <2>2
<1>13. ASSUME NEW m \in T PROVE m + 1 \in T
  <2> DEFINE i == (n + 1) - (m + 1)
  <2>1. m \in Nat /\ m + 1 \in Nat
    OBVIOUS
  <2> SUFFICES ASSUME m + 1 <= n PROVE From(i)
    BY <2>1
  <2>2. /\ i \in 1 .. n /\ (n + 1) - m = i + 1 /\ m <= n
        /\ i \in i .. n /\ \A j \in i .. n : j = i \/ j \in (i + 1) .. n
        /\ \A j \in (i + 1) .. n : j \in i .. n
    <3> HIDE DEF T
    <3> QED BY <1>1, <2>1, SMT
  <2> HIDE DEF i
  <2>3. From(i + 1)
    BY <2>2
  <2> HIDE DEF T, place
  <2>4. f[place(i)] = IF Marked(extensions[i], mark) THEN place(i) ELSE f[place(i + 1)]
    BY <1>10, <2>2
  <2>5. CASE Marked(extensions[i], mark)
    BY <2>2, <2>4, <2>5
  <2>6. CASE ~Marked(extensions[i], mark)
    BY <2>2, <2>3, <2>4, <2>6
  <2> QED BY <2>5, <2>6
<1>14. T = Nat
  <2>1. T \in SUBSET Nat
    OBVIOUS
  <2> HIDE DEF T
  <2> QED BY <1>12, <1>13, <2>1, SetInduction
<1>15. From(1)
  <2>1. n <= n /\ (n + 1) - n = 1
    BY <1>1, SMT
  <2>2. n \in T
    BY <1>1, <1>14
  <2> QED BY <2>1, <2>2
<1>16. place(1) = s
  <2>1. at[1] = 0 /\ s + 0 = s
    BY <1>2, <1>5, SMT DEF PartsAt
  <2> QED BY <2>1
<1>17. Finds(r, mark, extensions)
  <2>1. CASE f[place(1)] = Nothing /\ \A j \in 1 .. n : ~Marked(extensions[j], mark)
    BY <1>6, <1>16, <2>1 DEF Finds, n
  <2>2. CASE \E j \in 1 .. n : Marked(extensions[j], mark) /\ f[place(1)] = place(j)
    BY <1>6, <1>9, <1>16, <2>2 DEF Finds, n
  <2> QED BY <1>15, <2>1, <2>2
<1> QED BY <1>17 DEF mark

\* The extensions a mastering tool writes.
LEMMA ExtensionIs ==
  ASSUME NEW a \in Octet, NEW b \in Octet, NEW data \in Seq(Octet), 4 + Len(data) <= 255
  PROVE  LET x == Extension(<<a, b>>, data) IN
         /\ IsExtension(x) /\ Len(x) = 4 + Len(data) /\ x[1] = a /\ x[2] = b
         /\ \A j \in 1 .. Len(data) : x[4 + j] = data[j]
<1> DEFINE n == Len(data)
           u == <<4 + n, 1>>
           m == <<a, b>>
           x == Extension(m, data)
<1>1. n \in Nat
  BY LenProperties
<1>2. 4 + n \in Octet /\ 1 \in Octet
  <2> HIDE DEF n
  <2>1. 4 + n <= 255
    BY DEF n
  <2> QED BY <1>1, <2>1, SMT DEF Octet
<1>3. /\ m \in Seq(Octet) /\ Len(m) = 2 /\ m[1] = a /\ m[2] = b
      /\ u \in Seq(Octet) /\ Len(u) = 2 /\ u[1] = 4 + n
  BY <1>2
<1>4. x = (m \o u) \o data
  BY DEF Extension
<1> HIDE DEF n, u, m, x
<1>5. /\ m \o u \in Seq(Octet) /\ Len(m \o u) = 4
      /\ (m \o u)[1] = a /\ (m \o u)[2] = b /\ (m \o u)[3] = 4 + n
  <2>1. /\ m \o u \in Seq(Octet) /\ Len(m \o u) = Len(m) + Len(u)
        /\ \A p \in 1 .. Len(m) : (m \o u)[p] = m[p]
        /\ \A p \in 1 .. Len(u) : (m \o u)[Len(m) + p] = u[p]
    <3>1. m \in Seq(Octet) /\ u \in Seq(Octet)
      BY <1>3
    <3> QED BY <3>1, Joined2
  <2>2. 1 \in 1 .. 2 /\ 2 \in 1 .. 2 /\ 2 + 1 = 3 /\ 2 + 2 = 4
    BY SMT
  <2> QED BY <1>3, <2>1, <2>2
<1> DEFINE v == m \o u
<1> HIDE DEF v
<1>6. /\ v \o data \in Seq(Octet) /\ Len(v \o data) = 4 + n
      /\ \A p \in 1 .. 4 : (v \o data)[p] = v[p]
      /\ \A p \in 1 .. n : (v \o data)[4 + p] = data[p]
  <2>1. v \in Seq(Octet) /\ Len(v) = 4
    BY <1>5 DEF v
  <2>2. /\ v \o data \in Seq(Octet) /\ Len(v \o data) = Len(v) + Len(data)
        /\ \A p \in 1 .. Len(v) : (v \o data)[p] = v[p]
        /\ \A p \in 1 .. Len(data) : (v \o data)[Len(v) + p] = data[p]
    <3>1. v \in Seq(Octet) /\ data \in Seq(Octet)
      BY <2>1
    <3> QED BY <3>1, Joined2
  <2> QED BY <2>1, <2>2 DEF n
<1>7. 1 \in 1 .. 4 /\ 2 \in 1 .. 4 /\ 3 \in 1 .. 4 /\ 4 + n >= 4
  BY <1>1, SMT
<1>8. /\ x \in Seq(Octet) /\ Len(x) = 4 + n /\ x[1] = a /\ x[2] = b /\ x[3] = 4 + n
      /\ \A j \in 1 .. n : x[4 + j] = data[j]
  BY <1>4, <1>5, <1>6, <1>7 DEF v
<1> QED BY <1>7, <1>8 DEF IsExtension, x, m, n

\* The one of the name.
HoldsName(x, name) ==
  /\ IsExtension(x) /\ x[1] = 78 /\ x[2] = 77 /\ x[5] = name.flags
  /\ Len(x) = 5 + Len(name.text)
  /\ \A j \in 1 .. Len(name.text) : x[5 + j] = name.text[j]

LEMMA NameExtensionIs ==
  ASSUME NEW name, name.flags \in Octet, name.text \in Seq(Octet), Len(name.text) <= 250
  PROVE  HoldsName(NameExtension(name), name)
<1> DEFINE text == name.text
           n == Len(text)
           flags == name.flags
           f == <<flags>>
           data == f \o text
           x == Extension(<<78, 77>>, data)
<1>1. NameExtension(name) = x
  BY DEF NameExtension, NM
<1>2. n \in Nat /\ n <= 250 /\ text \in Seq(Octet) /\ flags \in Octet
  BY LenProperties
<1> HIDE DEF text, flags, n
<1>3. f \in Seq(Octet) /\ Len(f) = 1 /\ f[1] = flags
  BY <1>2
<1> HIDE DEF f
<1>4. /\ data \in Seq(Octet) /\ Len(data) = 1 + n /\ data[1] = flags
      /\ \A p \in 1 .. n : data[1 + p] = text[p]
  <2>1. /\ data \in Seq(Octet) /\ Len(data) = Len(f) + Len(text)
        /\ \A p \in 1 .. Len(f) : data[p] = f[p]
        /\ \A p \in 1 .. Len(text) : data[Len(f) + p] = text[p]
    <3>1. f \in Seq(Octet) /\ text \in Seq(Octet)
      BY <1>2, <1>3
    <3> QED BY <3>1, Joined2
  <2>2. 1 \in 1 .. 1
    BY SMT
  <2> QED BY <1>3, <2>1, <2>2 DEF n
<1> HIDE DEF data
<1>5. 78 \in Octet /\ 77 \in Octet /\ 4 + Len(data) <= 255
  BY <1>2, <1>4, SMT DEF Octet
<1>6. /\ IsExtension(x) /\ Len(x) = 4 + Len(data) /\ x[1] = 78 /\ x[2] = 77
      /\ \A j \in 1 .. Len(data) : x[4 + j] = data[j]
  BY <1>4, <1>5, ExtensionIs
<1> HIDE DEF x
<1>7. /\ 4 + (1 + n) = 5 + n /\ 1 \in 1 .. 1 + n /\ 4 + 1 = 5
      /\ \A j \in 1 .. n : 1 + j \in 1 .. 1 + n /\ 4 + (1 + j) = 5 + j
  BY <1>2, SMT
<1>8. /\ Len(x) = 5 + n /\ x[5] = flags
      /\ \A j \in 1 .. n : x[5 + j] = text[j]
  BY <1>4, <1>6, <1>7
<1> QED BY <1>1, <1>6, <1>8 DEF HoldsName, n, text, flags

\* The one the driver does not know.
IsOther(x) == IsExtension(x) /\ x[1] = 80 /\ x[2] = 88 /\ Len(x) = 9

LEMMA OtherExtensionIs == IsOther(OtherExtension)
<1> DEFINE nine == <<9>>
           data == NM \o nine \o TF
           x == Extension(<<80, 88>>, data)
           one == 1
           two == 2
           three == two + one
           five == three + two
<1>1. /\ 78 \in Octet /\ 77 \in Octet /\ 9 \in Octet /\ 84 \in Octet /\ 70 \in Octet
  BY SMT DEF Octet
<1>2. /\ NM \in Seq(Octet) /\ Len(NM) = 2 /\ TF \in Seq(Octet) /\ Len(TF) = 2
      /\ nine \in Seq(Octet) /\ Len(nine) = 1
  BY <1>1 DEF NM, TF
<1>3. /\ one \in Nat /\ two \in Nat /\ three \in Nat /\ five = 5
      /\ Len(NM) = two /\ Len(nine) = one /\ Len(TF) = two
  BY <1>2, SMT
<1> HIDE DEF nine, one, two
<1>4. NM \o nine \in Seq(Octet) /\ Len(NM \o nine) = three
  BY <1>2, <1>3, Longer
<1> HIDE DEF three
<1>5. data \in Seq(Octet) /\ Len(data) = five
  <2> DEFINE t == NM \o nine
  <2>1. t \in Seq(Octet) /\ Len(t) = three
    BY <1>4
  <2> HIDE DEF t
  <2>2. t \o TF \in Seq(Octet) /\ Len(t \o TF) = five
    BY <1>2, <1>3, <2>1, Longer
  <2> QED BY <2>2 DEF t
<1>6. OtherExtension = x
  BY DEF OtherExtension, nine
<1> HIDE DEF data, five
<1>7. 4 + Len(data) <= 255 /\ 4 + Len(data) = 9
  BY <1>3, <1>5, SMT
<1>8. 80 \in Octet /\ 88 \in Octet
  BY SMT DEF Octet
<1>9. IsExtension(x) /\ Len(x) = 4 + Len(data) /\ x[1] = 80 /\ x[2] = 88
  BY <1>5, <1>7, <1>8, ExtensionIs
<1> QED BY <1>6, <1>7, <1>9 DEF IsOther

\* The flags of the one of the dates: bit k - 1 for the k-th date, bit 7 for the
\* long format.
HasFlags(flags, types, long) ==
  /\ flags \in Octet /\ (HasBit(flags, 7) <=> long)
  /\ \A k \in 1 .. 7 : HasBit(flags, k - 1) <=> k \in types

LEMMA FlagsAre ==
  ASSUME NEW types, NEW long \in BOOLEAN
  PROVE  HasFlags(DateFlags(types, long), types, long)
<1> DEFINE bit(k) == IF k \in types THEN 1 ELSE 0
           a == bit(1)
           b == bit(2)
           c == bit(3)
           d == bit(4)
           e == bit(5)
           f == bit(6)
           g == bit(7)
           h == IF long THEN 1 ELSE 0
           flags == DateFlags(types, long)
<1>1. /\ (a = 1 <=> 1 \in types) /\ (b = 1 <=> 2 \in types) /\ (c = 1 <=> 3 \in types)
      /\ (d = 1 <=> 4 \in types) /\ (e = 1 <=> 5 \in types) /\ (f = 1 <=> 6 \in types)
      /\ (g = 1 <=> 7 \in types) /\ (h = 1 <=> long)
  OBVIOUS
<1>2. /\ a \in {0, 1} /\ b \in {0, 1} /\ c \in {0, 1} /\ d \in {0, 1}
      /\ e \in {0, 1} /\ f \in {0, 1} /\ g \in {0, 1} /\ h \in {0, 1}
  OBVIOUS
<1>3. flags = a + (2 * b) + (4 * c) + (8 * d) + (16 * e) + (32 * f) + (64 * g) + (128 * h)
  <2> DEFINE weight(k) == IF k \in types THEN <<1, 2, 4, 8, 16, 32, 64>>[k] ELSE 0
             w1 == weight(1)
             w2 == weight(2)
             w3 == weight(3)
             w4 == weight(4)
             w5 == weight(5)
             w6 == weight(6)
             w7 == weight(7)
             top == IF long THEN 128 ELSE 0
  <2>1. flags = w1 + w2 + w3 + w4 + w5 + w6 + w7 + top
    BY Zenon DEF DateFlags
  <2>2. /\ w1 = a /\ w2 = 2 * b /\ w3 = 4 * c /\ w4 = 8 * d
        /\ w5 = 16 * e /\ w6 = 32 * f /\ w7 = 64 * g /\ top = 128 * h
    BY SMT
  <2> HIDE DEF w1, w2, w3, w4, w5, w6, w7, top, a, b, c, d, e, f, g, h, flags
  <2> QED BY <2>1, <2>2
<1> HIDE DEF a, b, c, d, e, f, g, h, flags
<1>4. flags \in Octet
  BY <1>2, <1>3, SMT DEF Octet
<1>5. flags % 2 = a /\ (flags \div 2) % 2 = b /\ (flags \div 4) % 2 = c /\ (flags \div 8) % 2 = d
  BY <1>2, <1>3, SMT
<1>6. (flags \div 16) % 2 = e
  BY <1>2, <1>3, SMT
<1>7. (flags \div 32) % 2 = f
  BY <1>2, <1>3, SMT
<1>8. (flags \div 64) % 2 = g
  BY <1>2, <1>3, SMT
<1>9. (flags \div 128) % 2 = h
  BY <1>2, <1>3, SMT
<1>10. /\ (HasBit(flags, 0) <=> a = 1) /\ (HasBit(flags, 1) <=> b = 1)
       /\ (HasBit(flags, 2) <=> c = 1) /\ (HasBit(flags, 3) <=> d = 1)
       /\ (HasBit(flags, 4) <=> e = 1) /\ (HasBit(flags, 5) <=> f = 1)
       /\ (HasBit(flags, 6) <=> g = 1) /\ (HasBit(flags, 7) <=> h = 1)
  <2> DEFINE w == <<1, 2, 4, 8, 16, 32, 64, 128>>
  <2>1. /\ w[0 + 1] = 1 /\ w[1 + 1] = 2 /\ w[2 + 1] = 4 /\ w[3 + 1] = 8
        /\ w[4 + 1] = 16 /\ w[5 + 1] = 32 /\ w[6 + 1] = 64 /\ w[7 + 1] = 128
    BY SMT
  <2>2. \A k : HasBit(flags, k) <=> (flags \div w[k + 1]) % 2 = 1
    BY DEF HasBit
  <2>3. flags \div 1 = flags
    <3>1. flags \in Nat
      BY <1>4 DEF Octet
    <3> QED BY <3>1, SMT
  <2> HIDE DEF w
  <2> QED BY <1>5, <1>6, <1>7, <1>8, <1>9, <2>1, <2>2, <2>3
<1>11. ASSUME NEW k \in 1 .. 7 PROVE HasBit(flags, k - 1) <=> k \in types
  <2>1. \/ k = 1 /\ k - 1 = 0
        \/ k = 2 /\ k - 1 = 1
        \/ k = 3 /\ k - 1 = 2
        \/ k = 4 /\ k - 1 = 3
        \/ k = 5 /\ k - 1 = 4
        \/ k = 6 /\ k - 1 = 5
        \/ k = 7 /\ k - 1 = 6
    BY SMT
  <2> QED BY <1>1, <1>10, <2>1
<1> QED BY <1>1, <1>4, <1>10, <1>11 DEF HasFlags, flags

\* The one of the dates: where each of them lies.
DateBytes(k, long) == IF long THEN Long(k) ELSE Short(k)
HoldsDates(x, types, long) ==
  /\ IsExtension(x) /\ x[1] = 84 /\ x[2] = 70 /\ HasFlags(x[5], types, long)
  /\ Len(x) >= 5 /\ Len(x) <= 124
  /\ DateSize(x[5]) = IF long THEN 17 ELSE 7
  /\ \A k \in types :
       /\ DateOffset(x[5], k) \in Nat /\ DateOffset(x[5], k) + DateSize(x[5]) <= Len(x)
       /\ \A j \in 1 .. DateSize(x[5]) : x[DateOffset(x[5], k) + j] = DateBytes(k, long)[j]

\* Each date lies behind as many as have a bit before its.
LEMMA DatesBefore ==
  ASSUME NEW types \in SUBSET (1 .. 7), NEW long \in BOOLEAN, NEW flags, HasFlags(flags, types, long),
         NEW at \in [1 .. 8 -> Nat], at[1] = 0,
         \A k \in 1 .. 7 : at[k + 1] = at[k] + (IF k \in types THEN IF long THEN 17 ELSE 7 ELSE 0),
         NEW k \in 1 .. 7
  PROVE  DateOffset(flags, k) = 5 + at[k] /\ at[k] <= 17 * (k - 1)
<1> DEFINE Before(i) == {j \in 1 .. i - 1 : HasBit(flags, j - 1)}
           size == IF long THEN 17 ELSE 7
           Counted(i) == /\ IsFiniteSet(Before(i)) /\ Cardinality(Before(i)) \in Nat
                         /\ at[i] = size * Cardinality(Before(i)) /\ at[i] <= 17 * (i - 1)
           T == {m \in Nat : m + 1 <= 7 => Counted(m + 1)}
<1>1. DateSize(flags) = size
  BY DEF DateSize, HasFlags
<1>2. 0 \in T
  <2>1. Before(1) = {}
    BY SMT
  <2>2. IsFiniteSet({}) /\ Cardinality({}) = 0
    BY FS_EmptySet
  <2> DEFINE B == Before(1)
  <2>3. IsFiniteSet(B) /\ Cardinality(B) = 0
    BY <2>1, <2>2
  <2> HIDE DEF B
  <2>4. size * 0 = 0 /\ 0 <= 17 * (1 - 1) /\ 0 \in Nat /\ 0 + 1 = 1
    BY SMT
  <2>5. Counted(1)
    BY <2>3, <2>4 DEF B
  <2> QED BY <2>4, <2>5
<1>3. ASSUME NEW m \in T PROVE m + 1 \in T
  <2> DEFINE i == m + 1
  <2>1. m \in Nat /\ m + 1 \in Nat
    OBVIOUS
  <2> SUFFICES ASSUME i + 1 <= 7 PROVE Counted(i + 1)
    BY <2>1
  <2>2. i \in 1 .. 7 /\ i <= 7 /\ i \in Nat /\ i \notin 1 .. i - 1 /\ (i + 1) - 1 = i
        /\ 1 .. i = (1 .. i - 1) \cup {i}
    <3> HIDE DEF T
    <3> QED BY <2>1, SMT
  <2>3. Counted(i)
    BY <2>2
  <2> HIDE DEF T, i
  <2>4. HasBit(flags, i - 1) <=> i \in types
    BY <2>2 DEF HasFlags
  <2>5. at[i + 1] = at[i] + (IF i \in types THEN size ELSE 0)
    BY <2>2
  <2> DEFINE B == Before(i)
             c == Cardinality(B)
             next == Before(i + 1)
  <2>6. next = IF i \in types THEN B \cup {i} ELSE B
    BY <2>2, <2>4
  <2>7. IsFiniteSet(B) /\ i \notin B /\ c \in Nat /\ at[i] = size * c /\ at[i] <= 17 * (i - 1)
    BY <2>2, <2>3
  <2> HIDE DEF B, next
  <2>8. IsFiniteSet(next) /\ Cardinality(next) = IF i \in types THEN c + 1 ELSE c
    <3>1. IsFiniteSet(B \cup {i}) /\ Cardinality(B \cup {i}) = c + 1
      BY <2>7, FS_AddElement
    <3> QED BY <2>6, <2>7, <3>1
  <2> HIDE DEF c
  <2> DEFINE p == at[i]
             q == at[i + 1]
             d == Cardinality(next)
  <2>9. /\ d = IF i \in types THEN c + 1 ELSE c
        /\ p = size * c /\ p <= 17 * (i - 1) /\ q = p + (IF i \in types THEN size ELSE 0)
    BY <2>5, <2>7, <2>8
  <2> HIDE DEF p, q, d, size
  <2>10. size = 17 \/ size = 7
    BY DEF size
  <2>11. d \in Nat /\ q = size * d /\ q <= 17 * ((i + 1) - 1)
    <3>1. CASE size = 17
      BY <2>2, <2>7, <2>9, <3>1, SMT
    <3>2. CASE size = 7
      BY <2>2, <2>7, <2>9, <3>2, SMT
    <3> QED BY <2>10, <3>1, <3>2
  <2> QED BY <2>8, <2>11 DEF p, q, d, next, size
<1>4. T = Nat
  <2>1. T \in SUBSET Nat
    OBVIOUS
  <2> HIDE DEF T
  <2> QED BY <1>2, <1>3, <2>1, SetInduction
<1>5. k - 1 \in Nat /\ (k - 1) + 1 = k /\ k <= 7
  BY SMT
<1>6. Counted(k)
  <2>1. (k - 1) + 1 <= 7 => Counted((k - 1) + 1)
    BY <1>4, <1>5
  <2> HIDE DEF T, Counted
  <2> QED BY <1>5, <2>1
<1> QED BY <1>1, <1>6 DEF DateOffset

LEMMA DatesTyped ==
  ASSUME NEW types \in SUBSET (1 .. 7), NEW long \in BOOLEAN
  PROVE  /\ Dates(types, long) \in Seq(Seq(Octet)) /\ Len(Dates(types, long)) = 7
         /\ \A k \in 1 .. 7 :
              /\ Len(Dates(types, long)[k]) = IF k \in types THEN IF long THEN 17 ELSE 7 ELSE 0
              /\ k \in types => Dates(types, long)[k] = DateBytes(k, long)
<1> DEFINE date(k) == IF k \notin types THEN << >> ELSE IF long THEN Long(k) ELSE Short(k)
           D == Dates(types, long)
<1>1. D = [k \in 1 .. 7 |-> date(k)]
  BY DEF Dates
<1>2. ASSUME NEW k \in 1 .. 7
      PROVE  /\ date(k) \in Seq(Octet)
             /\ Len(date(k)) = IF k \in types THEN IF long THEN 17 ELSE 7 ELSE 0
             /\ k \in types => date(k) = DateBytes(k, long)
  <2>1. << >> \in Seq(Octet) /\ Len(<< >>) = 0
    BY EmptySeq
  <2>2. Long(k) \in Seq(Octet) /\ Len(Long(k)) = 17
    BY LongTyped
  <2>3. Short(k) \in Seq(Octet) /\ Len(Short(k)) = 7
    <3>1. k \in 1 .. 8
      BY SMT
    <3> QED BY <3>1, ShortTyped
  <2>4. CASE k \notin types
    BY <2>1, <2>4
  <2>5. CASE k \in types
    <3>1. date(k) = DateBytes(k, long)
      BY <2>5 DEF DateBytes
    <3>2. DateBytes(k, long) \in Seq(Octet) /\ Len(DateBytes(k, long)) = IF long THEN 17 ELSE 7
      BY <2>2, <2>3 DEF DateBytes
    <3> HIDE DEF date
    <3> QED BY <2>5, <3>1, <3>2
  <2> QED BY <2>4, <2>5
<1> HIDE DEF date, D
<1>3. D \in [1 .. 7 -> Seq(Octet)] /\ \A k \in 1 .. 7 : D[k] = date(k)
  BY <1>1, <1>2
<1>4. D \in Seq(Seq(Octet)) /\ Len(D) = 7
  <2> DEFINE n == 7
             S == Seq(Octet)
  <2>1. D \in [1 .. n -> S] /\ n \in Nat
    BY <1>3
  <2> HIDE DEF n, S
  <2>2. D \in Seq(S) /\ Len(D) = n
    BY <2>1, SMT
  <2> QED BY <2>2 DEF n, S
<1> QED BY <1>2, <1>3, <1>4 DEF D

LEMMA DateExtensionIs ==
  ASSUME NEW types \in SUBSET (1 .. 7), NEW long \in BOOLEAN
  PROVE  HoldsDates(DateExtension(types, long), types, long)
<1> DEFINE D == Dates(types, long)
           flat == FlattenSeq(D)
           flags == DateFlags(types, long)
           size == IF long THEN 17 ELSE 7
           f == <<flags>>
           data == f \o flat
           n == Len(flat)
           x == Extension(<<84, 70>>, data)
<1>1. DateExtension(types, long) = x
  BY DEF DateExtension, TF
<1>2. HasFlags(flags, types, long) /\ DateSize(flags) = size
  BY FlagsAre DEF DateSize, HasFlags
<1>3. /\ D \in Seq(Seq(Octet)) /\ Len(D) = 7
      /\ \A k \in 1 .. 7 :
           /\ Len(D[k]) = IF k \in types THEN size ELSE 0
           /\ k \in types => D[k] = DateBytes(k, long)
  BY DatesTyped, ZenonT(60)
<1>4. HasParts(Octet, D, flat, 7)
  <2>1. HasParts(Octet, D, flat, Len(D))
    BY <1>3, PartsOf
  <2> QED BY <1>3, <2>1
<1> HIDE DEF D, flat, flags
<1>5. PICK at \in [1 .. 7 + 1 -> Nat] : PartsAt(D, flat, 7, at)
  BY <1>4 DEF HasParts
<1>6. flat \in Seq(Octet) /\ flags \in Octet
  BY <1>2, <1>4 DEF HasParts, HasFlags
<1>7. at \in [1 .. 8 -> Nat] /\ at[1] = 0 /\ at[8] = n
  <2>1. 7 + 1 = 8
    BY SMT
  <2> QED BY <1>5, <2>1 DEF PartsAt
<1>8. ASSUME NEW k \in 1 .. 7
      PROVE  /\ at[k + 1] = at[k] + (IF k \in types THEN size ELSE 0)
             /\ at[k + 1] <= n
             /\ k \in types => \A j \in 1 .. size : flat[at[k] + j] = DateBytes(k, long)[j]
  <2>1. /\ at[k + 1] = at[k] + Len(D[k]) /\ at[k + 1] <= n
        /\ \A j \in 1 .. Len(D[k]) : flat[at[k] + j] = D[k][j]
    BY <1>5 DEF PartsAt
  <2>2. /\ Len(D[k]) = IF k \in types THEN size ELSE 0
        /\ k \in types => D[k] = DateBytes(k, long)
    BY <1>3
  <2> HIDE DEF size, n
  <2>3. ASSUME k \in types, NEW j \in 1 .. size PROVE flat[at[k] + j] = DateBytes(k, long)[j]
    BY <2>1, <2>2, <2>3
  <2>4. at[k + 1] = at[k] + (IF k \in types THEN size ELSE 0)
    BY <2>1, <2>2
  <2> QED BY <2>1, <2>3, <2>4
<1>9. ASSUME NEW k \in 1 .. 7 PROVE DateOffset(flags, k) = 5 + at[k] /\ at[k] <= 17 * (k - 1)
  <2>1. \A i \in 1 .. 7 : at[i + 1] = at[i] + (IF i \in types THEN size ELSE 0)
    BY <1>8
  <2>2. at \in [1 .. 8 -> Nat] /\ at[1] = 0 /\ HasFlags(flags, types, long)
    BY <1>2, <1>7
  <2> QED BY <2>1, <2>2, DatesBefore
<1>10. n \in Nat /\ n <= 119
  <2> DEFINE p == at[7]
             q == IF 7 \in types THEN size ELSE 0
  <2>1. n = p + q
    <3>1. 7 \in 1 .. 7 /\ 7 + 1 = 8
      BY SMT
    <3> QED BY <1>7, <1>8, <3>1
  <2>2. p \in Nat /\ p <= 17 * (7 - 1)
    <3>1. 7 \in 1 .. 7 /\ 7 \in 1 .. 8
      BY SMT
    <3> QED BY <1>7, <1>9, <3>1
  <2>3. q \in Nat /\ q <= 17
    BY SMT
  <2> HIDE DEF n, p, q
  <2> QED BY <2>1, <2>2, <2>3, SMT
<1>11. f \in Seq(Octet) /\ Len(f) = 1 /\ f[1] = flags
  BY <1>6
<1> HIDE DEF f
<1>12. /\ data \in Seq(Octet) /\ Len(data) = 1 + n /\ data[1] = flags
       /\ \A p \in 1 .. n : data[1 + p] = flat[p]
  <2>1. /\ data \in Seq(Octet) /\ Len(data) = Len(f) + Len(flat)
        /\ \A p \in 1 .. Len(f) : data[p] = f[p]
        /\ \A p \in 1 .. Len(flat) : data[Len(f) + p] = flat[p]
    <3>1. f \in Seq(Octet) /\ flat \in Seq(Octet)
      BY <1>6, <1>11
    <3> QED BY <3>1, Joined2
  <2>2. 1 \in 1 .. 1
    BY SMT
  <2> QED BY <1>11, <2>1, <2>2
<1> HIDE DEF data, n
<1>13. 84 \in Octet /\ 70 \in Octet /\ 4 + Len(data) <= 255
  BY <1>10, <1>12, SMT DEF Octet
<1>14. /\ IsExtension(x) /\ Len(x) = 4 + Len(data) /\ x[1] = 84 /\ x[2] = 70
       /\ \A j \in 1 .. Len(data) : x[4 + j] = data[j]
  <2>1. data \in Seq(Octet)
    BY <1>12
  <2> QED BY <1>13, <2>1, ExtensionIs, SMTT(30)
<1> HIDE DEF x
<1>15. /\ 4 + (1 + n) = 5 + n /\ 1 \in 1 .. 1 + n /\ 4 + 1 = 5 /\ 5 + n <= 124 /\ 5 + n >= 5
       /\ \A p \in 1 .. n : 1 + p \in 1 .. 1 + n /\ 4 + (1 + p) = 5 + p
  BY <1>10, SMT
<1>16. /\ Len(x) = 5 + n /\ x[5] = flags
       /\ \A p \in 1 .. n : x[5 + p] = flat[p]
  <2>1. Len(x) = 5 + n
    BY <1>12, <1>14, <1>15
  <2>2. \A j \in 1 .. 1 + n : x[4 + j] = data[j]
    BY <1>12, <1>14
  <2>3. x[5] = flags
    BY <1>12, <1>15, <2>2
  <2>4. ASSUME NEW p \in 1 .. n PROVE x[5 + p] = flat[p]
    <3>1. x[4 + (1 + p)] = data[1 + p]
      BY <1>15, <2>2
    <3> QED BY <1>12, <1>15, <3>1
  <2> QED BY <2>1, <2>3, <2>4
<1>17. ASSUME NEW k \in types
       PROVE  /\ 5 + at[k] \in Nat /\ (5 + at[k]) + size <= Len(x)
              /\ \A j \in 1 .. size : x[(5 + at[k]) + j] = DateBytes(k, long)[j]
  <2> DEFINE p == at[k]
  <2>1. k \in 1 .. 7 /\ k \in 1 .. 8
    BY SMT
  <2>2. /\ p \in Nat /\ p + size <= n
        /\ \A j \in 1 .. size : flat[p + j] = DateBytes(k, long)[j]
    <3>1. at[k + 1] = at[k] + size /\ at[k + 1] <= n
      BY <1>8, <2>1
    <3> QED BY <1>7, <1>8, <2>1, <3>1
  <2> HIDE DEF p
  <2>3. /\ 5 + p \in Nat /\ (5 + p) + size <= 5 + n
        /\ \A j \in 1 .. size : p + j \in 1 .. n /\ 5 + (p + j) = (5 + p) + j
    <3>1. size \in Nat
      OBVIOUS
    <3> HIDE DEF size
    <3> QED BY <1>10, <2>2, <3>1, SMT
  <2> HIDE DEF size
  <2>4. \A j \in 1 .. size : x[(5 + p) + j] = DateBytes(k, long)[j]
    <3> SUFFICES ASSUME NEW j \in 1 .. size PROVE x[(5 + p) + j] = DateBytes(k, long)[j]
      OBVIOUS
    <3>1. x[5 + (p + j)] = flat[p + j]
      BY <1>16, <2>3
    <3> QED BY <2>2, <2>3, <3>1
  <2> QED BY <1>16, <2>3, <2>4 DEF p
<1>18. ASSUME NEW k \in types
       PROVE  /\ DateOffset(flags, k) \in Nat /\ DateOffset(flags, k) + size <= Len(x)
              /\ \A j \in 1 .. size : x[DateOffset(flags, k) + j] = DateBytes(k, long)[j]
  <2>1. DateOffset(flags, k) = 5 + at[k]
    BY <1>9
  <2> HIDE DEF size
  <2> QED BY <1>17, <2>1
<1>19. Len(x) >= 5 /\ Len(x) <= 124
  BY <1>15, <1>16
<1>20. HoldsDates(x, types, long)
  <2>1. HasFlags(x[5], types, long) /\ DateSize(x[5]) = size
    BY <1>2, <1>16
  <2>2. \A k \in types :
          /\ DateOffset(x[5], k) \in Nat /\ DateOffset(x[5], k) + DateSize(x[5]) <= Len(x)
          /\ \A j \in 1 .. DateSize(x[5]) : x[DateOffset(x[5], k) + j] = DateBytes(k, long)[j]
    <3> HIDE DEF size
    <3> QED BY <1>16, <1>18, <2>1
  <2>3. DateSize(x[5]) = IF long THEN 17 ELSE 7
    BY <2>1
  <2> QED BY <1>14, <1>19, <2>1, <2>2, <2>3 DEF HoldsDates
<1> QED BY <1>1, <1>20

\* The bytes of a record at the place of an extension.
LEMMA BytesAt ==
  ASSUME NEW r, NEW at, NEW x, HoldsAt(r, at, x), IsExtension(x), Len(x) >= 5
  PROVE  Byte(r, at + 2) = Len(x) /\ Byte(r, at + 4) = x[5]
<1>1. Len(x) \in Nat /\ at \in Nat /\ x[3] = Len(x)
  BY LenProperties DEF IsExtension, HoldsAt
<1>2. /\ 3 \in 1 .. Len(x) /\ 5 \in 1 .. Len(x)
      /\ (at + 2) + 1 = at + 3 /\ (at + 4) + 1 = at + 5
  BY <1>1, SMT
<1>3. r[at + 3] = x[3] /\ r[at + 5] = x[5]
  BY <1>2 DEF HoldsAt
<1> QED BY <1>1, <1>2, <1>3 DEF Byte

LEMMA TextAt ==
  ASSUME NEW r \in Seq(Octet), NEW at, NEW x, HoldsAt(r, at, x), Len(x) \in Nat,
         NEW o \in Nat, NEW t \in Seq(Octet), o + Len(t) <= Len(x),
         \A j \in 1 .. Len(t) : x[o + j] = t[j]
  PROVE  Text(r, at + o, Len(t)) = t
<1>1. Len(t) \in Nat /\ Len(r) \in Nat /\ at \in Nat /\ at + Len(x) <= Len(r)
  BY LenProperties DEF HoldsAt
<1>2. /\ at + o \in Nat /\ (at + o) + Len(t) <= Len(r)
      /\ \A j \in 1 .. Len(t) : o + j \in 1 .. Len(x) /\ at + (o + j) = (at + o) + j
  BY <1>1, SMT
<1>3. ASSUME NEW j \in 1 .. Len(t) PROVE r[(at + o) + j] = t[j]
  <2>1. r[at + (o + j)] = x[o + j]
    BY <1>2 DEF HoldsAt
  <2> QED BY <1>2, <2>1
<1> QED BY <1>2, <1>3, TextIs

\* A byte of a name in a record; names of such bytes have their end behind the last.
RecordByte == {n \in Octet : n # 0}

LEMMA LettersAre ==
  ASSUME NEW t \in Seq(RecordByte)
  PROVE  t \in Seq(Octet) /\ CString(t) = t
<1>1. RecordByte \subseteq Octet /\ RecordByte \subseteq Nat
  BY DEF RecordByte, Octet
<1>2. t \in Seq(Octet) /\ t \in Seq(Nat)
  BY <1>1, SeqMonotonic
<1>3. \A i \in 1 .. Len(t) : t[i] # 0
  <2>1. \A i \in 1 .. Len(t) : t[i] \in RecordByte
    BY ElementOfSeq
  <2> QED BY <2>1 DEF RecordByte
<1> QED BY <1>2, <1>3, WholeText

\* What the driver makes of the extension of the name (iso9660.c:462-475).
IsName(name) == name.flags \in {0, 2, 4} /\ name.text \in Seq(RecordByte) /\ Len(name.text) <= 250
NameRead(name) ==
  CASE name.flags = 2 -> Current [] name.flags = 4 -> Parent [] OTHER -> name.text

LEMMA NameReadAt ==
  ASSUME NEW r \in Seq(Octet), NEW at, NEW x, HoldsAt(r, at, x),
         NEW name, IsName(name), HoldsName(x, name)
  PROVE  AlternateName(r, at) = NameRead(name)
<1> DEFINE text == name.text
           n == Len(text)
           flags == name.flags
<1>1. /\ text \in Seq(Octet) /\ CString(text) = text /\ flags \in {0, 2, 4} /\ n \in Nat
  <2>1. text \in Seq(RecordByte) /\ flags \in {0, 2, 4}
    BY DEF IsName
  <2> QED BY <2>1, LettersAre, LenProperties
<1>2. /\ IsExtension(x) /\ x[5] = flags /\ Len(x) = 5 + n
      /\ \A j \in 1 .. n : x[5 + j] = text[j]
  BY DEF HoldsName
<1> HIDE DEF text, n, flags
<1>3. Byte(r, at + 2) = Len(x) /\ Byte(r, at + 4) = flags
  <2>1. Len(x) >= 5
    BY <1>1, <1>2, SMT
  <2> QED BY <1>2, <2>1, BytesAt
<1>4. Text(r, at + 5, Byte(r, at + 2) - 5) = text
  <2>1. (5 + n) - 5 = n /\ 5 \in Nat /\ 5 + n \in Nat /\ 5 + n <= 5 + n
    BY <1>1, SMT
  <2>2. Text(r, at + 5, n) = text
    BY <1>1, <1>2, <2>1, TextAt DEF n
  <2> QED BY <1>2, <1>3, <2>1, <2>2
<1>5. /\ HasBit(flags, 1) <=> flags = 2
      /\ HasBit(flags, 2) <=> flags = 4
  <2> DEFINE w == <<1, 2, 4, 8, 16, 32, 64, 128>>
  <2>1. w[1 + 1] = 2 /\ w[2 + 1] = 4
    BY SMT
  <2>2. \A k : HasBit(flags, k) <=> (flags \div w[k + 1]) % 2 = 1
    BY DEF HasBit
  <2> HIDE DEF w
  <2>3. /\ HasBit(flags, 1) <=> (flags \div 2) % 2 = 1
        /\ HasBit(flags, 2) <=> (flags \div 4) % 2 = 1
    BY <2>1, <2>2
  <2> QED BY <1>1, <2>3, SMT
<1>6. AlternateName(r, at) = IF flags = 2 THEN Current ELSE IF flags = 4 THEN Parent ELSE text
  BY <1>1, <1>3, <1>4, <1>5, Zenon DEF AlternateName
<1>7. NameRead(name) = IF flags = 2 THEN Current ELSE IF flags = 4 THEN Parent ELSE text
  <2>1. flags = 2 \/ flags = 4 \/ (flags # 2 /\ flags # 4)
    OBVIOUS
  <2>2. 2 # 4
    OBVIOUS
  <2> QED BY <2>1, <2>2 DEF NameRead, flags, text
<1> QED BY <1>6, <1>7

\* A name of a file: bytes without a 0, one of them alone a character above 2.
IsIdentifier(identifier) ==
  /\ identifier \in Seq(RecordByte) /\ Len(identifier) > 0 /\ Len(identifier) < 256
  /\ Len(identifier) = 1 => identifier[1] \in 3 .. 127

LEMMA RecordLength ==
  ASSUME NEW r, NEW identifier, NEW flat \in Seq(Octet), Len(identifier) \in Nat,
         IsRecord(r, identifier, flat)
  PROVE  HeaderSize + Len(identifier) <= Len(r) /\ HeaderSize <= Len(r)
<1> DEFINE l == Len(identifier)
           m == Len(flat)
           size == EntrySize(r)
           s == ExtensionStart(r)
           end == s + m
<1>1. l \in Nat /\ m \in Nat
  BY LenProperties
<1>2. size = end + (end % 2) /\ Len(r) = size + 3 /\ NameLength(r) = l
  BY DEF IsRecord
<1>3. s = HeaderSize + l + ((l + 1) % 2)
  BY <1>2 DEF ExtensionStart
<1> HIDE DEF l, m, size, s
<1>4. s \in Nat /\ HeaderSize + l <= s /\ HeaderSize <= s /\ end \in Nat /\ s <= end
  BY <1>1, <1>3, SMT DEF HeaderSize
<1> HIDE DEF end
<1>5. HeaderSize + l <= Len(r) /\ HeaderSize <= Len(r)
  BY <1>1, <1>2, <1>4, SMT DEF HeaderSize
<1> QED BY <1>5 DEF l

LEMMA RecordNameIs ==
  ASSUME NEW r, NEW identifier, NEW flat \in Seq(Octet), IsIdentifier(identifier),
         IsRecord(r, identifier, flat)
  PROVE  RecordName(r) = identifier
<1> DEFINE n == Len(identifier)
<1>1. /\ r \in Seq(Octet) /\ NameLength(r) = n
      /\ \A j \in 1 .. n : r[HeaderSize + j] = identifier[j]
  BY DEF IsRecord
<1>2. identifier \in Seq(Octet) /\ CString(identifier) = identifier
  BY LettersAre DEF IsIdentifier
<1>3. n \in Nat /\ 1 <= n
  <2>1. n \in Nat
    BY <1>2, LenProperties
  <2>2. n > 0
    BY DEF IsIdentifier
  <2> HIDE DEF n
  <2> QED BY <2>1, <2>2, SMT
<1>4. Text(r, HeaderSize, n) = identifier
  <2>1. HeaderSize \in Nat /\ HeaderSize + n <= Len(r)
    BY <1>3, RecordLength, SMT DEF HeaderSize
  <2> QED BY <1>1, <1>2, <2>1, TextIs
<1>5. Byte(r, HeaderSize) = identifier[1]
  <2>1. 1 \in 1 .. n
    BY <1>3, SMT
  <2> QED BY <1>1, <2>1 DEF Byte
<1>6. n > 1 \/ Byte(r, HeaderSize) \in 3 .. 127
  <2>1. n > 1 \/ n = 1
    <3> HIDE DEF n
    <3> QED BY <1>3, SMT
  <2> QED BY <1>5, <2>1 DEF IsIdentifier
<1> QED BY <1>1, <1>2, <1>4, <1>6 DEF RecordName

\* What it makes of a date in the extension of the dates (iso9660.c:538-605).
LEMMA FlagsReadAt ==
  ASSUME NEW r, NEW at, NEW x, HoldsAt(r, at, x), NEW types, NEW long, HoldsDates(x, types, long)
  PROVE  Byte(r, at + 4) = x[5] /\ HasFlags(x[5], types, long)
<1>1. IsExtension(x) /\ Len(x) >= 5 /\ HasFlags(x[5], types, long)
  BY DEF HoldsDates
<1> QED BY <1>1, BytesAt

LEMMA DateReadAt ==
  ASSUME NEW r \in Seq(Octet), NEW at, NEW x, HoldsAt(r, at, x),
         NEW types \in SUBSET (1 .. 7), NEW long \in BOOLEAN, HoldsDates(x, types, long),
         NEW k \in types
  PROVE  DateAt(r, at, k) = IF long THEN LongTime(Long(k)) ELSE ShortTime(Short(k))
<1> DEFINE flags == x[5]
           o == DateOffset(flags, k)
           size == DateSize(flags)
           t == DateBytes(k, long)
<1>1. /\ IsExtension(x) /\ HasFlags(flags, types, long) /\ size = (IF long THEN 17 ELSE 7)
      /\ o \in Nat /\ o + size <= Len(x) /\ \A j \in 1 .. size : x[o + j] = t[j]
  BY DEF HoldsDates
<1>2. t \in Seq(Octet) /\ Len(t) = size
  <2>1. k \in 1 .. 7 /\ k \in 1 .. 8
    BY SMT
  <2>2. Long(k) \in Seq(Octet) /\ Len(Long(k)) = 17 /\ Short(k) \in Seq(Octet) /\ Len(Short(k)) = 7
    BY <2>1, LongTyped, ShortTyped
  <2> HIDE DEF size
  <2> QED BY <1>1, <2>2 DEF DateBytes
<1>3. Len(x) \in Nat
  BY <1>1, LenProperties DEF IsExtension
<1>4. Byte(r, at + 4) = flags
  BY FlagsReadAt
<1> HIDE DEF flags, o, size, t
<1>5. Text(r, at + o, size) = t
  <2>1. o + Len(t) <= Len(x) /\ \A j \in 1 .. Len(t) : x[o + j] = t[j]
    BY <1>1, <1>2
  <2>2. o \in Nat /\ t \in Seq(Octet) /\ Len(x) \in Nat
    BY <1>1, <1>2, <1>3
  <2>3. Text(r, at + o, Len(t)) = t
    BY <2>1, <2>2, TextAt
  <2> QED BY <1>2, <2>3
<1>6. HasBit(flags, 7) <=> long
  BY <1>1 DEF HasFlags
<1>7. DateAt(r, at, k) = IF long THEN LongTime(t) ELSE ShortTime(t)
  BY <1>4, <1>5, <1>6, Zenon DEF DateAt, o, size
<1> QED BY <1>7 DEF t, DateBytes

\* The dates of a record, from the extension that holds them, if it is looked at,
\* or else from the header.
LEMMA TimestampIs ==
  ASSUME NEW r, NEW rockRidge \in BOOLEAN, NEW k \in 1 .. 7
  PROVE  LET at == FirstExtension(r, TF) IN
         Timestamp(r, rockRidge, DateTypes[k])
           = IF rockRidge /\ at # Nothing /\ HasBit(Byte(r, at + 4), k - 1) THEN DateAt(r, at, k)
             ELSE IF k = 1 THEN ShortTime(Text(r, CreatedTime, 7)) ELSE NoTime
<1> DEFINE at == FirstExtension(r, TF)
           type == DateTypes[k]
           held == {j \in DOMAIN DateTypes : DateTypes[j] = type /\ HasBit(Byte(r, at + 4), j - 1)}
<1>1. DOMAIN DateTypes = 1 .. 7
  BY DEF DateTypes
<1>2. /\ type = "CREATION" <=> k = 1
      /\ \A j \in 1 .. 7 : DateTypes[j] = type <=> j = k
  BY SMT DEF DateTypes
<1>3. held = IF HasBit(Byte(r, at + 4), k - 1) THEN {k} ELSE {}
  BY <1>1, <1>2
<1> DEFINE c == CHOOSE j \in held : TRUE
<1>4. held # {} => c \in held
  <2> HIDE DEF held
  <2> QED OBVIOUS
<1>5. Timestamp(r, rockRidge, type)
        = IF rockRidge /\ at # Nothing /\ held # {} THEN DateAt(r, at, c)
          ELSE IF type = "CREATION" THEN ShortTime(Text(r, CreatedTime, 7))
          ELSE NoTime
  BY DEF Timestamp
<1> DEFINE time == Timestamp(r, rockRidge, type)
<1> HIDE DEF at, held, c, time
<1>6. type = "CREATION" <=> k = 1
  BY <1>2
<1> HIDE DEF type
<1>7. CASE HasBit(Byte(r, at + 4), k - 1)
  <2>1. held # {} /\ c = k
    BY <1>3, <1>4, <1>7
  <2>2. time = IF rockRidge /\ at # Nothing THEN DateAt(r, at, k)
               ELSE IF k = 1 THEN ShortTime(Text(r, CreatedTime, 7)) ELSE NoTime
    BY <1>5, <1>6, <2>1 DEF time
  <2> QED BY <1>7, <2>2 DEF time, type, at
<1>8. CASE ~HasBit(Byte(r, at + 4), k - 1)
  <2>1. held = {}
    BY <1>3, <1>8
  <2>2. time = IF k = 1 THEN ShortTime(Text(r, CreatedTime, 7)) ELSE NoTime
    BY <1>5, <1>6, <2>1 DEF time
  <2> QED BY <1>8, <2>2 DEF time, type, at
<1> QED BY <1>7, <1>8

\* A short date is read as it was written.
LEMMA ShortTimeIs ==
  ASSUME NEW k \in 1 .. 8
  PROVE  ShortTime(Short(k)) = WrittenAt(k)
<1> DEFINE d == Date(k)
           b == Short(k)
<1>1. /\ b[1] = d.year - 1900 /\ b[2] = d.mon /\ b[3] = d.mday
      /\ b[4] = d.hour /\ b[5] = d.min /\ b[6] = d.sec
  BY DEF Short
<1>2. WrittenAt(k) = Timegm([year |-> d.year - 1900, mon |-> d.mon - 1, mday |-> d.mday,
                             hour |-> d.hour, min |-> d.min, sec |-> d.sec])
  BY DEF WrittenAt
<1>3. ShortTime(b) = Timegm([year |-> b[1], mon |-> b[2] - 1, mday |-> b[3],
                             hour |-> b[4], min |-> b[5], sec |-> b[6]])
  BY DEF ShortTime
<1> HIDE DEF b, d
<1>4. ShortTime(b) = WrittenAt(k)
  BY <1>1, <1>2, <1>3
<1> QED BY <1>4 DEF b

\* The seconds from one time to another.
Apart(a, b) == (86400 * (b[1] - a[1])) + b[2] - a[2]

\* A long date is read a time later that is the same for all, so that they stay
\* as far apart.
LEMMA LongTimesApart ==
  ASSUME NEW j \in 1 .. 7, NEW k \in 1 .. 7
  PROVE  Apart(LongTime(Long(j)), LongTime(Long(k))) = Apart(WrittenAt(j), WrittenAt(k))
<1>1. ASSUME NEW i \in 1 .. 7
      PROVE  \E day \in Int, clock \in DaySeconds :
               /\ LongTime(Long(i)) = <<day + ((clock + Skew) \div 86400), (clock + Skew) % 86400>>
               /\ WrittenAt(i) = <<day, clock>>
  <2> DEFINE d == Date(i)
             day == DayOf(d.year, d.mon - 1, d.mday)
             clock == ClockSecond(d.hour, d.min, d.sec)
             tm == [year |-> d.year - 1900, mon |-> d.mon - 1, mday |-> d.mday,
                    hour |-> d.hour, min |-> d.min, sec |-> d.sec]
  <2>1. IsMoment(d) /\ Long(i) = LongOf(d)
    <3>1. i \in 1 .. 12
      BY SMT
    <3> QED BY <3>1, RunDates
  <2>2. WrittenAt(i) = Timegm(tm)
    BY DEF WrittenAt
  <2>3. /\ tm.year = d.year - 1900 /\ tm.mon = d.mon - 1 /\ tm.mday = d.mday
        /\ tm.hour = d.hour /\ tm.min = d.min /\ tm.sec = d.sec
    OBVIOUS
  <2> HIDE DEF d, tm
  <2>4. /\ LongTime(Long(i)) = <<day + ((clock + Skew) \div 86400), (clock + Skew) % 86400>>
        /\ day \in Int /\ clock \in DaySeconds
    BY <2>1, LongTimeOf
  <2>5. Timegm(tm) = <<day, clock>>
    <3> DEFINE y == d.year
               mon == d.mon - 1
               mday == d.mday
               h == d.hour
               min == d.min
               sec == d.sec
    <3>1. /\ y \in FatYears /\ mon \in Months /\ mday \in Nat
          /\ h \in Hours /\ min \in Sixty /\ sec \in Sixty
      BY <2>1, SMT DEF IsMoment, IsDate, MonthDays, Months
    <3>2. /\ tm.year = y - 1900 /\ tm.mon = mon /\ tm.mday = mday
          /\ tm.hour = h /\ tm.min = min /\ tm.sec = sec
      BY <2>3
    <3> HIDE DEF y, mon, mday, h, min, sec
    <3>3. Timegm(tm) = <<DayOf(y, mon, mday), ClockSecond(h, min, sec)>>
      BY <3>1, <3>2, TimeInDay
    <3> QED BY <3>3 DEF y, mon, mday, h, min, sec
  <2> QED BY <2>2, <2>4, <2>5
<1>2. PICK x \in Int, s \in DaySeconds :
        /\ LongTime(Long(j)) = <<x + ((s + Skew) \div 86400), (s + Skew) % 86400>>
        /\ WrittenAt(j) = <<x, s>>
  BY <1>1
<1>3. PICK y \in Int, t \in DaySeconds :
        /\ LongTime(Long(k)) = <<y + ((t + Skew) \div 86400), (t + Skew) % 86400>>
        /\ WrittenAt(k) = <<y, t>>
  BY <1>1
<1> DEFINE p == s + Skew
           q == t + Skew
<1>4. /\ p \in Nat /\ q \in Nat /\ q - p = t - s /\ s \in Nat /\ t \in Nat
  BY SMT DEF DaySeconds, Skew
<1> HIDE DEF p, q
<1>5. /\ p \div 86400 \in Int /\ p % 86400 \in Int /\ 86400 * (p \div 86400) + (p % 86400) = p
      /\ q \div 86400 \in Int /\ q % 86400 \in Int /\ 86400 * (q \div 86400) + (q % 86400) = q
  BY <1>4, SMT
<1> DEFINE pd == p \div 86400
           pr == p % 86400
           qd == q \div 86400
           qr == q % 86400
<1> HIDE DEF pd, pr, qd, qr
<1>6. (86400 * ((y + qd) - (x + pd))) + qr - pr = (86400 * (y - x)) + t - s
  BY <1>4, <1>5, SMT DEF pd, pr, qd, qr
<1>7. /\ LongTime(Long(j)) = <<x + pd, pr>> /\ LongTime(Long(k)) = <<y + qd, qr>>
  BY <1>2, <1>3 DEF p, q, pd, pr, qd, qr
<1> QED BY <1>2, <1>3, <1>6, <1>7 DEF Apart

\* The extensions of a record, by what they hold.
LEMMA ExtensionsAre ==
  ASSUME NEW held \in Seq({"name", "dates", "other"}), NEW name, IsName(name),
         NEW types \in SUBSET (1 .. 7), NEW long \in BOOLEAN
  PROVE  LET e == Extensions(held, name, types, long) IN
         /\ e \in Seq(Seq(Octet)) /\ Len(e) = Len(held)
         /\ \A i \in 1 .. Len(held) :
              /\ IsExtension(e[i])
              /\ held[i] = "name" => HoldsName(e[i], name)
              /\ held[i] = "dates" => HoldsDates(e[i], types, long)
              /\ held[i] = "other" => IsOther(e[i])
<1> DEFINE n == Len(held)
           ext(i) == CASE held[i] = "name"  -> NameExtension(name)
                       [] held[i] = "dates" -> DateExtension(types, long)
                       [] OTHER -> OtherExtension
           e == Extensions(held, name, types, long)
           V == Seq(Octet)
<1>1. n \in Nat /\ DOMAIN held = 1 .. n /\ \A i \in 1 .. n : held[i] \in {"name", "dates", "other"}
  BY LenProperties, ElementOfSeq
<1>2. e = [i \in 1 .. n |-> ext(i)]
  BY <1>1 DEF Extensions
<1>3. HoldsName(NameExtension(name), name)
  <2>1. name.flags \in Octet /\ name.text \in Seq(Octet) /\ Len(name.text) <= 250
    <3>1. name.text \in Seq(Octet) /\ Len(name.text) <= 250
      BY LettersAre DEF IsName
    <3>2. name.flags \in Octet
      BY SMT DEF IsName, Octet
    <3> QED BY <3>1, <3>2
  <2> QED BY <2>1, NameExtensionIs
<1>4. HoldsDates(DateExtension(types, long), types, long)
  BY DateExtensionIs
<1>5. IsOther(OtherExtension)
  BY OtherExtensionIs
<1>6. ASSUME NEW i \in 1 .. n
      PROVE  /\ ext(i) \in V /\ IsExtension(ext(i))
             /\ held[i] = "name" => HoldsName(ext(i), name)
             /\ held[i] = "dates" => HoldsDates(ext(i), types, long)
             /\ held[i] = "other" => IsOther(ext(i))
  <2>1. CASE held[i] = "name"
    <3>1. ext(i) = NameExtension(name)
      BY <2>1
    <3> HIDE DEF ext
    <3> QED BY <1>3, <2>1, <3>1 DEF HoldsName, IsExtension
  <2>2. CASE held[i] = "dates"
    <3>1. ext(i) = DateExtension(types, long)
      BY <2>2
    <3>2. IsExtension(ext(i)) /\ HoldsDates(ext(i), types, long)
      <4> HIDE DEF ext
      <4> QED BY <1>4, <3>1, SMTT(30) DEF HoldsDates
    <3> HIDE DEF ext
    <3> QED BY <2>2, <3>2 DEF IsExtension
  <2>3. CASE held[i] = "other"
    <3>1. ext(i) = OtherExtension
      BY <2>3
    <3> HIDE DEF ext
    <3> QED BY <1>5, <2>3, <3>1 DEF IsOther, IsExtension
  <2> QED BY <1>1, <2>1, <2>2, <2>3
<1> HIDE DEF ext, V, e, n
<1>7. e \in Seq(V) /\ Len(e) = n /\ \A i \in 1 .. n : e[i] = ext(i)
  <2>1. e \in [1 .. n -> V] /\ \A i \in 1 .. n : e[i] = ext(i)
    BY <1>2, <1>6
  <2> QED BY <1>1, <2>1, SMT
<1> QED BY <1>6, <1>7 DEF V, e, n

\* What the driver reads is what was written: see RecordsRead.
IsRead(r, identifier, name, types, long, rockRidge, held) ==
  LET Has(x) == rockRidge /\ \E i \in DOMAIN held : held[i] = x
      time(k) == Timestamp(r, rockRidge, DateTypes[k])
      dated == IF Has("dates") THEN types ELSE {}
  IN  /\ Filename(r, rockRidge) = IF ~Has("name") THEN identifier ELSE NameRead(name)
      /\ \A k \in DOMAIN DateTypes \ dated :
           time(k) = IF k = 1 THEN WrittenAt(HeaderDate) ELSE NoTime
      /\ IF long THEN \A j, k \in dated :
                        Apart(time(j), time(k)) = Apart(WrittenAt(j), WrittenAt(k))
         ELSE \A k \in dated : time(k) = WrittenAt(k)

\* What the driver finds in a record is what was written: the name and the dates
\* of the extensions where there are some and they are asked for, and of the
\* header otherwise; dates in the long format keep their distances.  For every
\* name of a file, every alternate name, all sets of dates and all orders and
\* numbers of extensions that a record has room for (iso9660.c:115-169, 437-482,
\* 538-605).
THEOREM RecordRead ==
  ASSUME NEW identifier, IsIdentifier(identifier), NEW name, IsName(name),
         NEW types \in SUBSET (1 .. 7), NEW long \in BOOLEAN, NEW rockRidge \in BOOLEAN,
         NEW held \in Seq({"name", "dates", "other"}),
         StartBehind(Len(identifier))
           + Len(FlattenSeq(Extensions(held, name, types, long))) <= 254
  PROVE  IsRead(RecordOf(identifier, Extensions(held, name, types, long)),
                identifier, name, types, long, rockRidge, held)
<1> DEFINE e == Extensions(held, name, types, long)
           flat == FlattenSeq(e)
           r == RecordOf(identifier, e)
           n == Len(held)
<1>1. /\ e \in Seq(Seq(Octet)) /\ Len(e) = n
      /\ \A i \in 1 .. n :
           /\ IsExtension(e[i])
           /\ held[i] = "name" => HoldsName(e[i], name)
           /\ held[i] = "dates" => HoldsDates(e[i], types, long)
           /\ held[i] = "other" => IsOther(e[i])
  BY ExtensionsAre
<1>2. DOMAIN held = 1 .. n /\ \A i \in 1 .. n : held[i] \in {"name", "dates", "other"}
  BY LenProperties, ElementOfSeq
<1>3. identifier \in Seq(Octet) /\ Len(identifier) \in Octet /\ Len(identifier) \in Nat
  <2>1. identifier \in Seq(Octet) /\ Len(identifier) < 256
    BY LettersAre DEF IsIdentifier
  <2> QED BY <2>1, LenProperties DEF Octet
<1> HIDE DEF e
<1>4. flat \in Seq(Octet)
  BY <1>1, PartsOf DEF HasParts
<1>5. IsRecord(r, identifier, flat)
  <2>1. StartBehind(Len(identifier)) + Len(flat) <= 254
    BY DEF e
  <2> QED BY <1>3, <1>4, <2>1, RecordIs
<1> HIDE DEF flat, r, n
<1>6. 78 \in Octet /\ 77 \in Octet /\ 84 \in Octet /\ 70 \in Octet
  BY SMT DEF Octet
<1>7. ASSUME NEW a \in Octet, NEW b \in Octet PROVE Finds(r, <<a, b>>, e)
  <2>1. \A i \in 1 .. Len(e) : IsExtension(e[i])
    BY <1>1
  <2> QED BY <1>1, <1>3, <1>5, <2>1, ExtensionFound DEF flat
<1>8. r \in Seq(Octet)
  BY <1>5 DEF IsRecord
<1> DEFINE HasName  == \E i \in 1 .. n : held[i] = "name"
           HasDates == \E i \in 1 .. n : held[i] = "dates"
<1>9. ASSUME NEW i \in 1 .. n
      PROVE  /\ Marked(e[i], <<78, 77>>) <=> held[i] = "name"
             /\ Marked(e[i], <<84, 70>>) <=> held[i] = "dates"
  <2>1. held[i] \in {"name", "dates", "other"}
    BY <1>2
  <2>2. /\ held[i] = "name" => e[i][1] = 78 /\ e[i][2] = 77
        /\ held[i] = "dates" => e[i][1] = 84 /\ e[i][2] = 70
        /\ held[i] = "other" => e[i][1] = 80
    BY <1>1 DEF HoldsName, HoldsDates, IsOther
  <2> QED BY <2>1, <2>2 DEF Marked
<1>10. /\ HasName => \E i \in 1 .. n : held[i] = "name" /\ HoldsAt(r, FirstExtension(r, NM), e[i])
       /\ ~HasName => FirstExtension(r, NM) = Nothing
  <2>1. Finds(r, NM, e)
    BY <1>6, <1>7 DEF NM
  <2> QED BY <1>1, <1>9, <2>1, SMTT(30) DEF Finds, NM
<1>11. /\ HasDates => \E i \in 1 .. n : held[i] = "dates" /\ HoldsAt(r, FirstExtension(r, TF), e[i])
       /\ ~HasDates => FirstExtension(r, TF) = Nothing
  <2>1. Finds(r, TF, e)
    BY <1>6, <1>7 DEF TF
  <2> QED BY <1>1, <1>9, <2>1 DEF Finds, TF
<1>12. RecordName(r) = identifier
  BY <1>4, <1>5, RecordNameIs
<1>13. Filename(r, rockRidge) = IF ~(rockRidge /\ HasName) THEN identifier ELSE NameRead(name)
  <2> DEFINE at == FirstExtension(r, NM)
  <2>1. Filename(r, rockRidge) = IF rockRidge /\ at # Nothing THEN AlternateName(r, at) ELSE RecordName(r)
    BY DEF Filename
  <2> HIDE DEF at
  <2>2. CASE HasName
    <3>1. PICK i \in 1 .. n : held[i] = "name" /\ HoldsAt(r, at, e[i])
      BY <1>10, <2>2 DEF at
    <3>2. AlternateName(r, at) = NameRead(name)
      BY <1>1, <1>8, <3>1, NameReadAt
    <3>3. at # Nothing
      BY <3>1 DEF HoldsAt, Nothing
    <3> QED BY <1>12, <2>1, <2>2, <3>2, <3>3
  <2>3. CASE ~HasName
    BY <1>10, <1>12, <2>1, <2>3 DEF at
  <2> QED BY <2>2, <2>3
<1> DEFINE at == FirstExtension(r, TF)
           dated == IF rockRidge /\ HasDates THEN types ELSE {}
           time(k) == Timestamp(r, rockRidge, DateTypes[k])
<1>14. Text(r, CreatedTime, 7) = Short(HeaderDate)
  <2>1. Short(HeaderDate) \in Seq(Octet) /\ Len(Short(HeaderDate)) = 7
    BY ShortTyped DEF HeaderDate
  <2>2. \A j \in 1 .. 7 : r[CreatedTime + j] = Short(HeaderDate)[j]
    BY <1>5 DEF IsRecord
  <2>3. CreatedTime \in Nat /\ CreatedTime + 7 <= Len(r)
    <3>1. Len(r) \in Nat /\ HeaderSize <= Len(r)
      BY <1>3, <1>4, <1>5, <1>8, RecordLength, LenProperties
    <3> QED BY <3>1, SMT DEF CreatedTime, HeaderSize
  <2> QED BY <1>8, <2>1, <2>2, <2>3, TextIs
<1>15. ShortTime(Text(r, CreatedTime, 7)) = WrittenAt(HeaderDate)
  BY <1>14, ShortTimeIs DEF HeaderDate
<1>16. ASSUME NEW k \in 1 .. 7
       PROVE  /\ k \in dated => time(k) = IF long THEN LongTime(Long(k)) ELSE WrittenAt(k)
              /\ k \notin dated => time(k) = IF k = 1 THEN WrittenAt(HeaderDate) ELSE NoTime
  <2>1. time(k) = IF rockRidge /\ at # Nothing /\ HasBit(Byte(r, at + 4), k - 1) THEN DateAt(r, at, k)
                  ELSE IF k = 1 THEN ShortTime(Text(r, CreatedTime, 7)) ELSE NoTime
    BY TimestampIs
  <2> HIDE DEF at, time
  <2>2. CASE ~HasDates
    <3>1. at = Nothing
      BY <1>11, <2>2 DEF at
    <3> QED BY <1>15, <2>1, <2>2, <3>1
  <2>3. CASE HasDates
    <3>1. PICK i \in 1 .. n : held[i] = "dates" /\ HoldsAt(r, at, e[i])
      BY <1>11, <2>3 DEF at
    <3>2. at # Nothing
      BY <3>1 DEF HoldsAt, Nothing
    <3>3. HoldsDates(e[i], types, long)
      BY <1>1, <3>1
    <3>4. HasBit(Byte(r, at + 4), k - 1) <=> k \in types
      BY <3>1, <3>3, FlagsReadAt DEF HasFlags
    <3>5. k \in types => DateAt(r, at, k) = IF long THEN LongTime(Long(k)) ELSE WrittenAt(k)
      <4> SUFFICES ASSUME k \in types
                   PROVE  DateAt(r, at, k) = IF long THEN LongTime(Long(k)) ELSE WrittenAt(k)
        OBVIOUS
      <4>1. DateAt(r, at, k) = IF long THEN LongTime(Long(k)) ELSE ShortTime(Short(k))
        BY <1>8, <3>1, <3>3, DateReadAt
      <4>2. k \in 1 .. 8
        BY SMT
      <4>3. ShortTime(Short(k)) = WrittenAt(k)
        BY <4>2, ShortTimeIs
      <4> QED BY <4>1, <4>3
    <3> QED BY <1>15, <2>1, <2>3, <3>2, <3>4, <3>5
  <2> QED BY <2>2, <2>3
<1>17. DOMAIN DateTypes = 1 .. 7
  BY DEF DateTypes
<1>18. dated \subseteq 1 .. 7
  OBVIOUS
<1> HIDE DEF time, dated
<1>19. \A k \in DOMAIN DateTypes \ dated : time(k) = IF k = 1 THEN WrittenAt(HeaderDate) ELSE NoTime
  BY <1>16, <1>17
<1>20. IF long THEN \A j, k \in dated : Apart(time(j), time(k)) = Apart(WrittenAt(j), WrittenAt(k))
       ELSE \A k \in dated : time(k) = WrittenAt(k)
  <2>1. CASE long
    <3> SUFFICES ASSUME NEW j \in dated, NEW k \in dated
                 PROVE  Apart(time(j), time(k)) = Apart(WrittenAt(j), WrittenAt(k))
      BY <2>1
    <3>1. j \in 1 .. 7 /\ k \in 1 .. 7
      BY <1>18
    <3>2. time(j) = LongTime(Long(j)) /\ time(k) = LongTime(Long(k))
      BY <1>16, <2>1, <3>1
    <3> QED BY <3>1, <3>2, LongTimesApart
  <2>2. CASE ~long
    BY <1>16, <1>18, <2>2
  <2> QED BY <2>1, <2>2
<1> QED BY <1>2, <1>13, <1>19, <1>20 DEF IsRead, time, dated, r, e

\* The inputs of the run.
Identifiers == {<<65>>, <<65, 66>>, <<65, 66, 67>>}
RecordPart ==
  input.kind = "record" =>
    /\ input.identifier \in Identifiers
    /\ input.name \in AlternateNames
    /\ input.types \in SUBSET (1 .. 7) /\ input.long \in BOOLEAN /\ input.rockRidge \in BOOLEAN
    /\ \E order \in SetToSeqs({"name", "dates", "other"}), count \in 0 .. 3 :
         input.held = SubSeq(order, 1, count)

LEMMA RecordsMade == Spec => []RecordPart
<1>1. Init => RecordPart
  <2>1. Init => input.kind = "none"
    BY DEF Init, NoInput
  <2> QED BY <2>1 DEF RecordPart
<1>2. ASSUME RecordPart, [Next]_input PROVE RecordPart'
  <2>1. CASE UNCHANGED input
    BY <1>2, <2>1 DEF RecordPart
  <2>2. CASE Return
    BY <2>2 DEF Return, NoInput, RecordPart
  <2>3. CASE Convert
    <3> SUFFICES ASSUME input'.kind = "record"
                 PROVE  RecordPart'
      BY DEF RecordPart
    <3>1. ConvertRecord
      BY <2>3, MadeByKind
    <3>2. PICK identifier \in {<<65>>, <<65, 66>>, <<65, 66, 67>>}, name \in AlternateNames,
               types \in {{1}, {2, 3}, {1, 4, 7}, 1 .. 7}, long, rockRidge \in BOOLEAN,
               order \in SetToSeqs({"name", "dates", "other"}), count \in 0 .. 3 :
            /\ long => types # 1 .. 7
            /\ input' = [kind |-> "record", identifier |-> identifier, name |-> name, types |-> types,
                         long |-> long, rockRidge |-> rockRidge, held |-> SubSeq(order, 1, count)]
      BY <3>1, Zenon DEF ConvertRecord
    <3>3. /\ input'.identifier = identifier /\ input'.name = name /\ input'.types = types
          /\ input'.long = long /\ input'.rockRidge = rockRidge
          /\ input'.held = SubSeq(order, 1, count)
      BY <3>2
    <3>4. types \in SUBSET (1 .. 7)
      BY SMT
    <3> QED BY <3>3, <3>4, Zenon DEF RecordPart, Identifiers
  <2> QED BY <1>2, <2>1, <2>2, <2>3 DEF Next
<1> QED BY <1>1, <1>2, PTL DEF Spec

\* The extensions of a record of the run, each of them once.
HeldOnce(held) ==
  /\ held \in Seq({"name", "dates", "other"}) /\ Len(held) <= 3
  /\ \A i, j \in 1 .. Len(held) : i # j => held[i] # held[j]

LEMMA RunHeld ==
  ASSUME NEW order \in SetToSeqs({"name", "dates", "other"}), NEW count \in 0 .. 3
  PROVE  HeldOnce(SubSeq(order, 1, count))
<1> DEFINE S == {"name", "dates", "other"}
           held == SubSeq(order, 1, count)
<1>1. Cardinality(S) = 3
  <2>1. IsFiniteSet({"name"}) /\ Cardinality({"name"}) = 1
    BY FS_Singleton
  <2>2. IsFiniteSet({"name"} \cup {"dates"}) /\ Cardinality({"name"} \cup {"dates"}) = 2
    <3>1. "dates" \notin {"name"}
      OBVIOUS
    <3> QED BY <2>1, <3>1, FS_AddElement
  <2>3. Cardinality(({"name"} \cup {"dates"}) \cup {"other"}) = 3
    <3>1. "other" \notin {"name"} \cup {"dates"}
      OBVIOUS
    <3> QED BY <2>2, <3>1, FS_AddElement
  <2>4. S = ({"name"} \cup {"dates"}) \cup {"other"}
    OBVIOUS
  <2> QED BY <2>3, <2>4
<1>2. order \in [1 .. 3 -> S] /\ \A i, j \in 1 .. 3 : i # j => order[i] # order[j]
  BY <1>1, Zenon DEF SetToSeqs
<1> HIDE DEF S
<1>3. order \in Seq(S) /\ Len(order) = 3
  <2>1. 3 \in Nat
    OBVIOUS
  <2> DEFINE three == 3
  <2> HIDE DEF three
  <2>2. three \in Nat /\ order \in [1 .. three -> S]
    BY <1>2, <2>1 DEF three
  <2>3. order \in Seq(S) /\ Len(order) = three
    BY <2>2, SMT
  <2> QED BY <2>3 DEF three
<1>4. /\ held \in Seq(S) /\ Len(held) = count
      /\ \A i \in 1 .. count : held[i] = order[i]
  BY <1>2, SMT
<1> HIDE DEF held
<1>5. \A i \in 1 .. count : i \in 1 .. 3
  BY SMT
<1>6. count <= 3
  BY SMT
<1> QED BY <1>2, <1>4, <1>5, <1>6 DEF HeldOnce, S, held

\* They fit.
LEMMA ExtensionsFit ==
  ASSUME NEW held, HeldOnce(held), NEW name, IsName(name), Len(name.text) <= 3,
         NEW types \in SUBSET (1 .. 7), NEW long \in BOOLEAN
  PROVE  LET flat == FlattenSeq(Extensions(held, name, types, long))
         IN  Len(flat) \in Nat /\ Len(flat) <= 141
<1> DEFINE e == Extensions(held, name, types, long)
           flat == FlattenSeq(e)
           n == Len(held)
           size(i) == IF held[i] = "name" THEN 8 ELSE IF held[i] = "dates" THEN 124 ELSE 9
<1>1. held \in Seq({"name", "dates", "other"})
  BY DEF HeldOnce
<1>2. /\ e \in Seq(Seq(Octet)) /\ Len(e) = n
      /\ \A i \in 1 .. n :
           /\ IsExtension(e[i])
           /\ held[i] = "name" => HoldsName(e[i], name)
           /\ held[i] = "dates" => HoldsDates(e[i], types, long)
           /\ held[i] = "other" => IsOther(e[i])
  BY <1>1, ExtensionsAre
<1>3. n \in 0 .. 3 /\ \A i \in 1 .. n : held[i] \in {"name", "dates", "other"}
  <2>1. n \in Nat /\ n <= 3
    BY <1>1, LenProperties DEF HeldOnce
  <2>2. \A i \in 1 .. n : held[i] \in {"name", "dates", "other"}
    BY <1>1, ElementOfSeq
  <2> HIDE DEF n
  <2> QED BY <2>1, <2>2, SMT
<1> HIDE DEF e
<1>4. flat \in Seq(Octet) /\ \E at \in [1 .. n + 1 -> Nat] : PartsAt(e, flat, n, at)
  BY <1>2, PartsOf DEF HasParts
<1> HIDE DEF flat
<1>5. Len(flat) \in Nat
  BY <1>4, LenProperties
<1>6. PICK at \in [1 .. n + 1 -> Nat] : PartsAt(e, flat, n, at)
  BY <1>4
<1>7. ASSUME NEW i \in 1 .. n PROVE Len(e[i]) \in Nat /\ Len(e[i]) <= size(i)
  <2>1. Len(e[i]) \in Nat
    BY <1>2, LenProperties DEF IsExtension
  <2>2. CASE held[i] = "name"
    <3>1. Len(e[i]) = 5 + Len(name.text) /\ Len(name.text) \in Nat
      BY <1>2, <2>2, LenProperties DEF HoldsName, IsName
    <3> QED BY <2>1, <2>2, <3>1, SMT
  <2>3. CASE held[i] = "dates"
    <3>1. Len(e[i]) <= 124 /\ held[i] # "name"
      BY <1>2, <2>3 DEF HoldsDates
    <3> QED BY <2>1, <2>3, <3>1
  <2>4. CASE held[i] = "other"
    <3>1. Len(e[i]) = 9 /\ held[i] # "name" /\ held[i] # "dates"
      BY <1>2, <2>4 DEF IsOther
    <3>2. Len(e[i]) <= 9
      BY <3>1, SMT
    <3> QED BY <2>1, <3>1, <3>2
  <2> QED BY <1>3, <2>2, <2>3, <2>4
<1>8. /\ \A i \in 1 .. n : size(i) \in {8, 9, 124}
      /\ \A i, j \in 1 .. n : i # j => size(i) # size(j)
  BY <1>3 DEF HeldOnce
<1>9. /\ at[1] = 0 /\ at[n + 1] = Len(flat)
      /\ \A i \in 1 .. n : at[i + 1] = at[i] + Len(e[i])
  BY <1>6 DEF PartsAt
<1> DEFINE len(i) == Len(e[i])
<1>10. \A i \in 1 .. n : len(i) \in Nat /\ len(i) <= size(i) /\ at[i + 1] = at[i] + len(i)
  BY <1>7, <1>9
<1> HIDE DEF len, size, n
<1>11. CASE n = 0
  BY <1>5, <1>9, <1>11, SMT DEF flat, e
<1>12. CASE n = 1
  <2>1. 1 \in 1 .. n
    BY <1>12
  <2>2. Len(flat) = len(1) /\ len(1) \in Nat /\ len(1) <= size(1) /\ size(1) \in {8, 9, 124}
    BY <1>8, <1>9, <1>10, <1>12, <2>1, SMT
  <2> QED BY <1>5, <2>2, SMT DEF flat, e
<1>13. CASE n = 2
  <2>1. 1 \in 1 .. n /\ 2 \in 1 .. n
    BY <1>13, SMT
  <2>2. Len(flat) = at[2 + 1] /\ at[2 + 1] = at[2] + len(2) /\ at[1 + 1] = 0 + len(1)
    BY <1>9, <1>10, <1>13, <2>1
  <2>3. Len(flat) = len(1) + len(2)
    BY <1>10, <2>1, <2>2, SMT
  <2>4. /\ len(1) \in Nat /\ len(1) <= size(1) /\ size(1) \in {8, 9, 124}
        /\ len(2) \in Nat /\ len(2) <= size(2) /\ size(2) \in {8, 9, 124}
        /\ size(1) # size(2)
    BY <1>8, <1>10, <2>1
  <2> QED BY <1>5, <2>3, <2>4, SMT DEF flat, e
<1>14. CASE n = 3
  <2>1. 1 \in 1 .. n /\ 2 \in 1 .. n /\ 3 \in 1 .. n
    BY <1>14, SMT
  <2>2. /\ Len(flat) = at[3 + 1] /\ at[3 + 1] = at[3] + len(3)
        /\ at[2 + 1] = at[2] + len(2) /\ at[1 + 1] = 0 + len(1)
    BY <1>9, <1>10, <1>14, <2>1
  <2>3. Len(flat) = len(1) + len(2) + len(3)
    BY <1>10, <2>1, <2>2, SMT
  <2>4. /\ len(1) \in Nat /\ len(1) <= size(1) /\ size(1) \in {8, 9, 124}
        /\ len(2) \in Nat /\ len(2) <= size(2) /\ size(2) \in {8, 9, 124}
        /\ len(3) \in Nat /\ len(3) <= size(3) /\ size(3) \in {8, 9, 124}
        /\ size(1) # size(2) /\ size(1) # size(3) /\ size(2) # size(3)
    BY <1>8, <1>10, <2>1
  <2> QED BY <1>5, <2>3, <2>4, SMT DEF flat, e
<1> QED BY <1>3, <1>11, <1>12, <1>13, <1>14 DEF n

\* The names of the run.
LEMMA RunIdentifiers ==
  ASSUME NEW identifier \in Identifiers
  PROVE  IsIdentifier(identifier) /\ Len(identifier) <= 3
<1>1. 65 \in RecordByte /\ 66 \in RecordByte /\ 67 \in RecordByte
  BY SMT DEF RecordByte, Octet
<1> DEFINE S == RecordByte
<1>2. 65 \in S /\ 66 \in S /\ 67 \in S
  BY <1>1
<1> HIDE DEF S
<1>3. \/ identifier = <<65>> /\ identifier \in Seq(S) /\ Len(identifier) = 1
      \/ identifier = <<65, 66>> /\ identifier \in Seq(S) /\ Len(identifier) = 2
      \/ identifier = <<65, 66, 67>> /\ identifier \in Seq(S) /\ Len(identifier) = 3
  <2>1. <<65>> \in Seq(S) /\ Len(<<65>>) = 1
    BY <1>2, SMT
  <2>2. <<65, 66>> \in Seq(S) /\ Len(<<65, 66>>) = 2
    BY <1>2, SMT
  <2>3. <<65, 66, 67>> \in Seq(S) /\ Len(<<65, 66, 67>>) = 3
    BY <1>2, SMT
  <2> QED BY <2>1, <2>2, <2>3 DEF Identifiers
<1>4. Len(identifier) = 1 => identifier[1] = 65
  <2>1. <<65>>[1] = 65
    OBVIOUS
  <2>2. Len(identifier) = 1 => identifier = <<65>>
    <3>1. Len(identifier) = 1 \/ Len(identifier) = 2 \/ Len(identifier) = 3
      BY <1>3
    <3> QED BY <1>3
  <2> QED BY <2>1, <2>2
<1>5. Len(identifier) > 0 /\ Len(identifier) < 256 /\ Len(identifier) <= 3
  <2> DEFINE length == Len(identifier)
  <2>1. length = 1 \/ length = 2 \/ length = 3
    BY <1>3
  <2> HIDE DEF length
  <2>2. length > 0 /\ length < 256 /\ length <= 3
    BY <2>1, SMT
  <2> QED BY <2>2 DEF length
<1>6. 65 \in 3 .. 127
  BY SMT
<1>7. identifier \in Seq(S)
  BY <1>3
<1> QED BY <1>4, <1>5, <1>6, <1>7 DEF IsIdentifier, S

LEMMA RunAlternates ==
  ASSUME NEW name \in AlternateNames
  PROVE  IsName(name) /\ Len(name.text) <= 3
<1> DEFINE S == RecordByte
<1>1. 97 \in S /\ 98 \in S /\ 120 \in S /\ 46 \in S /\ 121 \in S
  BY SMT DEF RecordByte, Octet
<1> HIDE DEF S
<1>2. name.flags \in {0, 2, 4}
  BY DEF AlternateNames
<1>3. name.text \in {<<97, 98>>, <<120, 46, 121>>, << >>}
  BY DEF AlternateNames
<1>4. name.text \in Seq(S) /\ Len(name.text) <= 3 /\ Len(name.text) <= 250
  <2>1. <<97, 98>> \in Seq(S) /\ Len(<<97, 98>>) = 2
    BY <1>1, SMT
  <2>2. <<120, 46, 121>> \in Seq(S) /\ Len(<<120, 46, 121>>) = 3
    BY <1>1, SMT
  <2>3. << >> \in Seq(S) /\ Len(<< >>) = 0
    BY EmptySeq
  <2>4. name.text \in Seq(S) /\ (Len(name.text) = 2 \/ Len(name.text) = 3 \/ Len(name.text) = 0)
    BY <1>3, <2>1, <2>2, <2>3
  <2> DEFINE length == Len(name.text)
  <2>5. length = 2 \/ length = 3 \/ length = 0
    BY <2>4
  <2> HIDE DEF length
  <2>6. length <= 3 /\ length <= 250
    BY <2>5, SMT
  <2> QED BY <2>4, <2>6 DEF length
<1> QED BY <1>2, <1>4 DEF IsName, S

\* Every record of the run is read as it was written (iso9660.c:115-169,
\* 437-482, 538-605).
THEOREM RecordsAlwaysRead == Spec => []RecordsRead
<1>1. ASSUME RecordPart PROVE RecordsRead
  <2> SUFFICES ASSUME input.kind = "record"
               PROVE  RecordsRead
    BY DEF RecordsRead
  <2> DEFINE identifier == input.identifier
             name == input.name
             types == input.types
             long == input.long
             rockRidge == input.rockRidge
             held == input.held
             flat == FlattenSeq(Extensions(held, name, types, long))
  <2>1. PICK order \in SetToSeqs({"name", "dates", "other"}), count \in 0 .. 3 :
          held = SubSeq(order, 1, count)
    BY <1>1 DEF RecordPart
  <2>2. /\ identifier \in Identifiers /\ name \in AlternateNames
        /\ types \in SUBSET (1 .. 7) /\ long \in BOOLEAN /\ rockRidge \in BOOLEAN
    BY <1>1 DEF RecordPart
  <2>3. HeldOnce(held)
    BY <2>1, RunHeld
  <2>4. IsIdentifier(identifier) /\ Len(identifier) <= 3
    BY <2>2, RunIdentifiers
  <2>5. IsName(name) /\ Len(name.text) <= 3
    BY <2>2, RunAlternates
  <2>6. Len(flat) \in Nat /\ Len(flat) <= 141
    BY <2>2, <2>3, <2>5, ExtensionsFit
  <2>7. StartBehind(Len(identifier)) + Len(flat) <= 254
    <3>1. Len(identifier) \in Nat
      BY <2>4, LenProperties DEF IsIdentifier
    <3> HIDE DEF flat, identifier
    <3> QED BY <2>4, <2>6, <3>1, SMT DEF StartBehind, HeaderSize
  <2>8. held \in Seq({"name", "dates", "other"})
    BY <2>3 DEF HeldOnce
  <2>9. IsRead(RecordOf(identifier, Extensions(held, name, types, long)),
                identifier, name, types, long, rockRidge, held)
    BY <2>2, <2>4, <2>5, <2>7, <2>8, RecordRead
  <2> DEFINE r == RecordOf(identifier, Extensions(held, name, types, long))
             Has(x) == rockRidge /\ \E i \in DOMAIN held : held[i] = x
             time(k) == Timestamp(r, rockRidge, DateTypes[k])
             dated == IF Has("dates") THEN types ELSE {}
  <2>10. /\ Filename(r, rockRidge) = IF ~Has("name") THEN identifier ELSE NameRead(name)
         /\ \A k \in DOMAIN DateTypes \ dated :
              time(k) = IF k = 1 THEN WrittenAt(HeaderDate) ELSE NoTime
         /\ IF long THEN \A j, k \in dated :
                           Apart(time(j), time(k)) = Apart(WrittenAt(j), WrittenAt(k))
            ELSE \A k \in dated : time(k) = WrittenAt(k)
    BY <2>9 DEF IsRead
  <2> QED BY <2>10 DEF RecordsRead, NameRead, Apart
<1> QED BY <1>1, RecordsMade, PTL

-----------------------------------------------------------------------------
\* Differences of times.

USE TimeAssumption

\* Reduction modulo the width, one turn below, in and one turn above the range.
LEMMA AsUnsignedOf ==
  ASSUME NEW n \in -NsecWord .. (2 * NsecWord) - 1
  PROVE  AsUnsigned(n) = IF n < 0 THEN n + NsecWord
                         ELSE IF n < NsecWord THEN n ELSE n - NsecWord
<1>1. CASE n < 0
  BY <1>1 DEF AsUnsigned
<1>2. CASE n >= 0 /\ n < NsecWord
  BY <1>2 DEF AsUnsigned
<1>3. CASE n >= NsecWord
  BY <1>3 DEF AsUnsigned
<1> QED BY <1>1, <1>2, <1>3

\* What fits the signed type is that number again.
LEMMA AsSignedOf ==
  ASSUME NEW n \in 1 - Billion .. Billion - 1
  PROVE  AsSigned(n) = n
<1>1. n \in -NsecWord .. (2 * NsecWord) - 1
  OBVIOUS
<1>2. n % NsecWord = IF n < 0 THEN n + NsecWord ELSE n
  BY <1>1, AsUnsignedOf DEF AsUnsigned
<1>3. /\ n < 0 => ~(n + NsecWord < NsecWord \div 2)
      /\ n >= 0 => n < NsecWord \div 2
  OBVIOUS
<1> QED BY <1>2, <1>3 DEF AsSigned

\* Moving a normal time by less than a second and any whole seconds is exact
\* (time.c:71-82): the borrow that every positive dnsec causes, as the test
\* compares unsigned numbers, is made up for by a larger nsec.
THEOREM MovesAreExact ==
  ASSUME NEW t \in [second : Int, nsec : Nat],
         NEW d \in [dsecond : Int, dnsec : Int]
  PROVE  MovesExactly(t, d)
<1> SUFFICES ASSUME IsNormal(t), d.dnsec \in 1 - Billion .. Billion - 1
             PROVE  /\ Instant(CalcDiff(t, d))
                         = Instant(t) + (d.dsecond * Billion) + d.dnsec
                    /\ d.dnsec <= 0 => CalcDiff(t, d).nsec \in 0 .. Billion - 1
  BY DEF MovesExactly
<1> DEFINE n == t.nsec
           e == d.dnsec
           b == IF Borrows(t, d) THEN 1 ELSE 0
<1>1. n \in 0 .. Billion - 1 /\ e \in 1 - Billion .. Billion - 1
  BY DEF IsNormal
<1>2. Borrows(t, d) <=> (e > 0 \/ -e > n)
  <2>1. -e \in -NsecWord .. (2 * NsecWord) - 1
    BY <1>1
  <2>2. AsUnsigned(-e) = IF e > 0 THEN NsecWord - e ELSE -e
    BY <1>1, <2>1, AsUnsignedOf
  <2> QED BY <1>1, <2>2 DEF Borrows
<1>3. n + (b * Billion) + e \in 0 .. NsecWord - 1
  <2>1. CASE Borrows(t, d)
    BY <1>1, <1>2, <2>1
  <2>2. CASE ~Borrows(t, d)
    BY <1>1, <1>2, <2>2
  <2> QED BY <2>1, <2>2
<1>4. AsUnsigned(n + (b * Billion) + e) = n + (b * Billion) + e
  BY <1>3, AsUnsignedOf
<1>5. CalcDiff(t, d) = [second |-> t.second + d.dsecond - b,
                        nsec |-> n + (b * Billion) + e]
  BY <1>4 DEF CalcDiff
<1>6. Instant(CalcDiff(t, d)) = Instant(t) + (d.dsecond * Billion) + d.dnsec
  <2> HIDE DEF b
  <2>1. b \in Int
    BY DEF b
  <2>2. (t.second + d.dsecond - b) * Billion
          = (t.second * Billion) + (d.dsecond * Billion) - (b * Billion)
    BY <2>1
  <2> QED BY <1>1, <1>5, <2>1, <2>2 DEF Instant
<1>7. ASSUME e <= 0 PROVE CalcDiff(t, d).nsec \in 0 .. Billion - 1
  BY <1>1, <1>2, <1>5, <1>7
<1> QED BY <1>6, <1>7

\* The difference of two normal times, applied to the first, gives the instant
\* of the second (time.c:71-89).
THEOREM RoundTripExact == \A ref, tm : GivesBack(ref, tm)
<1> SUFFICES ASSUME NEW ref, NEW tm, IsNormal(ref), IsNormal(tm)
             PROVE  Instant(CalcDiff(ref, GetDiff(ref, tm))) = Instant(tm)
  BY DEF GivesBack
<1>0. /\ ref \in [second : Int, nsec : Nat] /\ tm \in [second : Int, nsec : Nat]
      /\ ref.second \in Int /\ tm.second \in Int /\ ref.nsec \in Nat /\ tm.nsec \in Nat
  BY TimeAssumption DEF IsNormal
<1> DEFINE d == GetDiff(ref, tm)
<1>1. tm.nsec - ref.nsec \in 1 - Billion .. Billion - 1
  BY TimeAssumption DEF IsNormal
<1>2. d = [dsecond |-> tm.second - ref.second, dnsec |-> tm.nsec - ref.nsec]
  BY <1>1, AsSignedOf DEF GetDiff
<1>3. Instant(CalcDiff(ref, d)) = Instant(ref) + (d.dsecond * Billion) + d.dnsec
  BY <1>0, <1>1, <1>2, MovesAreExact DEF MovesExactly
<1>4. (tm.second - ref.second) * Billion
        = (tm.second * Billion) - (ref.second * Billion)
  BY <1>0, TimeAssumption
<1> QED BY <1>0, <1>2, <1>3, <1>4, TimeAssumption DEF Instant

-----------------------------------------------------------------------------
\* The properties of the run.

\* Whatever volume is converted, its clusters are inside it (fat.c:149-191).
THEOREM ClustersAlwaysInVolume == Spec => []ClustersInVolume
<1>1. ClustersInVolume
  BY EveryClusterInVolume DEF ClustersInVolume
<1> QED BY <1>1, PTL

\* Whatever volume is converted, the entries of its clusters are inside its first
\* FAT (fat.c:209-258).
THEOREM EntriesAlwaysInFat == Spec => []EntriesInFat
<1>1. EntriesInFat
  BY EveryEntryInFat DEF EntriesInFat
<1> QED BY <1>1, PTL

\* Whatever two times are converted, the difference leads from one to the other
\* (time.c:71-89).
THEOREM DifferencesAlwaysExact == Spec => []DifferencesExact
<1>1. DifferencesExact
  BY RoundTripExact DEF DifferencesExact
<1> QED BY <1>1, PTL
=============================================================================
