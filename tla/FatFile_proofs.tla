--------------------------- MODULE FatFile_proofs ---------------------------
(***************************************************************************)
(* An open file is a stream of bytes (ByteStream), for every chain, file,  *)
(* cluster and block size: reads deliver, call after call, the bytes that  *)
(* follow the cursor.                                                      *)
(***************************************************************************)
EXTENDS FatFile, FatChain_proofs, SequenceTheorems

\* What the theorems ask of the arguments: block and cluster sizes fit in the
\* 16 bits the code counts them in.
NarrowSizes == ClusterSize < Word /\ \A n \in Sizes : n < Word

-----------------------------------------------------------------------------
\* Arithmetic.

\* The quotient and remainder of a position given by both.
LEMMA Position ==
  ASSUME NEW m \in Nat, m > 0, NEW q \in Nat, NEW r \in 0 .. m - 1, NEW n \in Nat,
         n = q * m + r
  PROVE  n \div m = q /\ n % m = r
BY SMT

\* Quotient and remainder of a position.
LEMMA Positions ==
  ASSUME NEW m \in Nat, m > 0, NEW n \in Nat
  PROVE  /\ n \div m \in Nat /\ n % m \in 0 .. m - 1
         /\ n = (n \div m) * m + (n % m)
BY SMT

\* Products of natural numbers, where the larger of two is taken.
LEMMA ProductGrows ==
  ASSUME NEW m \in Nat, NEW j \in Nat, NEW k \in Nat, j <= k
  PROVE  j * m \in Nat /\ k * m \in Nat /\ j * m <= k * m
<1>1. PICK d \in Nat : k = j + d
  <2>1. k - j \in Nat /\ k = j + (k - j)
    BY SMT
  <2> QED BY <2>1
<1>2. k * m = j * m + d * m /\ j * m \in Nat /\ d * m \in Nat
  BY <1>1, SMT
<1> DEFINE x == j * m
           y == d * m
<1>3. x \in Nat /\ y \in Nat /\ k * m = x + y
  BY <1>2
<1> HIDE DEF x, y
<1>4. x + y \in Nat /\ x <= x + y
  BY <1>3, SMT
<1> QED BY <1>3, <1>4 DEF x

\* The sizes are numbers.
LEMMA FileConstants ==
  /\ ClusterSize \in Nat /\ ClusterSize > 0 /\ MaxSize \in Nat /\ Word \in Nat
  /\ FatSectors \in Nat /\ FatSectorSize \in Nat /\ FatSectorSize > 0
  /\ FatSectorSize % 4 = 0
  /\ Sizes \subseteq Nat /\ Counts \subseteq Nat /\ Offsets \subseteq Int
  /\ Types \subseteq FatType
BY FileAssumption

\* The clusters of a file of n bytes: as many as are begun.
LEMMA ClustersBegun ==
  ASSUME NEW n \in Nat
  PROVE  /\ ClusterCount(n) \in Nat
         /\ \A p \in Nat : p < n => p \div ClusterSize < ClusterCount(n)
         /\ \A k \in Nat : n <= k * ClusterSize => ClusterCount(n) <= k
<1> DEFINE c == ClusterSize
           t == n + c - 1
<1>1. c \in Nat /\ c > 0 /\ t \in Nat
  BY FileConstants
<1> HIDE DEF c
<1>2. ClusterCount(n) = t \div c
  BY DEF ClusterCount, c
<1>3. /\ t \div c \in Nat /\ t % c \in 0 .. c - 1 /\ t = (t \div c) * c + (t % c)
  BY <1>1, Positions
<1> DEFINE d == t \div c
<1>4. d \in Nat /\ t % c \in Nat /\ t % c <= c - 1 /\ t = d * c + (t % c)
  BY <1>1, <1>3
<1>5. ASSUME NEW p \in Nat, p < n PROVE p \div c < d
  <2>1. p \div c \in Nat /\ p % c \in Nat /\ p = (p \div c) * c + (p % c)
    BY <1>1, Positions
  <2> DEFINE q == p \div c
  <2> SUFFICES ASSUME d <= q PROVE FALSE
    BY <1>4, <2>1
  <2> HIDE DEF d, q
  <2>2. d * c \in Nat /\ q * c \in Nat /\ d * c <= q * c
    BY <1>1, <1>4, <2>1, ProductGrows DEF q
  <2>3. p = q * c + (p % c)
    BY <2>1 DEF q
  <2> DEFINE x == d * c
             y == q * c
  <2>4. x \in Nat /\ y \in Nat /\ x <= y /\ p = y + (p % c) /\ n + c - 1 = x + (t % c)
    BY <1>4, <2>2, <2>3
  <2> HIDE DEF x, y
  <2> QED BY <1>1, <1>4, <1>5, <2>1, <2>4
<1>6. ASSUME NEW k \in Nat, n <= k * c PROVE d <= k
  <2> SUFFICES ASSUME k + 1 <= d PROVE FALSE
    BY <1>4
  <2> HIDE DEF d
  <2>1. (k + 1) * c \in Nat /\ d * c \in Nat /\ (k + 1) * c <= d * c
    BY <1>1, <1>4, ProductGrows
  <2>2. (k + 1) * c = k * c + c /\ k * c \in Nat
    BY <1>1, SMT
  <2> DEFINE x == d * c
             y == k * c
  <2>3. x \in Nat /\ y \in Nat /\ y + c <= x /\ n <= y /\ n + c - 1 = x + (t % c)
    BY <1>4, <1>6, <2>1, <2>2
  <2> HIDE DEF x, y
  <2> QED BY <1>1, <1>4, <2>3
<1> QED BY <1>2, <1>4, <1>5, <1>6 DEF c

-----------------------------------------------------------------------------
\* The chain of a file, and what get_next_cluster finds in the FAT.

ChainOK ==
  /\ chain \in Seq(Nat) /\ Len(chain) = ClusterCount(size)
  /\ \A j, k \in 1 .. Len(chain) : chain[j] = chain[k] => j = k
  /\ \A k \in 1 .. Len(chain) :
       chain[k] \in Clusters /\ chain[k] <= MaxCluster(type) /\ InFat(type, chain[k])

\* The limits internal.h gives for the types.
LEMMA Limits ==
  /\ MaxCluster("FAT12") = 4084 /\ MaxCluster("FAT16") = 65524
  /\ MaxCluster("FAT32") = 268435446
  /\ MaxEntry("FAT12") = 65524 /\ MaxEntry("FAT16") = 65524
  /\ MaxEntry("FAT32") = 268435446
  /\ EndMark("FAT12") = 4095 /\ EndMark("FAT16") = 65535
  /\ EndMark("FAT32") = 268435455
<1>1. MaxCluster("FAT12") = 4084
  BY SMT DEF MaxCluster
<1>2. MaxCluster("FAT16") = 65524
  BY SMT DEF MaxCluster
<1>3. MaxCluster("FAT32") = 268435446
  BY SMT DEF MaxCluster
<1>4. EndMark("FAT12") = 4095
  BY SMT DEF EndMark
<1>5. EndMark("FAT16") = 65535
  BY SMT DEF EndMark
<1>6. EndMark("FAT32") = 268435455
  BY SMT DEF EndMark
<1> QED BY <1>1, <1>2, <1>3, <1>4, <1>5, <1>6, SMT DEF MaxEntry

\* They are numbers, in order.
LEMMA LimitsOfTypes ==
  ASSUME NEW t \in Types
  PROVE  /\ MaxCluster(t) \in Nat /\ MaxEntry(t) \in Nat /\ EndMark(t) \in Nat
         /\ MaxCluster(t) <= MaxEntry(t)
<1>1. t \in {"FAT12", "FAT16", "FAT32"}
  BY FileConstants DEF FatType
<1> QED BY <1>1, Limits, SMT

\* The entries fit in the bits of the type.
LEMMA EntriesFitType ==
  ASSUME type \in Types, ChainOK
  PROVE  /\ type = "FAT12" => Entries \in [Nat -> Entry12Value]
         /\ type = "FAT16" => Entries \in [Nat -> Entry16Value]
         /\ type = "FAT32" => Entries \in [Nat -> Entry32Value]
         /\ \A k \in 1 .. Len(chain) :
              Entries[chain[k]] = IF k = Len(chain) THEN EndMark(type) ELSE chain[k + 1]
<1> DEFINE After(k) == IF k = Len(chain) THEN EndMark(type) ELSE chain[k + 1]
           Held(c) == \E k \in DOMAIN chain : chain[k] = c
           Place(c) == CHOOSE k \in DOMAIN chain : chain[k] = c
<1>1. Entries = [c \in Nat |-> IF Held(c) THEN After(Place(c)) ELSE 0]
  BY DEF Entries
<1>2. DOMAIN chain = 1 .. Len(chain) /\ Len(chain) \in Nat
  BY LenProperties DEF ChainOK
<1>3. ASSUME NEW k \in 1 .. Len(chain)
      PROVE  chain[k] \in Nat /\ Held(chain[k]) /\ Place(chain[k]) = k
  BY <1>2 DEF ChainOK
<1>4. ASSUME NEW c \in Nat
      PROVE  Entries[c] = 0 \/ \E k \in 1 .. Len(chain) : Entries[c] = After(k)
  BY <1>1, <1>2
<1>5. \A k \in 1 .. Len(chain) : After(k) = EndMark(type) \/ (After(k) \in Nat /\ After(k) <= MaxCluster(type))
  <2> SUFFICES ASSUME NEW k \in 1 .. Len(chain), k # Len(chain)
               PROVE  After(k) \in Nat /\ After(k) <= MaxCluster(type)
    OBVIOUS
  <2>1. k + 1 \in 1 .. Len(chain)
    <3>1. Len(chain) \in Nat
      BY <1>2
    <3> QED BY <3>1, SMT
  <2> QED BY <1>3, <2>1 DEF ChainOK
<1>6. \A k \in 1 .. Len(chain) : Entries[chain[k]] = After(k)
  BY <1>1, <1>3
<1> HIDE DEF After, Held, Place
<1>7. \A c \in Nat : Entries[c] = 0 \/ Entries[c] = EndMark(type)
                       \/ (Entries[c] \in Nat /\ Entries[c] <= MaxCluster(type))
  BY <1>4, <1>5
<1>8. Entries = [c \in Nat |-> Entries[c]]
  BY <1>1
<1>9. ASSUME type = "FAT12" PROVE Entries \in [Nat -> Entry12Value]
  <2>1. MaxCluster(type) = 4084 /\ EndMark(type) = 4095
    BY <1>9, Limits
  <2>2. ASSUME NEW c \in Nat PROVE Entries[c] \in Entry12Value
    <3> DEFINE e == Entries[c]
    <3>1. e = 0 \/ e = 4095 \/ (e \in Nat /\ e <= 4084)
      BY <1>7, <2>1
    <3> HIDE DEF e
    <3>2. e \in Nat /\ e < 4096
      BY <3>1, SMT
    <3> QED BY <3>2 DEF Entry12Value, e
  <2> QED BY <1>8, <2>2
<1>10. ASSUME type = "FAT16" PROVE Entries \in [Nat -> Entry16Value]
  <2>1. MaxCluster(type) = 65524 /\ EndMark(type) = 65535
    BY <1>10, Limits
  <2>2. ASSUME NEW c \in Nat PROVE Entries[c] \in Entry16Value
    BY <1>7, <2>1, SMT DEF Entry16Value
  <2> QED BY <1>8, <2>2
<1>11. ASSUME type = "FAT32" PROVE Entries \in [Nat -> Entry32Value]
  <2>1. MaxCluster(type) = 268435446 /\ EndMark(type) = 268435455
    BY <1>11, Limits
  <2>2. ASSUME NEW c \in Nat PROVE Entries[c] \in Entry32Value
    BY <1>7, <2>1, SMT DEF Entry32Value
  <2> QED BY <1>8, <2>2
<1> QED BY <1>6, <1>9, <1>10, <1>11 DEF After

\* The entry get_next_cluster reads is the one in the chain.
LEMMA EntryFound ==
  ASSUME type \in Types, ChainOK, NEW c \in Nat, InFat(type, c)
  PROVE  FatEntry(type, Fat, FatSectorSize, c) = Entries[c]
<1>1. type \in {"FAT12", "FAT16", "FAT32"}
  BY FileConstants DEF FatType
<1>2. CASE type = "FAT12"
  <2>1. c + c \div 2 + 1 < FatSectors * FatSectorSize
    BY <1>2, SMT DEF InFat
  <2> QED BY <1>2, <2>1, EntriesFitType, Fat12EntryRead, FileConstants, SMTT(30) DEF Fat
<1>3. CASE type = "FAT16"
  <2> DEFINE n == FatSectorSize \div 2
  <2>1. c < FatSectors * n
    BY <1>3, SMT DEF InFat
  <2>2. n \in Nat /\ n > 0 /\ FatSectorSize = 2 * n
    BY FileConstants, SMT
  <2> HIDE DEF n
  <2>3. FatEntry("FAT16", FatOf("FAT16", Entries, 2 * n, FatSectors), 2 * n, c) = Entries[c]
    BY <1>3, <2>1, <2>2, EntriesFitType, Fat16EntryRead, FileConstants, SMTT(30)
  <2> QED BY <1>3, <2>2, <2>3 DEF Fat
<1>4. CASE type = "FAT32"
  <2> DEFINE n == FatSectorSize \div 4
  <2>1. c < FatSectors * n
    BY <1>4, SMT DEF InFat
  <2>2. n \in Nat /\ n > 0 /\ FatSectorSize = 4 * n
    BY FileConstants, SMT
  <2> HIDE DEF n
  <2>3. FatEntry("FAT32", FatOf("FAT32", Entries, 4 * n, FatSectors), 4 * n, c) = Entries[c]
    BY <1>4, <2>1, <2>2, EntriesFitType, Fat32EntryRead, FileConstants
  <2> QED BY <1>4, <2>2, <2>3 DEF Fat
<1> QED BY <1>1, <1>2, <1>3, <1>4

\* A hop from a cluster of the file, other than the last, is to the next one.
LEMMA HopFollows ==
  ASSUME type \in Types, ChainOK, NEW k \in 1 .. Len(chain)
  PROVE  /\ Table[chain[k]] = IF k = Len(chain) THEN EndMark(type) ELSE chain[k + 1]
         /\ Hop(type, Table, chain[k]).cluster = Table[chain[k]]
         /\ Table[chain[k]] \in Nat
<1>1. /\ chain[k] \in Nat /\ chain[k] \in Clusters /\ chain[k] <= MaxCluster(type)
      /\ InFat(type, chain[k])
  BY DEF ChainOK
<1>2. Table[chain[k]] = Entries[chain[k]]
  BY <1>1, EntryFound DEF Table
<1>3. Table[chain[k]] = IF k = Len(chain) THEN EndMark(type) ELSE chain[k + 1]
  BY <1>2, EntriesFitType
<1>4. Hop(type, Table, chain[k]).cluster = Table[chain[k]]
  <2>1. ~(chain[k] > MaxCluster(type))
    BY <1>1, LimitsOfTypes, SMT
  <2> QED BY <2>1 DEF Hop
<1>5. Table[chain[k]] \in Nat
  <2>1. k # Len(chain) => k + 1 \in 1 .. Len(chain)
    BY LenProperties DEF ChainOK
  <2> QED BY <1>3, <2>1, LimitsOfTypes DEF ChainOK
<1> QED BY <1>3, <1>4, <1>5

\* The walk from the file's first cluster to the one of the cursor arrives.
LEMMA WalkArrives ==
  ASSUME type \in Types, ChainOK, size \in Nat, cursor \in Nat, cursor < size
  PROVE  FirstCluster = chain[cursor \div ClusterSize + 1]
<1> DEFINE num == cursor \div ClusterSize
<1>1. num \in Nat /\ num < Len(chain)
  <2>1. Len(chain) = ClusterCount(size)
    BY DEF ChainOK
  <2>2. num \in Nat
    BY FileConstants, Positions
  <2> QED BY <2>1, <2>2, ClustersBegun
<1> HIDE DEF num
<1>2. ASSUME NEW k \in 1 .. num
      PROVE  /\ chain[k] <= MaxCluster(type) /\ Table[chain[k]] = chain[k + 1]
             /\ chain[k + 1] <= MaxEntry(type)
  <2>1. k \in 1 .. Len(chain) /\ k + 1 \in 1 .. Len(chain) /\ k # Len(chain)
    BY <1>1, LenProperties DEF ChainOK
  <2>2. chain[k] <= MaxCluster(type) /\ chain[k + 1] <= MaxCluster(type) /\ chain[k + 1] \in Nat
    BY <2>1 DEF ChainOK
  <2>3. Table[chain[k]] = chain[k + 1]
    BY <2>1, HopFollows
  <2> QED BY <2>2, <2>3, LimitsOfTypes
<1>3. GetNextCluster(type, Table, chain[1], num) = [ret |-> 0, cluster |-> chain[num + 1]]
  <2>1. chain \in Seq(Nat)
    BY DEF ChainOK
  <2> QED BY <1>1, <1>2, <2>1, WalkFollows, LimitsOfTypes
<1> QED BY <1>3 DEF FirstCluster, HeadCluster, num

-----------------------------------------------------------------------------
\* The bytes of a file.

Byte == Nat \X Nat

\* The content of a file is a sequence.
LEMMA ContentIsSeq ==
  ASSUME ChainOK, size \in Nat
  PROVE  /\ Content \in Seq(Byte) /\ Len(Content) = size
         /\ \A p \in 1 .. size :
              Content[p] = <<chain[(p - 1) \div ClusterSize + 1], (p - 1) % ClusterSize>>
<1> DEFINE at(p) == <<chain[(p - 1) \div ClusterSize + 1], (p - 1) % ClusterSize>>
<1>1. ASSUME NEW p \in 1 .. size PROVE at(p) \in Byte
  <2>1. p - 1 \in Nat /\ p - 1 < size
    OBVIOUS
  <2>2. (p - 1) \div ClusterSize \in Nat /\ (p - 1) % ClusterSize \in Nat
    BY <2>1, FileConstants, Positions
  <2>3. (p - 1) \div ClusterSize < Len(chain)
    BY <2>1, ClustersBegun DEF ChainOK
  <2> DEFINE q == (p - 1) \div ClusterSize
  <2>4. q + 1 \in 1 .. Len(chain)
    <3>1. Len(chain) \in Nat
      BY LenProperties DEF ChainOK
    <3> HIDE DEF q
    <3> QED BY <2>2, <2>3, <3>1, SMT DEF q
  <2>5. chain[q + 1] \in Nat
    BY <2>4 DEF ChainOK
  <2> QED BY <2>2, <2>5 DEF Byte
<1>2. Content = [p \in 1 .. size |-> at(p)]
  BY DEF Content
<1> HIDE DEF at
<1>3. Content \in [1 .. size -> Byte]
  BY <1>1, <1>2
<1>4. Content \in Seq(Byte)
  BY <1>3, SeqDef
<1>5. Len(Content) = size
  <2>1. DOMAIN Content = 1 .. size /\ DOMAIN Content = 1 .. Len(Content) /\ Len(Content) \in Nat
    BY <1>3, <1>4, LenProperties
  <2> QED BY <2>1, SMT
<1> QED BY <1>2, <1>4, <1>5 DEF at

\* A piece of a cluster is a piece of the file.
LEMMA PieceOfFile ==
  ASSUME ChainOK, size \in Nat, cursor \in Nat, NEW n \in Nat, cursor + n <= size,
         call.offs = cursor % ClusterSize, call.offs + n <= ClusterSize,
         n > 0 => call.cluster = chain[cursor \div ClusterSize + 1]
  PROVE  /\ Piece(n) \in Seq(Byte) /\ Len(Piece(n)) = n
         /\ \A k \in 1 .. n : Piece(n)[k] = Content[cursor + k]
<1> DEFINE q == cursor \div ClusterSize
           r == cursor % ClusterSize
           c == ClusterSize
<1>1. /\ q \in Nat /\ r \in 0 .. c - 1 /\ cursor = q * c + r
      /\ c \in Nat /\ c > 0
  BY FileConstants, Positions
<1>2. Piece(n) = [k \in 1 .. n |-> <<call.cluster, r + k - 1>>]
  BY DEF Piece
<1> HIDE DEF q, r, c
<1>3. ASSUME NEW k \in 1 .. n PROVE Content[cursor + k] = <<call.cluster, r + k - 1>>
  <2>1. cursor + k \in 1 .. size /\ (cursor + k) - 1 \in Nat /\ r + k - 1 \in 0 .. c - 1 /\ n > 0
    BY <1>1, SMT DEF r, c
  <2>2. (cursor + k) - 1 = q * c + (r + k - 1)
    <3> DEFINE x == q * c
    <3>1. cursor = x + r /\ x \in Nat
      BY <1>1, SMT
    <3> HIDE DEF x
    <3>2. (cursor + k) - 1 = x + (r + k - 1)
      BY <1>1, <3>1, SMT
    <3> QED BY <3>2 DEF x
  <2>3. ((cursor + k) - 1) \div c = q /\ ((cursor + k) - 1) % c = r + k - 1
    BY <1>1, <2>1, <2>2, Position
  <2>4. Content[cursor + k] = <<chain[q + 1], r + k - 1>>
    BY <2>1, <2>3, ContentIsSeq DEF c
  <2> QED BY <2>1, <2>4 DEF q
<1>4. ASSUME NEW k \in 1 .. n PROVE <<call.cluster, r + k - 1>> \in Byte
  <2>1. cursor + k \in 1 .. Len(Content)
    BY ContentIsSeq, SMT
  <2> QED BY <1>3, <2>1, ContentIsSeq, ElementOfSeq
<1>5. Piece(n) \in [1 .. n -> Byte]
  BY <1>2, <1>4
<1>6. Piece(n) \in Seq(Byte)
  BY <1>5, SeqDef
<1>7. Len(Piece(n)) = n
  <2>1. DOMAIN Piece(n) = 1 .. n /\ DOMAIN Piece(n) = 1 .. Len(Piece(n)) /\ Len(Piece(n)) \in Nat
    BY <1>5, <1>6, LenProperties
  <2> QED BY <2>1, SMT
<1> QED BY <1>2, <1>3, <1>6, <1>7

-----------------------------------------------------------------------------
\* The invariant.  What a read has delivered are the bytes from where it began
\* to the cursor: whole blocks, and in the copy loop done bytes of the next.

Began == cursor - Len(call.data)

Calls == [size : Nat, count : Nat, blkcnt : Nat, cluster : Nat, offs : Nat, done : Nat,
          data : Seq(Byte), at : {"idle", "block", "copy"}]

VolumeOK == type \in Types /\ size \in 0 .. MaxSize /\ mounted \in BOOLEAN /\ ChainOK

InCall ==
  /\ call.size \in Sizes /\ call.count \in Counts /\ call.blkcnt <= call.count
  /\ Began \in Nat /\ Began < size
  /\ \A k \in 1 .. Len(call.data) : call.data[k] = Content[Began + k]
  /\ cursor < size => call.cluster = chain[cursor \div ClusterSize + 1]

InBlock == Len(call.data) = call.blkcnt * call.size

InCopy ==
  /\ Len(call.data) = call.blkcnt * call.size + call.done
  /\ call.blkcnt < call.count /\ call.done <= call.size
  /\ call.offs = cursor % ClusterSize
  /\ cursor - call.done + call.size <= size

FileInv ==
  /\ VolumeOK
  /\ cursor \in 0 .. size
  /\ call \in Calls
  /\ call.at = "idle" => call = NoCall
  /\ call.at # "idle" => InCall
  /\ call.at = "block" => InBlock /\ call.done <= call.size /\ call.offs < ClusterSize
  /\ call.at = "copy" => InCopy

\* The invariant includes the types.
LEMMA InvGivesTypeOK == FileInv => TypeOK
<1> SUFFICES ASSUME FileInv PROVE TypeOK
  OBVIOUS
<1>1. call.at \in {"idle", "block", "copy"} /\ call.blkcnt \in Nat /\ call.count \in Nat
      /\ call.done \in Nat /\ call.size \in Nat /\ call.offs \in Nat
  BY DEF FileInv, Calls
<1>2. call.blkcnt <= call.count /\ call.done <= call.size /\ call.offs < ClusterSize
  <2>1. CASE call.at = "idle"
    BY <2>1, FileConstants DEF FileInv, NoCall
  <2>2. CASE call.at = "block"
    BY <2>2 DEF FileInv, InCall
  <2>3. CASE call.at = "copy"
    <3>1. cursor \in Nat
      BY DEF FileInv, VolumeOK
    <3>2. cursor % ClusterSize < ClusterSize
      BY <3>1, FileConstants, Positions
    <3> QED BY <2>3, <3>2 DEF FileInv, InCall, InCopy
  <2> QED BY <1>1, <2>1, <2>2, <2>3
<1>3. call.blkcnt \in 0 .. call.count /\ call.done \in 0 .. call.size
      /\ call.offs \in 0 .. ClusterSize - 1
  BY <1>1, <1>2, FileConstants
<1> QED BY <1>1, <1>3 DEF FileInv, VolumeOK, TypeOK

-----------------------------------------------------------------------------
\* The steps keep the invariant.

\* What stays with the volume.
LEMMA VolumeStays ==
  ASSUME VolumeOK, UNCHANGED volume
  PROVE  ChainOK' /\ Content' = Content /\ type' = type /\ chain' = chain /\ size' = size
<1>1. type' = type /\ chain' = chain /\ size' = size
  BY DEF volume
<1> QED BY <1>1 DEF VolumeOK, ChainOK, Content

\* A call of one step keeps the invariant.
LEMMA NoCallKeeps ==
  ASSUME FileInv, UNCHANGED volume, call' = NoCall, mounted' \in BOOLEAN, cursor' \in 0 .. size
  PROVE  FileInv'
<1>1. VolumeOK'
  BY VolumeStays DEF FileInv, VolumeOK
<1>2. NoCall \in Calls
  <2>1. << >> \in Seq(Byte)
    BY EmptySeq
  <2> QED BY <2>1 DEF NoCall, Calls
<1>3. call'.at = "idle"
  BY DEF NoCall
<1>4. cursor' \in 0 .. size'
  BY VolumeStays DEF FileInv
<1> QED BY <1>1, <1>2, <1>3, <1>4 DEF FileInv, NoCall

\* Initially the cursor is at the beginning.
LEMMA InitInv == Init => FileInv
<1> SUFFICES ASSUME Init PROVE FileInv
  OBVIOUS
<1>1. PICK full \in Chains : chain = SubSeq(full, 1, ClusterCount(size))
  BY DEF Init
<1>2. type \in Types /\ size \in Nat /\ size <= MaxSize /\ mounted \in BOOLEAN /\ cursor = 0 /\ call = NoCall
  BY FileConstants DEF Init
<1>3. /\ full \in Seq(Nat) /\ Len(full) * ClusterSize >= MaxSize
      /\ \A j, k \in 1 .. Len(full) : full[j] = full[k] => j = k
      /\ \A k \in 1 .. Len(full) : full[k] <= MaxCluster(type) /\ InFat(type, full[k])
  BY <1>2, ChainsAssumption
<1>4. Len(full) \in Nat /\ DOMAIN full = 1 .. Len(full)
  BY <1>3, LenProperties
<1> DEFINE n == ClusterCount(size)
<1>5. n \in Nat /\ n <= Len(full)
  <2> DEFINE x == Len(full) * ClusterSize
  <2>1. x \in Nat
    BY <1>4, FileConstants, ProductGrows
  <2>2. x >= MaxSize
    BY <1>3
  <2>3. size <= x
    <3> HIDE DEF x
    <3> QED BY <1>2, <2>1, <2>2, FileConstants, SMT
  <2> QED BY <1>2, <1>4, <2>3, ClustersBegun
<1> HIDE DEF n
<1>6. \A i \in 1 .. n : full[i] \in Nat
  BY <1>3, <1>4, <1>5, ElementOfSeq
<1>7. /\ chain \in Seq(Nat) /\ Len(chain) = n
      /\ \A k \in 1 .. n : chain[k] = full[k]
  <2>1. /\ SubSeq(full, 1, n) \in Seq(Nat)
        /\ Len(SubSeq(full, 1, n)) = IF 1 <= n THEN n - 1 + 1 ELSE 0
        /\ \A i \in 1 .. n - 1 + 1 : SubSeq(full, 1, n)[i] = full[1 + i - 1]
    <3>1. 1 \in Int /\ n \in Int
      BY <1>5
    <3> QED BY <1>6, <3>1, SubSeqProperties
  <2>2. n - 1 + 1 = n /\ \A i \in 1 .. n : 1 + i - 1 = i
    BY <1>5, SMT
  <2>3. (IF 1 <= n THEN n - 1 + 1 ELSE 0) = n
    BY <1>5, SMT
  <2>4. chain = SubSeq(full, 1, n)
    BY <1>1 DEF n
  <2> QED BY <2>1, <2>2, <2>3, <2>4
<1>8. ChainOK
  <2>1. \A k \in 1 .. n : k \in 1 .. Len(full)
    BY <1>4, <1>5
  <2>2. \A k \in 1 .. n : full[k] \in Clusters
    BY <1>4, <2>1 DEF Clusters
  <2>3. \A j, k \in 1 .. n : chain[j] = chain[k] => j = k
    BY <1>3, <1>7, <2>1
  <2>4. \A k \in 1 .. n : chain[k] \in Clusters /\ chain[k] <= MaxCluster(type) /\ InFat(type, chain[k])
    BY <1>3, <1>7, <2>1, <2>2
  <2> QED BY <1>7, <2>3, <2>4 DEF ChainOK, n
<1>9. NoCall \in Calls
  <2>1. << >> \in Seq(Byte)
    BY EmptySeq
  <2> QED BY <2>1 DEF NoCall, Calls
<1>10. VolumeOK
  BY <1>2, <1>8, FileConstants DEF VolumeOK
<1> QED BY <1>2, <1>9, <1>10 DEF FileInv, NoCall

\* file_read begins with nothing delivered.
LEMMA ReadStartKeeps ==
  ASSUME FileInv, NEW bytes \in Sizes, NEW count \in Counts, ReadStart(bytes, count)
  PROVE  FileInv'
<1>1. /\ cursor < size /\ UNCHANGED volume /\ mounted' = mounted /\ cursor' = cursor
      /\ call' = [NoCall EXCEPT !.size = bytes, !.count = count,
                                !.cluster = FirstCluster, !.at = "block"]
  BY DEF ReadStart
<1>2. /\ call'.size = bytes /\ call'.count = count /\ call'.blkcnt = 0 /\ call'.offs = 0
      /\ call'.cluster = FirstCluster /\ call'.done = 0 /\ call'.data = << >>
      /\ call'.at = "block"
  BY <1>1 DEF NoCall
<1>3. cursor \in Nat /\ size \in Nat
  BY FileConstants DEF FileInv, VolumeOK
<1>4. bytes \in Nat /\ count \in Nat
  BY FileConstants
<1>5. FirstCluster = chain[cursor \div ClusterSize + 1]
  BY <1>1, <1>3, WalkArrives DEF FileInv, VolumeOK
<1>6. FirstCluster \in Nat
  <2>1. cursor \div ClusterSize + 1 \in 1 .. Len(chain)
    <3> DEFINE q == cursor \div ClusterSize
    <3>1. q \in Nat /\ q < ClusterCount(size) /\ ClusterCount(size) \in Nat
      BY <1>1, <1>3, ClustersBegun, FileConstants, Positions
    <3>2. Len(chain) = ClusterCount(size)
      BY DEF FileInv, VolumeOK, ChainOK
    <3> HIDE DEF q
    <3> QED BY <3>1, <3>2, SMT DEF q
  <2> QED BY <1>5, <2>1 DEF FileInv, VolumeOK, ChainOK
<1>7. << >> \in Seq(Byte) /\ Len(<< >>) = 0
  BY EmptySeq
<1>8. call' \in Calls
  BY <1>1, <1>4, <1>6, <1>7 DEF NoCall, Calls
<1>9. VolumeOK' /\ cursor' \in 0 .. size'
  BY <1>1, VolumeStays DEF FileInv, VolumeOK
<1>10. Began' = cursor
  BY <1>1, <1>2, <1>3, <1>7 DEF Began
<1>11. InCall'
  BY <1>1, <1>2, <1>3, <1>4, <1>5, <1>7, <1>10, VolumeStays DEF InCall, FileInv
<1>12. InBlock'
  <2>1. 0 * bytes = 0
    BY <1>4, SMT
  <2> QED BY <1>2, <1>7, <2>1 DEF InBlock
<1>13. call'.done <= call'.size /\ call'.offs < ClusterSize
  BY <1>2, <1>4, FileConstants
<1> QED BY <1>2, <1>8, <1>9, <1>11, <1>12, <1>13 DEF FileInv

\* The head of the outer loop finds the cluster of the cursor.
LEMMA ReadBlockKeeps == ASSUME FileInv, ReadBlock PROVE FileInv'
<1>1. /\ call.at = "block" /\ call.blkcnt < call.count /\ cursor + call.size <= size
      /\ UNCHANGED volume /\ mounted' = mounted /\ cursor' = cursor
      /\ call' = [call EXCEPT !.offs = cursor % ClusterSize, !.done = 0, !.at = "copy"]
  BY DEF ReadBlock
<1>2. call \in Calls /\ InCall /\ InBlock /\ VolumeOK
  BY <1>1 DEF FileInv
<1>3. /\ call'.size = call.size /\ call'.count = call.count /\ call'.blkcnt = call.blkcnt
      /\ call'.cluster = call.cluster /\ call'.data = call.data
      /\ call'.offs = cursor % ClusterSize /\ call'.done = 0 /\ call'.at = "copy"
  BY <1>1, <1>2 DEF Calls
<1>4. cursor \in Nat /\ size \in Nat /\ call.size \in Nat /\ call.blkcnt \in Nat /\ call.count \in Nat
  BY <1>2, FileConstants DEF FileInv, VolumeOK, Calls
<1>5. cursor % ClusterSize \in Nat
  BY <1>4, FileConstants, Positions
<1>6. call' \in Calls
  BY <1>1, <1>2, <1>5 DEF Calls
<1>7. VolumeOK' /\ cursor' \in 0 .. size'
  BY <1>1, VolumeStays DEF FileInv, VolumeOK
<1>8. Began' = Began
  BY <1>1, <1>3 DEF Began
<1>9. InCall'
  BY <1>1, <1>2, <1>3, <1>8, VolumeStays DEF InCall
<1>10. InCopy'
  <2>1. Len(call'.data) = call'.blkcnt * call'.size
    BY <1>2, <1>3 DEF InBlock
  <2>2. call'.blkcnt * call'.size \in Nat
    BY <1>3, <1>4, ProductGrows
  <2>3. Len(call'.data) = call'.blkcnt * call'.size + call'.done
    <3> DEFINE x == call'.blkcnt * call'.size
    <3>1. Len(call'.data) = x /\ x \in Nat /\ call'.done = 0
      BY <1>3, <2>1, <2>2
    <3> HIDE DEF x
    <3>2. Len(call'.data) = x + call'.done
      BY <3>1
    <3> QED BY <3>2 DEF x
  <2>4. cursor' - call'.done + call'.size <= size'
    BY <1>1, <1>2, <1>3, <1>4, VolumeStays
  <2> QED BY <1>1, <1>3, <1>4, <2>3, <2>4 DEF InCopy
<1> QED BY <1>3, <1>6, <1>7, <1>9, <1>10 DEF FileInv

\* n more bytes of the block, from the cluster of the cursor.
LEMMA Delivers ==
  ASSUME FileInv, call.at = "copy", NEW n \in Nat, n <= call.size - call.done,
         call.offs + n <= ClusterSize, UNCHANGED volume, cursor' = cursor + n,
         call'.data = call.data \o Piece(n)
  PROVE  /\ cursor' \in 0 .. size
         /\ call'.data \in Seq(Byte) /\ Len(call'.data) = Len(call.data) + n
         /\ Began' = Began /\ Len(call.data) \in Nat
         /\ \A k \in 1 .. Len(call'.data) : call'.data[k] = Content'[Began' + k]
<1>1. call \in Calls /\ InCall /\ InCopy /\ VolumeOK /\ cursor \in 0 .. size
  BY DEF FileInv
<1>2. /\ size \in Nat /\ cursor \in Nat /\ cursor <= size
      /\ call.size \in Nat /\ call.done \in Nat /\ call.offs \in Nat
      /\ call.data \in Seq(Byte)
  BY <1>1, FileConstants DEF VolumeOK, Calls
<1>3. cursor - call.done + call.size <= size /\ call.offs = cursor % ClusterSize
  BY <1>1 DEF InCopy
<1>4. cursor + n <= size
  BY <1>2, <1>3, SMT
<1>5. n > 0 => cursor < size
  BY <1>2, <1>4, SMT
<1>6. n > 0 => call.cluster = chain[cursor \div ClusterSize + 1]
  BY <1>1, <1>5 DEF InCall
<1>7. /\ Piece(n) \in Seq(Byte) /\ Len(Piece(n)) = n
      /\ \A k \in 1 .. n : Piece(n)[k] = Content[cursor + k]
  BY <1>1, <1>2, <1>3, <1>4, <1>6, PieceOfFile DEF VolumeOK
<1> DEFINE m == Len(call.data)
<1>8. m \in Nat
  BY <1>2, LenProperties
<1>9. /\ call'.data \in Seq(Byte) /\ Len(call'.data) = m + n
      /\ \A k \in 1 .. m + n : call'.data[k] = IF k <= m THEN call.data[k] ELSE Piece(n)[k - m]
  <2> DEFINE d == call.data
             p == Piece(n)
  <2>1. d \in Seq(Byte) /\ p \in Seq(Byte) /\ Len(p) = n /\ call'.data = d \o p /\ m = Len(d)
    BY <1>2, <1>7
  <2> HIDE DEF d, p
  <2>2. /\ d \o p \in Seq(Byte) /\ Len(d \o p) = Len(d) + Len(p)
        /\ \A k \in 1 .. Len(d) + Len(p) : (d \o p)[k] = IF k <= Len(d) THEN d[k] ELSE p[k - Len(d)]
    BY <2>1, ConcatProperties, ZenonT(60)
  <2> QED BY <2>1, <2>2 DEF d, p
<1>10. Began = cursor - m /\ Began' = cursor' - (m + n)
  BY <1>9 DEF Began
<1> HIDE DEF m
<1>11. Began' = Began
  BY <1>2, <1>8, <1>10, SMT
<1>12. ASSUME NEW k \in 1 .. m + n PROVE call'.data[k] = Content[Began + k]
  <2>1. CASE k <= m
    <3>1. k \in 1 .. m
      BY <1>8, <2>1, SMT
    <3> QED BY <1>1, <1>9, <2>1, <3>1 DEF InCall, m
  <2>2. CASE ~(k <= m)
    <3>1. k - m \in 1 .. n /\ cursor + (k - m) = Began + k
      BY <1>2, <1>8, <1>10, <2>2, SMT
    <3>2. call'.data[k] = Content[cursor + (k - m)]
      BY <1>7, <1>9, <2>2, <3>1
    <3> QED BY <3>1, <3>2
  <2> QED BY <2>1, <2>2
<1>13. cursor' \in 0 .. size
  BY <1>2, <1>4, SMT
<1> QED BY <1>1, <1>8, <1>9, <1>11, <1>12, <1>13, VolumeStays DEF m

\* In the copy loop the numbers of 16 bits are the true ones.
LEMMA ReadSizes ==
  ASSUME NarrowSizes, FileInv, call.at = "copy"
  PROVE  /\ ClusterMaxRead = ClusterSize - call.offs /\ BlockMaxRead = call.size - call.done
         /\ ClusterMaxRead \in Nat /\ ClusterMaxRead > 0 /\ BlockMaxRead \in Nat
         /\ call.offs \in Nat /\ call.size \in Nat /\ call.done \in Nat /\ cursor \in Nat
         /\ size \in Nat
<1>1. call \in Calls /\ InCall /\ InCopy /\ cursor \in Nat /\ size \in Nat
  BY FileConstants DEF FileInv, VolumeOK
<1>2. call.offs \in Nat /\ call.size \in Nat /\ call.done \in Nat /\ call.done <= call.size
  BY <1>1 DEF Calls, InCopy
<1>3. call.offs < ClusterSize
  <2>1. call.offs = cursor % ClusterSize
    BY <1>1 DEF InCopy
  <2> QED BY <1>1, <2>1, FileConstants, Positions
<1>4. call.size < Word
  BY <1>1 DEF InCall, NarrowSizes
<1>5. ASSUME NEW n \in Nat, n < Word PROVE n % Word = n
  BY <1>5, FileConstants, SMT
<1>6. ClusterSize - call.offs \in Nat /\ ClusterSize - call.offs < Word
  BY <1>2, <1>3, FileConstants, SMT DEF NarrowSizes
<1>7. call.size - call.done \in Nat /\ call.size - call.done < Word
  BY <1>2, <1>4, FileConstants, SMT
<1>8. ClusterMaxRead = ClusterSize - call.offs
  BY <1>5, <1>6 DEF ClusterMaxRead
<1>9. BlockMaxRead = call.size - call.done
  BY <1>5, <1>7 DEF BlockMaxRead
<1>10. ClusterSize - call.offs > 0
  BY <1>2, <1>3, FileConstants, SMT
<1> QED BY <1>1, <1>2, <1>6, <1>7, <1>8, <1>9, <1>10

\* The branch that ends in this cluster.
LEMMA CopyLastKeeps ==
  ASSUME NarrowSizes, FileInv, CopyLast
  PROVE  FileInv' /\ Began' = Began
<1> DEFINE n == BlockMaxRead
<1>1. /\ call.at = "copy" /\ ClusterMaxRead > n /\ UNCHANGED volume /\ mounted' = mounted
      /\ cursor' = cursor + n
      /\ call' = [call EXCEPT !.done = @ + n, !.blkcnt = @ + 1, !.at = "block",
                              !.data = @ \o Piece(n)]
  BY DEF CopyLast, EndsInside
<1>2. /\ ClusterMaxRead = ClusterSize - call.offs /\ n = call.size - call.done
      /\ ClusterMaxRead \in Nat /\ n \in Nat
      /\ call.offs \in Nat /\ call.size \in Nat /\ call.done \in Nat /\ cursor \in Nat /\ size \in Nat
  BY <1>1, ReadSizes
<1> HIDE DEF n
<1>3. call \in Calls /\ InCall /\ InCopy /\ VolumeOK
  BY <1>1 DEF FileInv
<1>4. /\ call'.size = call.size /\ call'.count = call.count /\ call'.blkcnt = call.blkcnt + 1
      /\ call'.cluster = call.cluster /\ call'.data = call.data \o Piece(n)
      /\ call'.offs = call.offs /\ call'.done = call.done + n /\ call'.at = "block"
  BY <1>1, <1>3 DEF Calls
<1>5. n <= call.size - call.done /\ call.offs + n <= ClusterSize /\ call.offs < ClusterSize
  BY <1>1, <1>2, FileConstants, SMT
<1>6. /\ cursor' \in 0 .. size
      /\ call'.data \in Seq(Byte) /\ Len(call'.data) = Len(call.data) + n
      /\ Began' = Began /\ Len(call.data) \in Nat
      /\ \A k \in 1 .. Len(call'.data) : call'.data[k] = Content'[Began' + k]
  BY <1>1, <1>2, <1>4, <1>5, Delivers
<1>7. call.blkcnt \in Nat /\ call.count \in Nat /\ call.blkcnt < call.count
  BY <1>3 DEF Calls, InCopy
<1>8. call' \in Calls
  <2>1. call.blkcnt + 1 \in Nat /\ call.done + n \in Nat
    BY <1>2, <1>7
  <2>2. call.data \o Piece(n) \in Seq(Byte)
    BY <1>4, <1>6
  <2> QED BY <1>1, <1>3, <2>1, <2>2 DEF Calls
<1>9. VolumeOK'
  BY <1>1, <1>3, VolumeStays DEF VolumeOK
<1>10. cursor' < size => call.cluster = chain[cursor' \div ClusterSize + 1]
  <2> SUFFICES ASSUME cursor' < size PROVE call.cluster = chain[cursor' \div ClusterSize + 1]
    OBVIOUS
  <2>1. cursor < size
    BY <1>1, <1>2, SMT
  <2>2. call.cluster = chain[cursor \div ClusterSize + 1] /\ call.offs = cursor % ClusterSize
    BY <1>3, <2>1 DEF InCall, InCopy
  <2> DEFINE q == cursor \div ClusterSize
  <2>3. q \in Nat /\ cursor = q * ClusterSize + call.offs
    BY <1>2, <2>2, FileConstants, Positions
  <2>4. call.offs + n \in 0 .. ClusterSize - 1
    BY <1>1, <1>2, FileConstants, SMT
  <2> HIDE DEF q
  <2>5. cursor' = q * ClusterSize + (call.offs + n) /\ cursor' \in Nat
    <3> DEFINE x == q * ClusterSize
    <3>1. x \in Nat /\ cursor = x + call.offs
      BY <2>3, FileConstants, ProductGrows
    <3> HIDE DEF x
    <3>2. cursor' = x + (call.offs + n) /\ cursor' \in Nat
      BY <1>1, <1>2, <3>1, SMT
    <3> QED BY <3>2 DEF x
  <2>6. cursor' \div ClusterSize = q
    BY <2>3, <2>4, <2>5, FileConstants, Position
  <2> QED BY <2>2, <2>6 DEF q
<1>11. InCall'
  <2>1. call'.blkcnt <= call'.count
    BY <1>4, <1>7
  <2>2. call'.size \in Sizes /\ call'.count \in Counts /\ Began \in Nat /\ Began < size
    BY <1>3, <1>4 DEF InCall
  <2> QED BY <1>1, <1>3, <1>4, <1>6, <1>10, <2>1, <2>2, VolumeStays DEF InCall
<1>12. InBlock'
  <2>1. Len(call.data) = call.blkcnt * call.size + call.done
    BY <1>3 DEF InCopy
  <2>2. (call.blkcnt + 1) * call.size = call.blkcnt * call.size + call.size
    BY <1>2, <1>7, SMT
  <2> DEFINE x == call.blkcnt * call.size
  <2>3. x \in Nat
    BY <1>2, <1>7, ProductGrows
  <2>4. Len(call'.data) = x + call.done + n /\ call'.blkcnt * call'.size = x + call.size
    BY <1>4, <1>6, <2>1, <2>2
  <2> HIDE DEF x
  <2>5. Len(call'.data) = x + call.size
    BY <1>2, <2>3, <2>4, SMT
  <2> QED BY <2>4, <2>5 DEF InBlock
<1>13. call'.done <= call'.size /\ call'.offs < ClusterSize
  BY <1>2, <1>4, <1>5
<1>14. cursor' \in 0 .. size'
  BY <1>1, <1>3, <1>6, VolumeStays
<1> QED BY <1>4, <1>6, <1>8, <1>9, <1>11, <1>12, <1>13, <1>14 DEF FileInv

\* The branch that goes on to the next cluster.
LEMMA CopyOnKeeps ==
  ASSUME NarrowSizes, FileInv, CopyOn
  PROVE  FileInv' /\ Began' = Began
<1> DEFINE n == ClusterMaxRead
           c == ClusterSize
           q == cursor \div c
<1>1. /\ call.at = "copy" /\ ~(n > BlockMaxRead) /\ UNCHANGED volume /\ mounted' = mounted
      /\ cursor' = cursor + n
      /\ call' = [call EXCEPT !.done = @ + n, !.offs = 0, !.cluster = Hop(type, Table, @).cluster,
                              !.data = @ \o Piece(n)]
  BY DEF CopyOn, EndsInside
<1>2. /\ n = c - call.offs /\ BlockMaxRead = call.size - call.done
      /\ n \in Nat /\ n > 0 /\ BlockMaxRead \in Nat
      /\ call.offs \in Nat /\ call.size \in Nat /\ call.done \in Nat /\ cursor \in Nat /\ size \in Nat
  BY <1>1, ReadSizes
<1> HIDE DEF n
<1>3. call \in Calls /\ InCall /\ InCopy /\ VolumeOK
  BY <1>1 DEF FileInv
<1>4. /\ call'.size = call.size /\ call'.count = call.count /\ call'.blkcnt = call.blkcnt
      /\ call'.cluster = Hop(type, Table, call.cluster).cluster
      /\ call'.data = call.data \o Piece(n)
      /\ call'.offs = 0 /\ call'.done = call.done + n /\ call'.at = "copy"
  BY <1>1, <1>3 DEF Calls
<1>5. n <= call.size - call.done /\ call.offs + n <= ClusterSize
  BY <1>1, <1>2, FileConstants, SMT
<1>6. /\ cursor' \in 0 .. size
      /\ call'.data \in Seq(Byte) /\ Len(call'.data) = Len(call.data) + n
      /\ Began' = Began /\ Len(call.data) \in Nat
      /\ \A k \in 1 .. Len(call'.data) : call'.data[k] = Content'[Began' + k]
  BY <1>1, <1>2, <1>4, <1>5, Delivers
<1>7. call.blkcnt \in Nat /\ call.count \in Nat /\ call.blkcnt < call.count
  BY <1>3 DEF Calls, InCopy
<1>8. cursor < size
  BY <1>1, <1>2, <1>6, SMT
<1>9. call.cluster = chain[q + 1] /\ call.offs = cursor % c
  BY <1>3, <1>8 DEF InCall, InCopy
<1>10. q \in Nat /\ cursor = q * c + call.offs /\ c \in Nat /\ c > 0
  BY <1>2, <1>9, FileConstants, Positions
<1>11. q < ClusterCount(size) /\ ClusterCount(size) \in Nat
  BY <1>2, <1>8, ClustersBegun
<1>12. Len(chain) = ClusterCount(size)
  BY <1>3 DEF VolumeOK, ChainOK
<1> HIDE DEF q, c
<1>13. q + 1 \in 1 .. Len(chain)
  BY <1>10, <1>11, <1>12
<1>14. /\ call'.cluster \in Nat
       /\ q + 1 # Len(chain) => call'.cluster = chain[q + 2]
  <2>1. q + 2 = (q + 1) + 1
    BY <1>10
  <2>2. /\ Table[chain[q + 1]] = IF q + 1 = Len(chain) THEN EndMark(type) ELSE chain[(q + 1) + 1]
        /\ Hop(type, Table, chain[q + 1]).cluster = Table[chain[q + 1]]
        /\ Table[chain[q + 1]] \in Nat
    BY <1>3, <1>13, HopFollows DEF VolumeOK
  <2> QED BY <1>4, <1>9, <2>1, <2>2
<1>15. call' \in Calls
  <2>1. call.done + n \in Nat
    BY <1>2
  <2>2. call.data \o Piece(n) \in Seq(Byte) /\ Hop(type, Table, call.cluster).cluster \in Nat
    BY <1>4, <1>6, <1>14
  <2> QED BY <1>1, <1>3, <2>1, <2>2 DEF Calls
<1>16. VolumeOK'
  BY <1>1, <1>3, VolumeStays DEF VolumeOK
<1>17. cursor' = (q + 1) * c + 0 /\ cursor' \in Nat
  <2>1. (q + 1) * c = q * c + c /\ q * c \in Nat
    BY <1>10, SMT
  <2> DEFINE x == q * c
  <2>2. x \in Nat /\ cursor = x + call.offs /\ (q + 1) * c = x + c
    BY <1>10, <2>1
  <2> HIDE DEF x
  <2>3. cursor' = x + c /\ cursor' \in Nat /\ x + c = (x + c) + 0
    BY <1>1, <1>2, <1>10, <2>2, SMT
  <2> QED BY <2>2, <2>3
<1>18. cursor' \div c = q + 1 /\ cursor' % c = 0
  <2>1. 0 \in 0 .. c - 1 /\ q + 1 \in Nat
    BY <1>10, SMT
  <2> QED BY <1>10, <1>17, <2>1, Position
<1>19. cursor' < size => call'.cluster = chain[cursor' \div ClusterSize + 1]
  <2> SUFFICES ASSUME cursor' < size PROVE call'.cluster = chain[cursor' \div ClusterSize + 1]
    OBVIOUS
  <2>1. cursor' \div ClusterSize < Len(chain)
    BY <1>2, <1>12, <1>17, ClustersBegun
  <2>2. q + 1 < Len(chain)
    BY <1>18, <2>1 DEF c
  <2>3. q + 1 # Len(chain) /\ (q + 1) + 1 = q + 2
    BY <1>10, <1>11, <1>12, <2>2, SMT
  <2> QED BY <1>14, <1>18, <2>3 DEF c
<1>20. InCall'
  <2>1. call'.blkcnt <= call'.count
    BY <1>4, <1>7
  <2>2. call'.size \in Sizes /\ call'.count \in Counts /\ Began \in Nat /\ Began < size
    BY <1>3, <1>4 DEF InCall
  <2> QED BY <1>1, <1>3, <1>6, <1>19, <2>1, <2>2, VolumeStays DEF InCall
<1>21. InCopy'
  <2>1. Len(call.data) = call.blkcnt * call.size + call.done /\ cursor - call.done + call.size <= size
    BY <1>3 DEF InCopy
  <2> DEFINE x == call.blkcnt * call.size
  <2>2. x \in Nat
    BY <1>2, <1>7, ProductGrows
  <2>3. Len(call'.data) = x + call.done + n /\ call'.blkcnt * call'.size = x
    BY <1>4, <1>6, <2>1
  <2> HIDE DEF x
  <2>4. x + call.done + n = x + (call.done + n)
    BY <1>2, <2>2, SMT
  <2>5. Len(call'.data) = call'.blkcnt * call'.size + call'.done
    BY <1>4, <2>3, <2>4
  <2>6. call'.done <= call'.size
    BY <1>2, <1>4, <1>5, SMT
  <2>7. cursor' - call'.done + call'.size <= size'
    <3>1. size' = size
      BY <1>1, <1>3, VolumeStays
    <3> QED BY <1>1, <1>2, <1>4, <2>1, <3>1, SMT
  <2>8. call'.offs = cursor' % ClusterSize
    BY <1>4, <1>18 DEF c
  <2> QED BY <1>4, <1>7, <2>5, <2>6, <2>7, <2>8 DEF InCopy
<1>22. cursor' \in 0 .. size'
  BY <1>1, <1>3, <1>6, VolumeStays
<1> QED BY <1>4, <1>6, <1>15, <1>16, <1>20, <1>21, <1>22 DEF FileInv

-----------------------------------------------------------------------------
\* The steps are steps of the stream, or leave it alone.

StreamCursor == IF Idle THEN cursor ELSE cursor - Len(call.data)

\* A seek of the file is a seek of the stream.
LEMMA SeekRefines ==
  ASSUME FileInv, NEW target \in Int, NEW allowed \in BOOLEAN, SeekTo(target, allowed),
         allowed <=> target \in 0 .. size
  PROVE  FileInv' /\ Stream!Seek(target)
<1>1. /\ Idle /\ UNCHANGED volume /\ mounted' = mounted /\ call' = call
      /\ IF allowed THEN cursor' = target /\ Return("seek", 0, << >>)
         ELSE Return("seek", 1, << >>) /\ UNCHANGED cursor
  BY DEF SeekTo
<1>2. call = NoCall /\ cursor \in 0 .. size /\ VolumeOK
  BY <1>1 DEF FileInv, Idle
<1>3. cursor' \in 0 .. size
  BY <1>1, <1>2
<1>4. FileInv'
  BY <1>1, <1>2, <1>3, NoCallKeeps DEF VolumeOK
<1>5. Len(Content) = size /\ Content' = Content
  BY <1>1, <1>2, ContentIsSeq, VolumeStays, FileConstants DEF VolumeOK
<1>6. Idle /\ Idle'
  BY <1>1 DEF Idle
<1> QED BY <1>1, <1>4, <1>5, <1>6 DEF Stream!Seek, Stream!End, Return

\* A seek that is refused moves neither.
LEMMA SeekRefusedRefines ==
  ASSUME FileInv, SeekTo(-1, FALSE)
  PROVE  FileInv' /\ Stream!Seek(-1)
<1> DEFINE target == -1
           allowed == FALSE
<1>1. size \in Nat
  BY FileConstants DEF FileInv, VolumeOK
<1>2. target \in Int /\ allowed \in BOOLEAN /\ SeekTo(target, allowed)
  <2>1. target \in Int
    BY SMT
  <2>2. SeekTo(target, allowed)
    BY Zenon
  <2> QED BY <2>1, <2>2
<1>3. allowed <=> target \in 0 .. size
  BY <1>1, SMT
<1> HIDE DEF target, allowed
<1>4. FileInv' /\ Stream!Seek(target)
  BY <1>2, <1>3, SeekRefines
<1> QED BY <1>4 DEF target

\* file_tell and file_iseof answer as the stream.
LEMMA AnswerRefines ==
  ASSUME FileInv, ReadUnmounted \/ ReadAtEnd \/ Tell \/ IsEof
  PROVE  FileInv' /\ Stream!Next
<1>1. Idle /\ UNCHANGED volume /\ mounted' = mounted /\ call' = call /\ cursor' = cursor
  BY DEF ReadUnmounted, ReadAtEnd, Tell, IsEof
<1>2. call = NoCall /\ cursor \in 0 .. size /\ VolumeOK
  BY <1>1 DEF FileInv, Idle
<1>3. FileInv'
  BY <1>1, <1>2, NoCallKeeps DEF VolumeOK
<1>4. Len(Content) = size /\ Content' = Content
  BY <1>1, <1>2, ContentIsSeq, VolumeStays, FileConstants DEF VolumeOK
<1>5. Idle /\ Idle'
  BY <1>1 DEF Idle
<1>6. CASE ReadUnmounted
  <2>1. Stream!ReadRefused
    BY <1>1, <1>4, <1>5, <1>6 DEF ReadUnmounted, Return, Stream!ReadRefused
  <2> QED BY <1>3, <2>1 DEF Stream!Next
<1>7. CASE ReadAtEnd
  <2>1. PICK n \in Sizes, m \in Counts : TRUE
    BY FileAssumption
  <2>2. Stream!Read(n, m)
    BY <1>1, <1>4, <1>5, <1>7 DEF ReadAtEnd, Return, Stream!Read, Stream!End
  <2> QED BY <1>3, <2>2 DEF Stream!Next
<1>8. CASE Tell
  <2>1. ~(cursor < 0 \/ cursor > size)
    BY <1>2, FileConstants, SMT DEF VolumeOK
  <2>2. Stream!Tell
    BY <1>1, <1>4, <1>5, <1>8, <2>1 DEF Tell, Return, Stream!Tell
  <2> QED BY <1>3, <2>2 DEF Stream!Next
<1>9. CASE IsEof
  <2>1. Stream!IsEof
    BY <1>1, <1>4, <1>5, <1>9 DEF IsEof, Return, Stream!IsEof, Stream!End
  <2> QED BY <1>3, <2>1 DEF Stream!Next
<1> QED BY <1>6, <1>7, <1>8, <1>9

\* A read that returns is a read of the stream.
LEMMA ReadDoneRefines ==
  ASSUME FileInv, ReadDone
  PROVE  FileInv' /\ Stream!Next
<1> DEFINE n == call.blkcnt
           b == call.size
<1>1. /\ call.at = "block" /\ (n = call.count \/ cursor + b > size)
      /\ Return("read", n, call.data) /\ call' = NoCall
      /\ UNCHANGED volume /\ mounted' = mounted /\ cursor' = cursor
  BY DEF ReadDone
<1>2. call \in Calls /\ InCall /\ InBlock /\ VolumeOK /\ cursor \in 0 .. size
  BY <1>1 DEF FileInv
<1>3. /\ n \in Nat /\ b \in Nat /\ call.count \in Nat /\ n <= call.count
      /\ call.data \in Seq(Byte) /\ size \in Nat /\ cursor \in Nat
      /\ Began \in Nat /\ Began < size /\ b \in Sizes /\ call.count \in Counts
  BY <1>2, FileConstants DEF VolumeOK, Calls, InCall
<1>4. FileInv'
  BY <1>1, <1>2, NoCallKeeps DEF VolumeOK
<1>5. Len(Content) = size /\ Content' = Content /\ Content \in Seq(Byte)
  BY <1>1, <1>2, <1>3, ContentIsSeq, VolumeStays DEF VolumeOK
<1>6. ~Idle /\ Idle'
  BY <1>1 DEF Idle, NoCall
<1>7. Len(call.data) = n * b /\ n * b \in Nat /\ cursor = Began + n * b
  <2> DEFINE x == n * b
  <2>1. Len(call.data) = x /\ x \in Nat /\ Began = cursor - Len(call.data)
    BY <1>2, <1>3, ProductGrows DEF InBlock, Began
  <2> HIDE DEF x
  <2>2. cursor = Began + x
    BY <1>3, <2>1, SMT
  <2> QED BY <2>1, <2>2 DEF x
<1> HIDE DEF n, b
<1> DEFINE Fit == {k \in 0 .. call.count : Began + k * b <= size}
<1>8. n \in Fit
  BY <1>2, <1>3, <1>7
<1>9. \A k \in Fit : n >= k
  <2> SUFFICES ASSUME NEW k \in 0 .. call.count, Began + k * b <= size, n + 1 <= k
               PROVE  FALSE
    BY <1>3
  <2>1. (n + 1) * b = n * b + b /\ (n + 1) * b <= k * b /\ k * b \in Nat
    <3>1. (n + 1) * b = n * b + b
      BY <1>3, SMT
    <3> QED BY <1>3, <3>1, ProductGrows
  <2>2. n # call.count
    BY <1>3
  <2>3. cursor + b > size
    BY <1>1, <2>2 DEF n, b
  <2> DEFINE x == n * b
             y == k * b
  <2>4. x \in Nat /\ y \in Nat /\ x + b <= y /\ cursor = Began + x /\ Began + y <= size
    BY <1>7, <2>1
  <2> HIDE DEF x, y
  <2> QED BY <1>3, <2>3, <2>4
<1>10. (CHOOSE k \in Fit : \A j \in Fit : k >= j) = n
  <2>1. \A k \in Fit : (\A j \in Fit : k >= j) => k = n
    BY <1>3, <1>8, <1>9
  <2> HIDE DEF Fit
  <2> QED BY <1>8, <1>9, <2>1
<1>11. StreamCursor = Began /\ StreamCursor' = cursor
  BY <1>1, <1>6 DEF StreamCursor, Began
<1>12. Stream!Blocks(b, call.count) = n
  BY <1>5, <1>10, <1>11 DEF Stream!Blocks, Stream!Max, Stream!End, StreamCursor
<1>13. call.data = SubSeq(Content, Began + 1, Began + n * b)
  <2> DEFINE x == n * b
             t == SubSeq(Content, Began + 1, Began + x)
  <2>1. x \in Nat /\ Len(call.data) = x /\ cursor = Began + x
    BY <1>7
  <2> HIDE DEF x
  <2>2. \A i \in (Began + 1) .. (Began + x) : Content[i] \in Byte
    <3>1. \A i \in (Began + 1) .. (Began + x) : i \in 1 .. Len(Content)
      BY <1>2, <1>3, <1>5, <2>1, SMT
    <3> QED BY <1>5, <3>1, ElementOfSeq
  <2>3. /\ t \in Seq(Byte)
        /\ Len(t) = IF Began + 1 <= Began + x THEN (Began + x) - (Began + 1) + 1 ELSE 0
        /\ \A i \in 1 .. (Began + x) - (Began + 1) + 1 : t[i] = Content[(Began + 1) + i - 1]
    <3>1. Began + 1 \in Int /\ Began + x \in Int
      BY <1>3, <2>1
    <3> QED BY <2>2, <3>1, SubSeqProperties
  <2> HIDE DEF t
  <2>4. (Began + x) - (Began + 1) + 1 = x /\ \A i \in 1 .. x : (Began + 1) + i - 1 = Began + i
    BY <1>3, <2>1, SMT
  <2>5. (IF Began + 1 <= Began + x THEN (Began + x) - (Began + 1) + 1 ELSE 0) = x
    BY <1>3, <2>1, SMT
  <2>6. Len(t) = x /\ \A i \in 1 .. x : t[i] = Content[Began + i]
    BY <2>3, <2>4, <2>5
  <2>7. \A i \in 1 .. x : call.data[i] = Content[Began + i]
    BY <1>2, <2>1 DEF InCall
  <2>8. call.data = t
    <3> DEFINE d == call.data
    <3>1. d \in Seq(Byte) /\ t \in Seq(Byte) /\ Len(d) = Len(t)
      BY <1>3, <2>1, <2>3, <2>6
    <3>2. \A i \in 1 .. Len(d) : d[i] = t[i]
      BY <2>1, <2>6, <2>7
    <3> HIDE DEF d
    <3>3. d = t
      BY <3>1, <3>2, SeqEqual
    <3> QED BY <3>3 DEF d
  <2> QED BY <2>8 DEF t, x
<1>14. Stream!Read(b, call.count)
  <2>1. ~(StreamCursor >= Len(Content))
    BY <1>3, <1>5, <1>11
  <2>2. answer' = [op |-> "read", ret |-> n, data |-> call.data]
    BY <1>1 DEF Return, n
  <2> QED BY <1>5, <1>7, <1>11, <1>12, <1>13, <2>1, <2>2
        DEF Stream!Read, Stream!End, StreamCursor
<1> QED BY <1>3, <1>4, <1>14 DEF Stream!Next, b

\* Every step is a step of the stream, or none.
LEMMA StepRefines ==
  ASSUME NarrowSizes, FileInv, [Next]_vars
  PROVE  FileInv' /\ [Stream!Next]_(Stream!vars)
<1>1. VolumeOK /\ cursor \in 0 .. size /\ size \in Nat /\ cursor \in Nat
  BY FileConstants DEF FileInv, VolumeOK
<1>2. ASSUME UNCHANGED volume, UNCHANGED answer, StreamCursor' = StreamCursor
      PROVE  UNCHANGED Stream!vars
  BY <1>1, <1>2, VolumeStays DEF Stream!vars, StreamCursor
<1>3. CASE ReadUnmounted \/ ReadAtEnd \/ Tell \/ IsEof
  BY <1>3, AnswerRefines
<1>4. ASSUME NEW bytes \in Sizes, NEW count \in Counts, ReadStart(bytes, count)
      PROVE  FileInv' /\ UNCHANGED Stream!vars
  <2>1. FileInv'
    BY <1>4, ReadStartKeeps
  <2>2. StreamCursor' = cursor /\ StreamCursor = cursor
    <3>1. call'.data = << >> /\ call'.at = "block" /\ cursor' = cursor /\ Idle
      BY <1>4 DEF ReadStart, NoCall
    <3>2. Len(<< >>) = 0
      BY EmptySeq
    <3> QED BY <1>1, <3>1, <3>2 DEF StreamCursor, Idle
  <2> QED BY <1>2, <1>4, <2>1, <2>2 DEF ReadStart
<1>5. CASE ReadDone
  BY <1>5, ReadDoneRefines
<1>6. CASE ReadBlock
  <2>1. FileInv'
    BY <1>6, ReadBlockKeeps
  <2>2. call \in Calls /\ ~Idle /\ call'.data = call.data /\ ~Idle' /\ cursor' = cursor
    BY <1>6 DEF ReadBlock, FileInv, Calls, Idle
  <2>3. StreamCursor' = StreamCursor
    BY <2>2 DEF StreamCursor
  <2> QED BY <1>2, <1>6, <2>1, <2>3 DEF ReadBlock
<1>7. CASE CopyLast \/ CopyOn
  <2>1. FileInv' /\ Began' = Began
    BY <1>7, CopyLastKeeps, CopyOnKeeps
  <2>2. call \in Calls /\ ~Idle /\ ~Idle' /\ UNCHANGED volume /\ UNCHANGED answer
    BY <1>7 DEF CopyLast, CopyOn, FileInv, Calls, Idle
  <2>3. StreamCursor' = StreamCursor
    BY <2>1, <2>2 DEF StreamCursor, Began
  <2> QED BY <1>2, <2>1, <2>2, <2>3
<1>8. ASSUME NEW offset \in Offsets, SeekSet(offset) \/ SeekCur(offset) \/ SeekEnd(offset)
      PROVE  FileInv' /\ Stream!Next
  <2>1. offset \in Int
    BY FileConstants
  <2>2. Idle /\ StreamCursor = cursor /\ Len(Content) = size
    BY <1>1, <1>8, ContentIsSeq DEF SeekSet, SeekCur, SeekEnd, SeekTo, StreamCursor, VolumeOK
  <2>3. CASE SeekSet(offset)
    <3> DEFINE a == offset <= size /\ offset >= 0
               p == offset
    <3>1. a \in BOOLEAN /\ p \in Int /\ SeekTo(p, a)
      BY <1>1, <2>1, <2>3 DEF SeekSet
    <3>2. a <=> p \in 0 .. size
      BY <1>1, <2>1, SMT
    <3> HIDE DEF a, p
    <3>3. FileInv' /\ Stream!Seek(p)
      BY <3>1, <3>2, SeekRefines
    <3> QED BY <3>3 DEF Stream!Next, p
  <2>4. CASE SeekCur(offset)
    <3> DEFINE a == offset + cursor <= size /\ offset + cursor >= 0
               p == cursor + offset
    <3>1. a \in BOOLEAN /\ p \in Int /\ SeekTo(p, a)
      BY <1>1, <2>1, <2>4 DEF SeekCur
    <3>2. a <=> p \in 0 .. size
      BY <1>1, <2>1, SMT
    <3> HIDE DEF a, p
    <3>3. FileInv' /\ Stream!Seek(p)
      BY <3>1, <3>2, SeekRefines
    <3>4. Stream!Seek(StreamCursor + offset)
      BY <2>2, <3>3 DEF p
    <3> QED BY <3>3, <3>4 DEF Stream!Next, StreamCursor
  <2>5. CASE SeekEnd(offset) /\ offset <= 0
    <3> DEFINE a == offset <= 0 /\ offset + size >= 0
               p == size + offset
    <3>1. a \in BOOLEAN /\ p \in Int /\ SeekTo(p, a)
      BY <1>1, <2>1, <2>5 DEF SeekEnd
    <3>2. a <=> p \in 0 .. size
      BY <1>1, <2>1, <2>5, SMT
    <3> HIDE DEF a, p
    <3>3. FileInv' /\ Stream!Seek(p)
      BY <3>1, <3>2, SeekRefines
    <3> QED BY <2>2, <2>5, <3>3 DEF Stream!Next, Stream!End, p
  <2>6. CASE SeekEnd(offset) /\ ~(offset <= 0)
    <3>1. SeekTo(-1, FALSE)
      BY <2>6 DEF SeekEnd, SeekTo
    <3>2. FileInv' /\ Stream!Seek(-1)
      BY <1>1, <3>1, SeekRefusedRefines
    <3> QED BY <3>2 DEF Stream!Next
  <2> QED BY <1>8, <2>3, <2>4, <2>5, <2>6
<1>9. CASE SeekInvalid
  <2>1. SeekTo(-1, FALSE)
    BY <1>9 DEF SeekInvalid, SeekTo
  <2>2. FileInv' /\ Stream!Seek(-1)
    BY <1>1, <2>1, SeekRefusedRefines
  <2> QED BY <2>2 DEF Stream!Next
<1>10. CASE Unmount
  <2>1. UNCHANGED volume /\ mounted' = FALSE /\ cursor' = cursor /\ call' = call /\ answer' = answer /\ Idle
    BY <1>10 DEF Unmount
  <2>2. call = NoCall
    BY <2>1 DEF FileInv, Idle
  <2>3. FileInv'
    BY <1>1, <2>1, <2>2, NoCallKeeps
  <2>4. StreamCursor' = StreamCursor
    BY <2>1 DEF StreamCursor, Idle
  <2> QED BY <1>2, <2>1, <2>3, <2>4
<1>11. CASE UNCHANGED vars
  <2>1. UNCHANGED volume /\ mounted' = mounted /\ cursor' = cursor /\ call' = call /\ answer' = answer
    BY <1>11 DEF vars, volume
  <2>2. StreamCursor' = StreamCursor
    BY <2>1 DEF StreamCursor, Idle
  <2>3. ChainOK' /\ Began' = Began /\ Content' = Content /\ size' = size /\ type' = type /\ chain' = chain
    BY <1>1, <2>1, VolumeStays DEF Began
  <2>4. FileInv'
    BY <2>1, <2>3 DEF FileInv, VolumeOK, InCall, InBlock, InCopy
  <2> QED BY <1>2, <2>1, <2>2, <2>4
<1> QED BY <1>3, <1>4, <1>5, <1>6, <1>7, <1>8, <1>9, <1>10, <1>11 DEF Next, ReadStep

-----------------------------------------------------------------------------
\* The state of an open file and of a read in progress is of its type: the
\* cursor never leaves the file, and a read never counts more blocks or bytes
\* than it was asked for (fat.c:1429-1590).
THEOREM FileTyped == ASSUME NarrowSizes PROVE Spec => []TypeOK
<1>1. FileInv /\ [Next]_vars => FileInv'
  BY StepRefines
<1> QED BY <1>1, InitInv, InvGivesTypeOK, PTL DEF Spec

\* An open file is a stream of bytes: for every chain, however its clusters lie,
\* every file and cluster size, and every mix of reads, seeks and questions, a
\* read delivers exactly the bytes behind the cursor, in order, as many whole
\* blocks as there are, and moves the cursor behind them (fat.c:1429-1590).
THEOREM FileIsStream == ASSUME NarrowSizes PROVE Spec => ImplementsByteStream
<1>1. FileInv /\ [Next]_vars => FileInv' /\ [Stream!Next]_(Stream!vars)
  BY StepRefines
<1>2. Init => Stream!Init
  BY DEF Init, Stream!Init, Idle, NoCall
<1> QED BY <1>1, <1>2, InitInv, PTL DEF Spec, ImplementsByteStream, Stream!Spec
=============================================================================
