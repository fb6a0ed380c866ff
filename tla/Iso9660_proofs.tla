--------------------------- MODULE Iso9660_proofs ---------------------------
(***************************************************************************)
(* Theorems about the ISO 9660 driver, for any number of entries,          *)
(* iterators and sectors, and any records: the cache, under every call; and, *)
(* where each sector of the directory but the last is used up, listings,   *)
(* searches and timestamps.                                                *)
(*                                                                         *)
(* The cache's invariant is kept by a single read.  That of the driver says *)
(* where an iterator can stand, and that it has shown the records before.  *)
(***************************************************************************)
EXTENDS Iso9660, FiniteSetTheorems, TLAPS

IsEntry(e) ==
  /\ e = [lba |-> e.lba, data_valid |-> e.data_valid, usage_tag |-> e.usage_tag, data |-> e.data]
  /\ e.usage_tag \in 0 .. UsageTagMax

Coherent(buf) ==
  /\ \A i \in Used(buf) : buf[i].data_valid /\ buf[i].data = disk[buf[i].lba]
  /\ \A i, j \in Used(buf) : buf[i].lba = buf[j].lba => i = j

\* At most one of the two entries has the tag of an entry just accessed, so
\* that the other can be taken.
OneRecent(buf) ==
  0 \in Used(buf) /\ 1 \in Used(buf) =>
    ~(buf[0].usage_tag = UsageTagMax /\ buf[1].usage_tag = UsageTagMax)

CacheOK(buf) ==
  /\ \A i \in Used(buf) : IsEntry(buf[i])
  /\ Used(buf) \subseteq {0, 1}
  /\ Coherent(buf) /\ OneRecent(buf)

CacheInv == CacheOK(diskbuf)

\* The array has two elements at least.
LEMMA TwoIndices == 0 \in Index /\ 1 \in Index /\ \A i \in Index : i \in Int /\ i >= 0
BY IsoDiskbufAssumption DEF Index

\* Exactly one element is taken, one of the first two; a hit is the only hit.
LEMMA OneTarget ==
  ASSUME NEW buf, CacheOK(buf), NEW lba
  PROVE  \E t \in {0, 1} : /\ \A i \in Index : IsTarget(buf, lba, i) <=> i = t
                           /\ Hits(buf, lba) = {} \/ Hits(buf, lba) = {t}
<1>1. CASE Hits(buf, lba) = {}
  <2>1. 0 \in Takeable(buf) \/ 1 \in Takeable(buf)
    <3>1. CASE 0 \notin Used(buf) \/ 1 \notin Used(buf)
      BY <3>1, TwoIndices DEF Used, Takeable
    <3>2. CASE 0 \in Used(buf) /\ 1 \in Used(buf)
      <4>1. buf[0].usage_tag \in 0 .. UsageTagMax /\ buf[1].usage_tag \in 0 .. UsageTagMax
        BY <3>2 DEF CacheOK, IsEntry
      <4>2. buf[0].usage_tag < UsageTagMax \/ buf[1].usage_tag < UsageTagMax
        BY <3>2, <4>1, IsoDiskbufAssumption DEF CacheOK, OneRecent
      <4> QED BY <4>2, TwoIndices DEF Takeable
    <3> QED BY <3>1, <3>2
  <2>2. \A i \in Takeable(buf) : i \in Index
    BY DEF Takeable
  <2>3. CASE 0 \in Takeable(buf)
    <3>1. \A i \in Index : IsTarget(buf, lba, i) <=> i = 0
      BY <1>1, <2>2, <2>3, TwoIndices DEF IsTarget
    <3> QED BY <1>1, <3>1
  <2>4. CASE 0 \notin Takeable(buf)
    <3>1. 1 \in Takeable(buf)
      BY <2>1, <2>4
    <3>2. \A i \in Takeable(buf) : i >= 1
      BY <2>2, <2>4, TwoIndices
    <3>3. \A i \in Index : IsTarget(buf, lba, i) <=> i = 1
      BY <1>1, <2>2, <3>1, <3>2, TwoIndices DEF IsTarget
    <3> QED BY <1>1, <3>3
  <2> QED BY <2>3, <2>4
<1>2. CASE Hits(buf, lba) # {}
  <2>1. PICK t \in Hits(buf, lba) : TRUE
    BY <1>2
  <2>2. t \in {0, 1}
    BY <2>1 DEF Hits, CacheOK
  <2>3. \A i \in Hits(buf, lba) : i = t
    BY <2>1 DEF Hits, CacheOK, Coherent
  <2>4. Hits(buf, lba) = {t}
    BY <2>1, <2>3
  <2>5. \A i \in Index : IsTarget(buf, lba, i) <=> i = t
    BY <2>2, <2>4 DEF IsTarget
  <2> QED BY <2>2, <2>4, <2>5
<1> QED BY <1>1, <1>2

\* What one access makes of the element it takes, and of another one.
LEMMA TargetFilled ==
  ASSUME NEW buf, CacheOK(buf), NEW lba, NEW t \in Index,
         Hits(buf, lba) = {} \/ Hits(buf, lba) = {t}
  PROVE  LET e == Filled(Allocated(buf, lba, t)) IN
           /\ IsEntry(e) /\ e.lba = lba /\ e.usage_tag = UsageTagMax
           /\ e.data_valid /\ e.data = disk[lba]
<1>0. UsageTagMax \in 0 .. UsageTagMax
  BY IsoDiskbufAssumption
<1>1. CASE Hits(buf, lba) = {}
  <2> DEFINE old == IF buf[t] = NoEntry THEN Undef ELSE buf[t].data
  <2>1. Allocated(buf, lba, t) =
          [lba |-> lba, data_valid |-> FALSE, usage_tag |-> UsageTagMax, data |-> old]
    BY <1>1 DEF Allocated
  <2>2. ASSUME NEW d
        PROVE  Filled([lba |-> lba, data_valid |-> FALSE, usage_tag |-> UsageTagMax, data |-> d]) =
               [lba |-> lba, data_valid |-> TRUE, usage_tag |-> UsageTagMax, data |-> disk[lba]]
    BY DEF Filled
  <2>3. Filled(Allocated(buf, lba, t)) =
          [lba |-> lba, data_valid |-> TRUE, usage_tag |-> UsageTagMax, data |-> disk[lba]]
    BY <2>1, <2>2
  <2> QED BY <1>0, <2>3 DEF IsEntry
<1>2. CASE Hits(buf, lba) = {t}
  <2>1. t \in Used(buf) /\ buf[t].lba = lba
    BY <1>2 DEF Hits
  <2>2. IsEntry(buf[t]) /\ buf[t].data_valid /\ buf[t].data = disk[lba]
    BY <2>1 DEF CacheOK, Coherent
  <2>3. Allocated(buf, lba, t) =
          [lba |-> buf[t].lba, data_valid |-> buf[t].data_valid,
           usage_tag |-> UsageTagMax, data |-> buf[t].data]
    BY <1>2, <2>2 DEF Allocated, IsEntry
  <2>4. Filled(Allocated(buf, lba, t)) = Allocated(buf, lba, t)
    BY <2>2, <2>3 DEF Filled
  <2> QED BY <1>0, <2>1, <2>2, <2>3, <2>4 DEF IsEntry
<1> QED BY <1>1, <1>2

\* Ageing leaves an entry colder than one just accessed.
LEMMA OthersAged ==
  ASSUME NEW e, IsEntry(e), e # NoEntry
  PROVE  /\ IsEntry(Aged(e)) /\ Aged(e).usage_tag < UsageTagMax
         /\ Aged(e).lba = e.lba /\ Aged(e).data_valid = e.data_valid /\ Aged(e).data = e.data
<1> DEFINE tag == IF e.usage_tag > 0 THEN e.usage_tag - 1 ELSE 0
<1>1. tag \in 0 .. UsageTagMax /\ tag < UsageTagMax
  BY IsoDiskbufAssumption DEF IsEntry
<1>2. Aged(e) = [lba |-> e.lba, data_valid |-> e.data_valid, usage_tag |-> tag, data |-> e.data]
  BY DEF Aged, IsEntry
<1> HIDE DEF tag
<1> QED BY <1>1, <1>2 DEF IsEntry

\* One read keeps the cache as the invariant says.
LEMMA ReadKeeps ==
  ASSUME NEW buf, CacheOK(buf), NEW lba
  PROVE  CacheOK(ReadSector(buf, lba))
<1> DEFINE new == ReadSector(buf, lba)
<1>1. PICK t \in {0, 1} : /\ \A i \in Index : IsTarget(buf, lba, i) <=> i = t
                          /\ Hits(buf, lba) = {} \/ Hits(buf, lba) = {t}
  BY OneTarget
<1>2. t \in Index
  BY TwoIndices
<1>3. /\ \A i \in Index : i # t => new[i] = Aged(buf[i])
      /\ new[t] = Filled(Allocated(buf, lba, t))
  BY <1>1, <1>2 DEF ReadSector
<1>4. /\ IsEntry(new[t]) /\ new[t].lba = lba /\ new[t].usage_tag = UsageTagMax
      /\ new[t].data_valid /\ new[t].data = disk[lba]
  BY <1>1, <1>2, <1>3, TargetFilled
<1> HIDE DEF new
<1>5. ASSUME NEW i \in Used(new), i # t
      PROVE  /\ i \in Used(buf) /\ IsEntry(new[i]) /\ new[i].usage_tag < UsageTagMax
             /\ new[i].lba = buf[i].lba /\ new[i].lba # lba
             /\ new[i].data_valid /\ new[i].data = disk[new[i].lba]
  <2>1. i \in Index /\ new[i] = Aged(buf[i]) /\ new[i] # NoEntry
    BY <1>3, <1>5 DEF Used
  <2>2. buf[i] # NoEntry
    BY <2>1 DEF Aged
  <2>3. i \in Used(buf)
    BY <2>1, <2>2 DEF Used
  <2>4. IsEntry(buf[i]) /\ buf[i].data_valid /\ buf[i].data = disk[buf[i].lba]
    BY <2>3 DEF CacheOK, Coherent
  <2>5. buf[i].lba # lba
    BY <1>1, <1>5, <2>3 DEF Hits
  <2> QED BY <2>1, <2>2, <2>3, <2>4, <2>5, OthersAged
<1>6. \A i \in Used(new) : IsEntry(new[i])
  BY <1>4, <1>5
<1>7. Used(new) \subseteq {0, 1}
  BY <1>1, <1>5 DEF CacheOK
<1>8. Coherent(new)
  <2>1. \A i \in Used(new) : new[i].data_valid /\ new[i].data = disk[new[i].lba]
    BY <1>4, <1>5
  <2>2. ASSUME NEW i \in Used(new), NEW j \in Used(new), new[i].lba = new[j].lba
        PROVE  i = j
    <3>1. CASE i # t /\ j # t
      BY <1>5, <2>2, <3>1 DEF CacheOK, Coherent
    <3>2. CASE i = t \/ j = t
      BY <1>4, <1>5, <2>2, <3>2
    <3> QED BY <3>1, <3>2
  <2> QED BY <2>1, <2>2 DEF Coherent
<1>9. OneRecent(new)
  <2>1. ASSUME NEW i \in Used(new), i # t PROVE new[i].usage_tag # UsageTagMax
    <3>1. new[i].usage_tag \in 0 .. UsageTagMax /\ new[i].usage_tag < UsageTagMax
      BY <1>5, <2>1 DEF IsEntry
    <3> QED BY <3>1, IsoDiskbufAssumption
  <2> QED BY <1>1, <2>1 DEF OneRecent
<1> QED BY <1>6, <1>7, <1>8, <1>9 DEF CacheOK, new

\* A new array is in order.
LEMMA EmptyOK == CacheOK(Empty)
<1>1. Used(Empty) = {}
  BY DEF Used, Empty
<1> QED BY <1>1, TwoIndices DEF CacheOK, Coherent, OneRecent

\* What a step does to the cache: nothing, a new array, one read or two.
LEMMA CacheSteps ==
  ASSUME [Next]_vars
  PROVE  /\ disk' = disk
         /\ \/ diskbuf' = diskbuf \/ diskbuf' = Empty
            \/ \E l : diskbuf' = ReadSector(diskbuf, l)
            \/ \E l, m : diskbuf' = ReadSector(ReadSector(diskbuf, l), m)
<1>1. CASE MountStart
  BY <1>1 DEF MountStart
<1>2. CASE MountStep
  BY <1>2, Zenon DEF MountStep
<1>3. CASE Unmount \/ Refused
  BY <1>3 DEF Unmount, Refused
<1>4. CASE RootdirOpen \/ GetVolumeInfo
  BY <1>4, Zenon DEF RootdirOpen, GetVolumeInfo
<1>5. ASSUME NEW k \in Iter, IterStart(k) \/ IterNext(k) \/ GetTimestamp(k)
      PROVE  /\ disk' = disk
             /\ diskbuf' = diskbuf \/ \E l : diskbuf' = ReadSector(diskbuf, l)
  BY <1>5, Zenon DEF IterStart, IterNext, GetTimestamp
<1>6. ASSUME NEW name, Lookup(name) PROVE disk' = disk /\ diskbuf' = diskbuf
  BY <1>6 DEF Lookup
<1>7. CASE LookupStep
  BY <1>7, Zenon DEF LookupStep
<1>8. CASE UNCHANGED vars
  BY <1>8 DEF vars
<1> QED BY <1>1, <1>2, <1>3, <1>4, <1>5, <1>6, <1>7, <1>8 DEF Next, LoopStep

\* No call of the driver breaks the invariant of the cache.
LEMMA CacheInductive == CacheInv /\ [Next]_vars => CacheInv'
<1> SUFFICES ASSUME CacheInv, [Next]_vars PROVE CacheInv'
  OBVIOUS
<1>1. CacheOK(diskbuf) /\ disk' = disk
  BY CacheSteps DEF CacheInv
<1>2. CacheOK(diskbuf')
  BY <1>1, CacheSteps, EmptyOK, ReadKeeps
<1> QED BY <1>1, <1>2 DEF CacheInv, CacheOK, Coherent, OneRecent, Used, IsEntry

\* That invariant holds throughout.
LEMMA CacheInvariant == Spec => []CacheInv
<1>1. Init => CacheInv
  BY EmptyOK DEF Init, CacheInv
<1> QED BY <1>1, CacheInductive, PTL DEF Spec

\* However many entries the cache has, the driver never uses more than two:
\* 30 of the 32 elements stay NULL for ever (iso9660.c:196 to 210).
THEOREM CacheUsesTwo == Spec => []OnlyTwoUsed
<1>1. CacheInv => OnlyTwoUsed
  BY DEF CacheInv, CacheOK, OnlyTwoUsed
<1> QED BY <1>1, CacheInvariant, PTL

\* Whatever is read in whatever order, a used entry holds its own sector, and
\* no other entry holds it too.
THEOREM CacheIsCoherent == Spec => []CacheCoherent
<1>1. CacheInv => CacheCoherent
  BY DEF CacheInv, CacheOK, Coherent, CacheCoherent
<1> QED BY <1>1, CacheInvariant, PTL

-----------------------------------------------------------------------------
\* The records of one sector.

NatLess == {p \in Nat \X Nat : p[1] < p[2]}

\* A set of numbers has a least one.
LEMMA LeastElement ==
  ASSUME NEW T \in SUBSET Nat, T # {}
  PROVE  \E x \in T : \A y \in T : x <= y
<1>1. OpToRel(<, Nat) = NatLess
  BY Zenon DEF OpToRel, NatLess
<1>2. IsWellFoundedOn(NatLess, Nat)
  BY <1>1, NatLessThanWellFounded
<1>3. PICK x \in T : \A y \in T : ~ (<<y, x>> \in NatLess)
  BY <1>2, WFMin
<1>4. \A y \in T : ~(y < x)
  BY <1>3 DEF NatLess
<1> QED BY <1>3, <1>4

IsSector(records) == records \in Seq(Record) /\ LaidOut(records)

RecordEnd(r) == r.pos + r.size

\* A record lies inside its sector, and starts where the one before it ends.
LEMMA RecordFacts ==
  ASSUME NEW rs, IsSector(rs), NEW k \in DOMAIN rs
  PROVE  /\ rs[k] \in Record /\ rs[k] # NoRecord /\ k \in 1 .. Len(rs) /\ Len(rs) \in Nat
         /\ rs[k].pos \in Nat /\ rs[k].size \in Nat /\ rs[k].size > 0
         /\ rs[k].pos < SectorSize /\ RecordEnd(rs[k]) <= SectorSize
         /\ RecordEnd(rs[k]) \in Nat /\ SectorSize \in Nat /\ DOMAIN rs = 1 .. Len(rs)
         /\ rs[k].pos = IF k = 1 THEN 0 ELSE RecordEnd(rs[k - 1])
<1>1. rs \in Seq(Record) /\ Len(rs) \in Nat /\ DOMAIN rs = 1 .. Len(rs)
  BY DEF IsSector
<1>2. rs[k] \in Record /\ k \in 1 .. Len(rs)
  BY <1>1
<1>3. rs[k] # NoRecord
  BY <1>2, IsoAssumption DEF Record, NoRecord
<1>4. rs[k].pos \in 0 .. SectorSize - 1 /\ rs[k].size \in 1 .. SectorSize /\ SectorSize \in Nat
  BY <1>2, IsoAssumption DEF Record
<1>5. /\ rs[k].pos + rs[k].size <= SectorSize
      /\ rs[k].pos = IF k = 1 THEN 0 ELSE RecordEnd(rs[k - 1])
  BY DEF IsSector, LaidOut, RecordEnd
<1> QED BY <1>1, <1>2, <1>3, <1>4, <1>5 DEF RecordEnd

\* A record ends before any later one starts.
LEMMA RecordsApart ==
  ASSUME NEW rs, IsSector(rs), NEW j \in DOMAIN rs, NEW k \in DOMAIN rs, j < k
  PROVE  RecordEnd(rs[j]) <= rs[k].pos
<1> DEFINE Bad == {m \in DOMAIN rs : \E i \in DOMAIN rs : i < m /\ ~(RecordEnd(rs[i]) <= rs[m].pos)}
<1> SUFFICES ASSUME Bad # {} PROVE FALSE
  OBVIOUS
<1>1. Bad \in SUBSET Nat
  BY RecordFacts
<1>2. PICK m \in Bad : \A y \in Bad : m <= y
  BY <1>1, LeastElement
<1>3. PICK i \in DOMAIN rs : i < m /\ ~(RecordEnd(rs[i]) <= rs[m].pos)
  BY <1>2
<1>4. /\ m \in DOMAIN rs /\ m \in 1 .. Len(rs) /\ i \in 1 .. Len(rs) /\ Len(rs) \in Nat
      /\ DOMAIN rs = 1 .. Len(rs)
  BY <1>2, RecordFacts
<1>5. m - 1 \in DOMAIN rs /\ m # 1 /\ rs[m].pos = RecordEnd(rs[m - 1])
  <2>1. m # 1 /\ m - 1 \in DOMAIN rs
    BY <1>3, <1>4
  <2> QED BY <1>4, <2>1, RecordFacts
<1>6. /\ RecordEnd(rs[i]) \in Nat /\ RecordEnd(rs[m - 1]) \in Nat /\ rs[m - 1].pos \in Nat
      /\ rs[m - 1].size \in Nat
  BY <1>3, <1>5, RecordFacts
<1>7. i # m - 1
  BY <1>3, <1>5, <1>6
<1>8. m - 1 \notin Bad
  BY <1>1, <1>2, <1>4
<1>9. RecordEnd(rs[i]) <= rs[m - 1].pos
  BY <1>3, <1>4, <1>5, <1>7, <1>8
<1> QED BY <1>3, <1>5, <1>6, <1>9 DEF RecordEnd

\* The record that starts at a position is the only one that does.
LEMMA RecordThere ==
  ASSUME NEW rs, IsSector(rs)
  PROVE  /\ \A k \in DOMAIN rs : RecordAt(rs, rs[k].pos) = rs[k]
         /\ \A pos : RecordAt(rs, pos) # NoRecord =>
              \E k \in DOMAIN rs : rs[k].pos = pos /\ RecordAt(rs, pos) = rs[k]
<1>1. ASSUME NEW k \in DOMAIN rs PROVE RecordAt(rs, rs[k].pos) = rs[k]
  <2>1. ASSUME NEW j \in DOMAIN rs, rs[j].pos = rs[k].pos PROVE j = k
    <3> SUFFICES ASSUME j # k PROVE FALSE
      OBVIOUS
    <3>1. /\ j \in Nat /\ k \in Nat /\ rs[j].pos \in Nat /\ rs[j].size \in Nat /\ rs[k].size \in Nat
          /\ rs[j].size > 0 /\ rs[k].size > 0
      BY RecordFacts
    <3>2. j < k \/ k < j
      BY <3>1
    <3>3. RecordEnd(rs[j]) <= rs[k].pos \/ RecordEnd(rs[k]) <= rs[j].pos
      BY <3>2, RecordsApart
    <3> QED BY <2>1, <3>1, <3>3 DEF RecordEnd
  <2>2. (CHOOSE j \in DOMAIN rs : rs[j].pos = rs[k].pos) = k
    BY <2>1
  <2> QED BY <2>2 DEF RecordAt
<1>2. ASSUME NEW pos, RecordAt(rs, pos) # NoRecord
      PROVE  \E k \in DOMAIN rs : rs[k].pos = pos /\ RecordAt(rs, pos) = rs[k]
  <2>1. PICK k \in DOMAIN rs : rs[k].pos = pos
    BY <1>2 DEF RecordAt
  <2>2. RecordAt(rs, pos) = rs[k]
    BY <1>1, <2>1
  <2> QED BY <2>1, <2>2
<1> QED BY <1>1, <1>2

\* A position a listing may have reached: the start of the sector, or the end
\* of a record.
Edge(rs, pos) == pos = 0 \/ \E k \in DOMAIN rs : pos = RecordEnd(rs[k])
Full(rs) == \E k \in DOMAIN rs : RecordEnd(rs[k]) = SectorSize

\* Where no record starts, those of the sector are all passed, and there is room.
LEMMA SectorOver ==
  ASSUME NEW rs, IsSector(rs), NEW pos \in 0 .. SectorSize - 1, Edge(rs, pos),
         RecordAt(rs, pos) = NoRecord
  PROVE  ~Full(rs) /\ \A k \in DOMAIN rs : rs[k].pos < pos
<1>1. \A k \in DOMAIN rs : rs[k].pos # pos
  BY RecordThere, RecordFacts
<1>2. CASE pos = 0
  <2>1. rs \in Seq(Record)
    BY DEF IsSector
  <2>2. DOMAIN rs = {}
    <3> SUFFICES ASSUME NEW k \in DOMAIN rs PROVE FALSE
      OBVIOUS
    <3>1. 1 \in DOMAIN rs
      BY RecordFacts
    <3> QED BY <1>1, <1>2, <3>1, RecordFacts
  <2> QED BY <2>2 DEF Full
<1>3. CASE pos # 0
  <2>1. PICK k \in DOMAIN rs : pos = RecordEnd(rs[k])
    BY <1>3 DEF Edge
  <2>2. /\ DOMAIN rs = 1 .. Len(rs) /\ Len(rs) \in Nat /\ k \in 1 .. Len(rs)
        /\ rs[k].pos \in Nat /\ rs[k].size \in Nat /\ rs[k].size > 0
    BY RecordFacts
  <2>3. k = Len(rs)
    <3> SUFFICES ASSUME k # Len(rs) PROVE FALSE
      OBVIOUS
    <3>1. k + 1 \in DOMAIN rs /\ (k + 1) - 1 = k /\ k + 1 # 1
      BY <2>2
    <3>2. rs[k + 1].pos = RecordEnd(rs[(k + 1) - 1])
      BY <3>1, RecordFacts
    <3> QED BY <1>1, <2>1, <3>1, <3>2
  <2>4. ASSUME NEW j \in DOMAIN rs PROVE rs[j].pos < pos /\ RecordEnd(rs[j]) < SectorSize
    <3>1. /\ j \in 1 .. Len(rs) /\ rs[j].pos \in Nat /\ rs[j].size \in Nat /\ rs[j].size > 0
          /\ RecordEnd(rs[j]) \in Nat /\ SectorSize \in Nat
      BY RecordFacts
    <3>2. CASE j = k
      BY <2>1, <2>2, <3>1, <3>2 DEF RecordEnd
    <3>3. CASE j < k
      <4>1. RecordEnd(rs[j]) <= rs[k].pos
        BY <3>3, RecordsApart
      <4> QED BY <2>1, <2>2, <3>1, <4>1 DEF RecordEnd
    <3> QED BY <2>2, <2>3, <3>1, <3>2, <3>3
  <2> QED BY <2>4, RecordFacts DEF Full
<1> QED BY <1>2, <1>3
-----------------------------------------------------------------------------
\* Volumes.

\* The directories the theorems are about: every sector but the last is used up,
\* for the zeros after a record end the listing (iso9660.c:425).
Packed == \A d \in Directories : \A s \in 1 .. Len(d) - 1 : Full(d[s])

\* The directory takes n sectors; the sector after it is there, and elsewhere
\* there are no records.
HasDirectory(dk, n) ==
  /\ n \in Nat \ {0} /\ DirLba .. DirLba + n \subseteq Lba
  /\ \A l \in Lba : IsSector(dk[l].records)
  /\ \A l \in Lba : l \notin DirLba .. DirLba + n - 1 => dk[l].records = <<>>
  /\ \A l \in DirLba .. DirLba + n - 2 : Full(dk[l].records)

\* The descriptors end somewhere.
HasDescriptors(dk) ==
  \E m \in Nat : FirstDesc .. m \subseteq Lba /\ FirstDesc <= m /\ dk[m].kind \notin Signed

IsVolume(dk) == HasDescriptors(dk) /\ \E n : HasDirectory(dk, n)

\* The sectors of the volume are numbers, and none is NoLba.
LEMMA LbaFacts ==
  /\ DirLba \in Nat /\ DirLba # NoLba /\ \A l \in Lba : l \in Nat /\ l # NoLba
  /\ DirLba \in Lba /\ PathTable \in Lba /\ FirstDesc \in Nat /\ NoLba = 0
  /\ PathTable \in Nat /\ PathTable < DirLba
BY IsoAssumption DEF NoLba, FirstDesc

\* The fields of a sector.
LEMMA SectorFields ==
  ASSUME NEW kind, NEW rs
  PROVE  Sector(kind, rs).kind = kind /\ Sector(kind, rs).records = rs
BY DEF Sector

\* What was mastered is such a volume.
LEMMA MasteredVolume ==
  ASSUME Packed, NEW descs \in DescSets, NEW d \in Directories
  PROVE  IsVolume(DiskOf(descs, d))
<1> DEFINE dk == DiskOf(descs, d)
           m == FirstDesc + Len(descs)
           n == Len(d)
<1>1. descs \in Seq(Signed \cup {"other"}) /\ d \in Seq(Seq(Record))
  BY IsoAssumption
<1>2. Len(descs) \in Nat /\ n \in Nat /\ m \in Nat /\ FirstDesc <= m /\ DOMAIN d = 1 .. n
  BY <1>1, LbaFacts
<1>3. /\ FirstDesc .. m \subseteq Lba /\ m <= DirLba
      /\ n > 0 /\ DirLba .. DirLba + n \subseteq Lba
      /\ \A s \in 1 .. n : LaidOut(d[s]) /\ d[s] \in Seq(Record)
  BY <1>1, <1>2, IsoAssumption
<1>4. ASSUME NEW l \in Lba
      PROVE  dk[l] = IF l \in FirstDesc .. m - 1 THEN Sector(descs[l - FirstDesc + 1], <<>>)
                     ELSE IF l \in DirLba .. DirLba + n - 1 THEN Sector("dir", d[l - DirLba + 1])
                     ELSE Sector(IF l = PathTable THEN "pathtable" ELSE "other", <<>>)
  <2>1. m - 1 = FirstDesc + Len(descs) - 1
    BY <1>2, LbaFacts
  <2> HIDE DEF m
  <2> QED BY <2>1 DEF DiskOf
<1> HIDE DEF dk, m, n
<1>5. IsSector(<<>>)
  BY DEF IsSector, LaidOut
<1>6. ASSUME NEW l \in DirLba .. DirLba + n - 1
      PROVE  /\ l \in Lba /\ l - DirLba + 1 \in 1 .. n /\ dk[l] = Sector("dir", d[l - DirLba + 1])
  <2>1. l \in DirLba .. DirLba + n /\ l \in Nat /\ l - DirLba + 1 \in 1 .. n
    BY <1>2, LbaFacts
  <2>2. l \notin FirstDesc .. m - 1
    BY <1>2, <1>3, LbaFacts
  <2> QED BY <1>3, <1>4, <2>1, <2>2
<1>7. ASSUME NEW l \in Lba, l \notin DirLba .. DirLba + n - 1 PROVE dk[l].records = <<>>
  BY <1>4, <1>7, SectorFields
<1>8. \A l \in Lba : IsSector(dk[l].records)
  <2> SUFFICES ASSUME NEW l \in Lba PROVE IsSector(dk[l].records)
    OBVIOUS
  <2>1. CASE l \notin DirLba .. DirLba + n - 1
    BY <1>5, <1>7, <2>1
  <2>2. CASE l \in DirLba .. DirLba + n - 1
    <3>1. dk[l].records = d[l - DirLba + 1] /\ l - DirLba + 1 \in 1 .. n
      BY <1>6, <2>2, SectorFields
    <3> QED BY <1>3, <3>1 DEF IsSector
  <2> QED BY <2>1, <2>2
<1>9. \A l \in DirLba .. DirLba + n - 2 : Full(dk[l].records)
  <2> SUFFICES ASSUME NEW l \in DirLba .. DirLba + n - 2 PROVE Full(dk[l].records)
    OBVIOUS
  <2>1. l \in DirLba .. DirLba + n - 1 /\ l - DirLba + 1 \in 1 .. n - 1
    BY <1>2, LbaFacts
  <2>2. dk[l].records = d[l - DirLba + 1]
    BY <1>6, <2>1, SectorFields
  <2> QED BY <2>1, <2>2 DEF Packed, n
<1>10. HasDirectory(dk, n)
  BY <1>2, <1>3, <1>7, <1>8, <1>9 DEF HasDirectory
<1>11. dk[m].kind \notin Signed /\ m \in Nat
  <2>1. m \in Lba /\ m \notin FirstDesc .. m - 1
    BY <1>2, <1>3, LbaFacts
  <2>2. dk[m].kind \in {"dir", "pathtable", "other"}
    BY <1>4, <2>1, SectorFields
  <2> QED BY <1>2, <2>2 DEF Signed
<1>12. HasDescriptors(dk)
  BY <1>2, <1>3, <1>11 DEF HasDescriptors
<1> QED BY <1>10, <1>12 DEF IsVolume, dk

-----------------------------------------------------------------------------
\* Places and ranks: how many records lie before a place.

Passed(dk, q) == {p \in Places(dk) : Before(p, q)}

\* A place is that of a record, and carries its name.
LEMMA PlaceFacts ==
  ASSUME NEW dk, IsVolume(dk), NEW p \in Places(dk)
  PROVE  \E l \in Lba : \E k \in DOMAIN dk[l].records :
           /\ p = <<l, dk[l].records[k].pos>> /\ l \in Nat /\ p[1] = l
           /\ p[2] = dk[l].records[k].pos /\ p[2] \in Nat /\ p[2] < SectorSize
           /\ NameAt(dk, p) = NameOf(dk[l].records[k])
<1>1. PICK l \in Lba : p \in {<<l, dk[l].records[k].pos>> : k \in DOMAIN dk[l].records}
  BY DEF Places
<1>2. PICK k \in DOMAIN dk[l].records : p = <<l, dk[l].records[k].pos>>
  BY <1>1
<1>3. IsSector(dk[l].records)
  BY DEF IsVolume, HasDirectory
<1>4. /\ RecordAt(dk[l].records, dk[l].records[k].pos) = dk[l].records[k]
      /\ dk[l].records[k].pos \in Nat /\ dk[l].records[k].pos < SectorSize
  BY <1>3, RecordFacts, RecordThere
<1>5. p[1] = l /\ p[2] = dk[l].records[k].pos
  BY <1>2
<1>6. NameAt(dk, p) = NameOf(dk[l].records[k])
  BY <1>4, <1>5 DEF NameAt
<1> QED BY <1>2, <1>4, <1>5, <1>6, LbaFacts

\* A directory has finitely many records.
LEMMA PlacesFinite ==
  ASSUME NEW dk, IsVolume(dk)
  PROVE  IsFiniteSet(Places(dk)) /\ Cardinality(Places(dk)) \in Nat
<1>1. PICK n : HasDirectory(dk, n)
  BY DEF IsVolume
<1> DEFINE S == DirLba .. DirLba + n - 1
           T == 0 .. SectorSize - 1
<1>2. IsFiniteSet(S) /\ IsFiniteSet(T)
  <2>1. DirLba \in Int /\ DirLba + n - 1 \in Int /\ 0 \in Int /\ SectorSize - 1 \in Int
    BY <1>1, LbaFacts, IsoAssumption DEF HasDirectory
  <2> QED BY <2>1, FS_Interval
<1>3. IsFiniteSet(S \X T)
  <2> HIDE DEF S, T
  <2> QED BY <1>2, FS_Product
<1>4. Places(dk) \subseteq S \X T
  <2> SUFFICES ASSUME NEW p \in Places(dk) PROVE p \in S \X T
    OBVIOUS
  <2>1. PICK l \in Lba : \E k \in DOMAIN dk[l].records :
          p = <<l, dk[l].records[k].pos>> /\ p[2] \in Nat /\ p[2] < SectorSize
                                          /\ p[2] = dk[l].records[k].pos
    BY PlaceFacts
  <2>2. PICK k \in DOMAIN dk[l].records :
          p = <<l, dk[l].records[k].pos>> /\ p[2] \in Nat /\ p[2] < SectorSize
                                          /\ p[2] = dk[l].records[k].pos
    BY <2>1
  <2>3. dk[l].records # <<>>
    BY <2>2
  <2>4. l \in S
    BY <1>1, <2>3 DEF HasDirectory
  <2>5. dk[l].records[k].pos \in T
    BY <2>2, IsoAssumption
  <2> QED BY <2>2, <2>4, <2>5
<1>5. IsFiniteSet(Places(dk))
  <2> HIDE DEF S, T
  <2> QED BY <1>3, <1>4, FS_Subset
<1> QED BY <1>5, FS_CardinalityType

\* The rank of a place counts the records passed there.
LEMMA RankType ==
  ASSUME NEW dk, IsVolume(dk), NEW q
  PROVE  /\ Passed(dk, q) \subseteq Places(dk) /\ IsFiniteSet(Passed(dk, q))
         /\ Rank(dk, q) = Cardinality(Passed(dk, q))
         /\ Rank(dk, q) \in Nat /\ Rank(dk, q) <= Cardinality(Places(dk))
<1>1. Passed(dk, q) \subseteq Places(dk) /\ Rank(dk, q) = Cardinality(Passed(dk, q))
  BY DEF Passed, Rank
<1>2. IsFiniteSet(Passed(dk, q)) /\ Cardinality(Passed(dk, q)) <= Cardinality(Places(dk))
  BY <1>1, PlacesFinite, FS_Subset
<1>3. Cardinality(Passed(dk, q)) \in Nat
  BY <1>2, FS_CardinalityType
<1> QED BY <1>1, <1>2, <1>3

\* Passing one more record adds one to the rank.
LEMMA RankNext ==
  ASSUME NEW dk, IsVolume(dk), NEW p \in Places(dk), NEW q,
         Passed(dk, q) = Passed(dk, p) \cup {p}
  PROVE  Rank(dk, q) = Rank(dk, p) + 1
<1>1. p \notin Passed(dk, p)
  <2> SUFFICES ASSUME Before(p, p) PROVE FALSE
    BY DEF Passed
  <2>1. p[1] \in Nat /\ p[2] \in Nat
    BY PlaceFacts
  <2> QED BY <2>1 DEF Before
<1>2. IsFiniteSet(Passed(dk, p))
  BY RankType
<1>3. Cardinality(Passed(dk, p) \cup {p}) = Cardinality(Passed(dk, p)) + 1
  BY <1>1, <1>2, FS_AddElement
<1>4. Rank(dk, q) = Cardinality(Passed(dk, q))
  BY RankType
<1>5. Rank(dk, p) = Cardinality(Passed(dk, p))
  BY RankType
<1> QED BY <1>3, <1>4, <1>5

\* Of two places one is before the other, and has the lower rank.
LEMMA RankOrder ==
  ASSUME NEW dk, IsVolume(dk), NEW p \in Places(dk), NEW q \in Places(dk), p # q
  PROVE  Rank(dk, p) # Rank(dk, q)
<1>1. ASSUME NEW a \in Places(dk), NEW b \in Places(dk), Before(a, b)
      PROVE  Rank(dk, a) # Rank(dk, b)
  <2>1. a[1] \in Nat /\ a[2] \in Nat /\ b[1] \in Nat /\ b[2] \in Nat
    <3>1. a[1] \in Nat /\ a[2] \in Nat
      BY PlaceFacts
    <3>2. b[1] \in Nat /\ b[2] \in Nat
      BY PlaceFacts
    <3> QED BY <3>1, <3>2
  <2>2. a \in Passed(dk, b) /\ a \notin Passed(dk, a)
    BY <1>1, <2>1 DEF Passed, Before
  <2>3. Passed(dk, a) \subseteq Passed(dk, b)
    <3> SUFFICES ASSUME NEW c \in Places(dk), Before(c, a) PROVE Before(c, b)
      BY DEF Passed
    <3>1. c[1] \in Nat /\ c[2] \in Nat
      BY PlaceFacts
    <3> QED BY <1>1, <2>1, <3>1 DEF Before
  <2>4. IsFiniteSet(Passed(dk, b)) /\ Rank(dk, b) = Cardinality(Passed(dk, b))
    BY RankType
  <2>5. Rank(dk, a) = Cardinality(Passed(dk, a))
    BY RankType
  <2>6. Cardinality(Passed(dk, b)) = Cardinality(Passed(dk, a)) => Passed(dk, b) = Passed(dk, a)
    BY <2>3, <2>4, FS_Subset
  <2> QED BY <2>2, <2>4, <2>5, <2>6
<1>2. Before(p, q) \/ Before(q, p)
  <2>1. p = <<p[1], p[2]>> /\ p[1] \in Nat /\ p[2] \in Nat
    BY PlaceFacts
  <2>2. q = <<q[1], q[2]>> /\ q[1] \in Nat /\ q[2] \in Nat
    BY PlaceFacts
  <2>3. p[1] # q[1] \/ p[2] # q[2]
    BY <2>1, <2>2
  <2> QED BY <2>1, <2>2, <2>3 DEF Before
<1> QED BY <1>1, <1>2

\* The record before which n lie is the next the listing shows.
LEMMA ListingAt ==
  ASSUME NEW dk, IsVolume(dk), NEW p \in Places(dk), NEW q,
         Passed(dk, q) = Passed(dk, p) \cup {p}
  PROVE  /\ Rank(dk, p) + 1 \in 1 .. Cardinality(Places(dk))
         /\ Listing(dk)[Rank(dk, p) + 1] = NameAt(dk, p)
<1>1. Rank(dk, q) = Rank(dk, p) + 1
  BY RankNext
<1>2. Rank(dk, q) <= Cardinality(Places(dk))
  BY RankType
<1>3. Rank(dk, p) \in Nat
  BY RankType
<1>4. Cardinality(Places(dk)) \in Nat
  BY PlacesFinite
<1>5. (CHOOSE a \in Places(dk) : Rank(dk, a) = (Rank(dk, p) + 1) - 1) = p
  <2>1. (Rank(dk, p) + 1) - 1 = Rank(dk, p)
    BY <1>3
  <2>2. \A a \in Places(dk) : Rank(dk, a) = Rank(dk, p) => a = p
    BY RankOrder
  <2> QED BY <2>1, <2>2
<1>6. Rank(dk, p) + 1 \in 1 .. Cardinality(Places(dk))
  BY <1>1, <1>2, <1>3, <1>4
<1> QED BY <1>5, <1>6 DEF Listing
-----------------------------------------------------------------------------
\* Iterators.

Addr(x) == <<x.lba, x.pos>>

\* An iterator stands at an edge of a sector of the directory, or of the one
\* after it; inside a sector, the record it shows is the one that ends there.
IterOK(dk, x) ==
  /\ x.valid => x.lba # NoLba
  /\ x.lba # NoLba =>
       /\ x.lba >= DirLba /\ Edge(dk[x.lba].records, x.pos)
       /\ x.valid /\ x.pos # 0 =>
            \E k \in DOMAIN dk[x.lba].records :
              /\ x.cur = dk[x.lba].records[k] /\ x.prev = x.cur.size
              /\ x.pos = RecordEnd(x.cur)

\* Stepping over a record passes it and nothing else.
LEMMA SteppedOn ==
  ASSUME NEW dk, IsVolume(dk), NEW x \in IterType, x.lba # NoLba, IterOK(dk, x),
         NEW r, r = RecordAt(dk[x.lba].records, x.pos), r # NoRecord
  PROVE  /\ Addr(x) \in Places(dk) /\ NameAt(dk, Addr(x)) = NameOf(r)
         /\ Passed(dk, Addr(Stepped(x, r))) = Passed(dk, Addr(x)) \cup {Addr(x)}
         /\ Stepped(x, r) \in IterType /\ Stepped(x, r).lba # NoLba
         /\ IterOK(dk, Stepped(x, r))
<1> DEFINE l == x.lba
           rs == dk[l].records
           y == Stepped(x, r)
<1>1. l \in Lba /\ l \in Nat /\ l >= DirLba /\ x.pos \in 0 .. SectorSize - 1 /\ IsSector(rs)
  BY LbaFacts DEF IterType, IterOK, IsVolume, HasDirectory
<1>2. PICK k \in DOMAIN rs : rs[k].pos = x.pos /\ r = rs[k]
  BY <1>1, RecordThere
<1>3. /\ r \in Record /\ r.pos = x.pos /\ r.pos \in Nat /\ r.size \in Nat /\ r.size > 0
      /\ RecordEnd(r) \in Nat /\ RecordEnd(r) <= SectorSize /\ SectorSize \in Nat
      /\ RecordEnd(r) = x.pos + r.size /\ SectorSize > 0
  <2>1. /\ rs[k] \in Record /\ rs[k].pos \in Nat /\ rs[k].size \in Nat /\ rs[k].size > 0
        /\ RecordEnd(rs[k]) \in Nat /\ RecordEnd(rs[k]) <= SectorSize /\ SectorSize \in Nat
    BY <1>1, RecordFacts
  <2>2. SectorSize > 0
    BY IsoAssumption
  <2> QED BY <1>2, <2>1, <2>2 DEF RecordEnd
<1>4. Addr(x) \in Places(dk)
  <2>1. Addr(x) = <<l, rs[k].pos>>
    BY <1>2 DEF Addr
  <2> HIDE DEF l
  <2> QED BY <1>1, <2>1 DEF Places
<1>5. NameAt(dk, Addr(x)) = NameOf(r)
  BY DEF NameAt, Addr
<1>6. /\ y.lba = IF RecordEnd(r) = SectorSize THEN l + 1 ELSE l
      /\ y.pos = IF RecordEnd(r) = SectorSize THEN 0 ELSE RecordEnd(r)
      /\ y.prev = r.size /\ y.valid = TRUE /\ y.cur = r
  <2>1. (x.pos + r.size >= SectorSize) <=> (RecordEnd(r) = SectorSize)
    BY <1>3
  <2> QED BY <1>3, <2>1 DEF Stepped
<1>7. l + 1 \in Lba
  <2>1. PICK n : HasDirectory(dk, n)
    BY DEF IsVolume
  <2>2. rs # <<>>
    BY <1>2
  <2>3. l \in DirLba .. DirLba + n - 1
    BY <1>1, <2>1, <2>2 DEF HasDirectory
  <2>4. l + 1 \in DirLba .. DirLba + n
    BY <1>1, <2>1, <2>3, LbaFacts DEF HasDirectory
  <2> QED BY <2>1, <2>4 DEF HasDirectory
<1>8. y \in IterType /\ y.lba \in Lba /\ y.lba \in Nat /\ y.lba # NoLba /\ y.lba >= DirLba
  <2>1. y = [lba |-> y.lba, pos |-> y.pos, prev |-> y.prev, valid |-> y.valid, cur |-> y.cur]
    BY DEF Stepped
  <2> HIDE DEF y, l
  <2>2. y.lba \in Lba /\ y.lba >= DirLba
    BY <1>1, <1>6, <1>7, LbaFacts
  <2>3. y.pos \in 0 .. SectorSize - 1
    BY <1>3, <1>6
  <2>4. y.prev \in 0 .. SectorSize /\ y.valid \in BOOLEAN /\ y.cur \in Record \cup {NoRecord}
    <3>1. y.prev \in 0 .. SectorSize
      BY <1>3, <1>6 DEF RecordEnd
    <3>2. y.valid \in BOOLEAN
      BY <1>6
    <3>3. y.cur \in Record \cup {NoRecord}
      BY <1>3, <1>6
    <3> QED BY <3>1, <3>2, <3>3
  <2>5. y \in IterType
    BY <2>1, <2>2, <2>3, <2>4 DEF IterType
  <2> QED BY <2>2, <2>5, LbaFacts
<1>9. IterOK(dk, y)
  <2>1. CASE RecordEnd(r) = SectorSize
    BY <1>6, <1>8, <2>1 DEF IterOK, Edge
  <2>2. CASE RecordEnd(r) # SectorSize
    <3>1. y.lba = l /\ y.pos = RecordEnd(r)
      BY <1>6, <2>2
    <3> HIDE DEF y, l
    <3>2. Edge(dk[y.lba].records, y.pos)
      BY <1>2, <3>1 DEF Edge
    <3> QED BY <1>2, <1>6, <1>8, <3>1, <3>2 DEF IterOK
  <2> QED BY <2>1, <2>2
<1>10. ASSUME NEW p \in Places(dk)
       PROVE  Before(p, Addr(y)) <=> (Before(p, Addr(x)) \/ p = Addr(x))
  <2>1. PICK m \in Lba : \E j \in DOMAIN dk[m].records :
          p = <<m, dk[m].records[j].pos>> /\ m \in Nat
    BY PlaceFacts
  <2>2. PICK j \in DOMAIN dk[m].records : p = <<m, dk[m].records[j].pos>> /\ m \in Nat
    BY <2>1
  <2> DEFINE q == dk[m].records[j].pos
  <2>3. IsSector(dk[m].records)
    BY DEF IsVolume, HasDirectory
  <2>4. q \in Nat /\ q < SectorSize
    BY <2>2, <2>3, RecordFacts
  <2>5. m = l => (q <= x.pos \/ RecordEnd(r) <= q)
    <3> SUFFICES ASSUME m = l PROVE q <= x.pos \/ RecordEnd(r) <= q
      OBVIOUS
    <3>1. j \in DOMAIN rs /\ q = rs[j].pos /\ j \in Nat /\ k \in Nat
      BY <1>1, <2>2, RecordFacts
    <3>2. CASE j = k
      BY <1>2, <1>3, <3>1, <3>2
    <3>3. CASE j < k
      <4>1. RecordEnd(rs[j]) <= rs[k].pos /\ rs[j].size \in Nat /\ rs[j].pos \in Nat
        BY <1>1, <3>1, <3>3, RecordsApart, RecordFacts
      <4> QED BY <1>2, <1>3, <3>1, <4>1 DEF RecordEnd
    <3>4. CASE k < j
      BY <1>1, <1>2, <3>1, <3>4, RecordsApart
    <3> QED BY <3>1, <3>2, <3>3, <3>4
  <2>6. p = <<m, q>> /\ p[1] = m /\ p[2] = q
    BY <2>2
  <2>7. Addr(x) = <<l, x.pos>> /\ Addr(y) = <<y.lba, y.pos>>
    BY DEF Addr
  <2>8. /\ Before(p, Addr(y)) <=> (m < y.lba \/ (m = y.lba /\ q < y.pos))
        /\ Before(p, Addr(x)) <=> (m < l \/ (m = l /\ q < x.pos))
        /\ p = Addr(x) <=> (m = l /\ q = x.pos)
    BY <2>6, <2>7 DEF Before
  <2> HIDE DEF q, y, l
  <2>9. CASE RecordEnd(r) = SectorSize
    <3>1. y.lba = l + 1 /\ y.pos = 0
      BY <1>6, <2>9
    <3> QED BY <1>1, <1>3, <2>2, <2>4, <2>5, <2>8, <2>9, <3>1
  <2>10. CASE RecordEnd(r) # SectorSize
    <3>1. y.lba = l /\ y.pos = RecordEnd(r)
      BY <1>6, <2>10
    <3> QED BY <1>1, <1>3, <2>2, <2>4, <2>5, <2>8, <3>1
  <2> QED BY <2>9, <2>10
<1>11. Passed(dk, Addr(y)) = Passed(dk, Addr(x)) \cup {Addr(x)}
  BY <1>4, <1>10 DEF Passed
<1> QED BY <1>4, <1>5, <1>8, <1>9, <1>11

\* Where an iterator finds no record, every record of the directory is passed.
LEMMA NothingAhead ==
  ASSUME NEW dk, IsVolume(dk), NEW x \in IterType, x.lba # NoLba, IterOK(dk, x),
         RecordAt(dk[x.lba].records, x.pos) = NoRecord
  PROVE  Rank(dk, Addr(x)) = Cardinality(Places(dk))
<1> DEFINE l == x.lba
           rs == dk[l].records
<1>1. l \in Lba /\ l \in Nat /\ l >= DirLba /\ x.pos \in 0 .. SectorSize - 1 /\ IsSector(rs)
  BY LbaFacts DEF IterType, IterOK, IsVolume, HasDirectory
<1>2. ~Full(rs) /\ \A k \in DOMAIN rs : rs[k].pos < x.pos
  BY <1>1, SectorOver DEF IterOK
<1>3. PICK n : HasDirectory(dk, n)
  BY DEF IsVolume
<1>4. DirLba + n - 1 <= l
  <2> SUFFICES ASSUME ~(DirLba + n - 1 <= l) PROVE FALSE
    OBVIOUS
  <2>1. l \in DirLba .. DirLba + n - 2
    BY <1>1, <1>3, LbaFacts DEF HasDirectory
  <2> QED BY <1>2, <1>3, <2>1 DEF HasDirectory
<1>5. ASSUME NEW p \in Places(dk) PROVE Before(p, Addr(x))
  <2>1. PICK m \in Lba : \E j \in DOMAIN dk[m].records :
          p = <<m, dk[m].records[j].pos>> /\ m \in Nat
    BY PlaceFacts
  <2>2. PICK j \in DOMAIN dk[m].records : p = <<m, dk[m].records[j].pos>> /\ m \in Nat
    BY <2>1
  <2>3. dk[m].records # <<>>
    BY <2>2
  <2>4. m \in DirLba .. DirLba + n - 1
    BY <1>3, <2>3 DEF HasDirectory
  <2>5. m < l \/ m = l
    BY <1>1, <1>3, <1>4, <2>4, LbaFacts DEF HasDirectory
  <2>6. p[1] = m /\ p[2] = dk[m].records[j].pos /\ Addr(x)[1] = l /\ Addr(x)[2] = x.pos
    BY <2>2 DEF Addr
  <2>7. m = l => dk[m].records[j].pos < x.pos
    BY <1>2, <2>2
  <2> HIDE DEF l
  <2> QED BY <2>5, <2>6, <2>7 DEF Before
<1>6. Passed(dk, Addr(x)) = Places(dk)
  BY <1>5 DEF Passed
<1> QED BY <1>6, RankType

\* A new iterator stands before the first record.
LEMMA StartedOK ==
  ASSUME NEW dk, IsVolume(dk)
  PROVE  /\ StartedAt(DirLba) \in IterType /\ IterOK(dk, StartedAt(DirLba))
         /\ StartedAt(NoLba) \in IterType /\ IterOK(dk, StartedAt(NoLba))
         /\ StartedAt(DirLba).lba = DirLba /\ StartedAt(NoLba).lba = NoLba
         /\ Rank(dk, Addr(StartedAt(DirLba))) = 0
<1>1. ASSUME NEW l \in {DirLba, NoLba}
      PROVE  /\ StartedAt(l) \in IterType /\ StartedAt(l).lba = l
             /\ StartedAt(l).pos = 0 /\ ~StartedAt(l).valid
  <2>1. 0 \in 0 .. SectorSize - 1 /\ 0 \in 0 .. SectorSize
    BY IsoAssumption
  <2>2. l \in Lba \cup {NoLba}
    BY LbaFacts
  <2> QED BY <2>1, <2>2 DEF StartedAt, IterType
<1>2. ASSUME NEW l \in {DirLba, NoLba} PROVE IterOK(dk, StartedAt(l))
  BY <1>1, LbaFacts DEF IterOK, Edge
<1>3. Passed(dk, Addr(StartedAt(DirLba))) = {}
  <2> SUFFICES ASSUME NEW p \in Places(dk), Before(p, <<DirLba, 0>>) PROVE FALSE
    BY <1>1 DEF Passed, Addr
  <2>1. PICK m \in Lba : \E j \in DOMAIN dk[m].records :
          p = <<m, dk[m].records[j].pos>> /\ m \in Nat /\ p[1] = m /\ p[2] \in Nat
    BY PlaceFacts
  <2>2. dk[m].records # <<>>
    BY <2>1
  <2>3. DirLba <= m
    BY <2>2, LbaFacts DEF IsVolume, HasDirectory
  <2> QED BY <2>1, <2>3, LbaFacts DEF Before
<1>4. Rank(dk, Addr(StartedAt(DirLba))) = 0
  BY <1>3, RankType, FS_EmptySet
<1> QED BY <1>1, <1>2, <1>4
-----------------------------------------------------------------------------
\* What an iterator has listed when it stands at q.

ListedTo(dk, q) == [n \in 1 .. Rank(dk, q) |-> Listing(dk)[n]]
Shown(dk, x) == IF x.lba = NoLba THEN <<>> ELSE ListedTo(dk, Addr(x))

\* What was shown up to a place begins the listing, and is all of it at the end.
LEMMA ShownPrefix ==
  ASSUME NEW dk, IsVolume(dk), NEW x
  PROVE  /\ IsPrefix(Shown(dk, x), Listing(dk))
         /\ x.lba # NoLba /\ Rank(dk, Addr(x)) = Cardinality(Places(dk)) =>
              Shown(dk, x) = Listing(dk)
<1> DEFINE r == Rank(dk, Addr(x))
           c == Cardinality(Places(dk))
           s == ListedTo(dk, Addr(x))
           t == Listing(dk)
<1>1. r \in Nat /\ c \in Nat /\ r <= c
  BY RankType, PlacesFinite
<1>2. s = [n \in 1 .. r |-> t[n]]
  BY DEF ListedTo
<1>3. \E X : t \in [1 .. c -> X]
  <2>1. t = [n \in 1 .. c |-> t[n]]
    BY DEF Listing
  <2>2. t \in [1 .. c -> {t[n] : n \in 1 .. c}]
    BY <2>1
  <2> QED BY <2>2
<1> HIDE DEF r, c, s, t
<1>4. PICK X : t \in [1 .. c -> X]
  BY <1>3
<1>5. t \in Seq(X) /\ Len(t) = c
  BY <1>1, <1>4
<1>6. s \in Seq(X) /\ Len(s) = r
  BY <1>1, <1>2, <1>4
<1>7. SubSeq(s, 1, r) = SubSeq(t, 1, r)
  <2>1. SubSeq(s, 1, r) = [n \in 1 .. r |-> s[n]]
    BY <1>1, <1>6
  <2>2. SubSeq(t, 1, r) = [n \in 1 .. r |-> t[n]]
    BY <1>1, <1>5
  <2> QED BY <1>2, <2>1, <2>2
<1>8. IsPrefix(s, t)
  BY <1>1, <1>5, <1>6, <1>7 DEF IsPrefix
<1>9. r = c => s = t
  BY <1>1, <1>2, <1>4
<1>10. IsPrefix(<<>>, t)
  <2>1. SubSeq(<<>>, 1, 0) = <<>> /\ SubSeq(t, 1, 0) = <<>> /\ Len(<<>>) = 0 /\ 0 <= Len(t)
    BY <1>1, <1>5
  <2> QED BY <2>1 DEF IsPrefix
<1> QED BY <1>8, <1>9, <1>10 DEF r, c, s, t, Shown

\* dir_iter_next appends the name of the record it steps over.
LEMMA ShownAppend ==
  ASSUME NEW dk, IsVolume(dk), NEW x \in IterType, x.lba # NoLba, IterOK(dk, x),
         NEW rec, rec = RecordAt(dk[x.lba].records, x.pos), rec # NoRecord
  PROVE  Append(Shown(dk, x), NameOf(rec)) = Shown(dk, Stepped(x, rec))
<1> DEFINE r == Rank(dk, Addr(x))
           t == Listing(dk)
           s == Shown(dk, x)
           u == Shown(dk, Stepped(x, rec))
           e == NameOf(rec)
<1>1. /\ Addr(x) \in Places(dk) /\ NameAt(dk, Addr(x)) = e
      /\ Passed(dk, Addr(Stepped(x, rec))) = Passed(dk, Addr(x)) \cup {Addr(x)}
      /\ Stepped(x, rec).lba # NoLba
  BY SteppedOn
<1>2. Rank(dk, Addr(Stepped(x, rec))) = r + 1
  BY <1>1, RankNext
<1>3. t[r + 1] = e
  BY <1>1, ListingAt
<1>4. r \in Nat
  BY RankType
<1>5. s = [n \in 1 .. r |-> t[n]]
  BY DEF Shown, ListedTo
<1>6. u = [n \in 1 .. r + 1 |-> t[n]]
  BY <1>1, <1>2 DEF Shown, ListedTo
<1> HIDE DEF r, t, s, u, e
<1> DEFINE X == {t[n] : n \in 1 .. r + 1}
<1>7. s \in Seq(X) /\ Len(s) = r
  BY <1>4, <1>5
<1>8. u \in Seq(X) /\ Len(u) = r + 1
  BY <1>4, <1>6
<1>9. e \in X
  BY <1>3, <1>4
<1> HIDE DEF X
<1>10. Append(s, e) \in Seq(X) /\ Len(Append(s, e)) = r + 1
  BY <1>4, <1>7, <1>9
<1>11. \A n \in 1 .. r + 1 : Append(s, e)[n] = u[n]
  BY <1>3, <1>4, <1>5, <1>6, <1>7, <1>9
<1>12. Append(s, e) = u
  BY <1>4, <1>8, <1>10, <1>11
<1> QED BY <1>12 DEF s, u, e

-----------------------------------------------------------------------------
\* The inductive invariant of the driver.

\* Every read gives the caller the sector asked for.
LEMMA ReadsDisk ==
  ASSUME CacheInv, NEW lba
  PROVE  DataRead(diskbuf, lba) = disk[lba]
<1>1. CacheOK(diskbuf)
  BY DEF CacheInv
<1>2. PICK t \in {0, 1} : /\ \A i \in Index : IsTarget(diskbuf, lba, i) <=> i = t
                          /\ Hits(diskbuf, lba) = {} \/ Hits(diskbuf, lba) = {t}
  BY <1>1, OneTarget
<1>3. t \in Index
  BY TwoIndices
<1>4. (CHOOSE i \in Index : IsTarget(diskbuf, lba, i)) = t
  BY <1>2, <1>3
<1>5. Filled(Allocated(diskbuf, lba, t)).data = disk[lba]
  BY <1>1, <1>2, <1>3, TargetFilled
<1> QED BY <1>4, <1>5 DEF DataRead

LbasIn(buf) == \A i \in Used(buf) : buf[i].lba \in Lba

\* A read adds to the cache only the sector it is asked for.
LEMMA ReadLbas ==
  ASSUME NEW buf, CacheOK(buf), LbasIn(buf), NEW lba \in Lba
  PROVE  LbasIn(ReadSector(buf, lba))
<1> DEFINE new == ReadSector(buf, lba)
<1>1. PICK t \in {0, 1} : /\ \A i \in Index : IsTarget(buf, lba, i) <=> i = t
                          /\ Hits(buf, lba) = {} \/ Hits(buf, lba) = {t}
  BY OneTarget
<1>2. t \in Index
  BY TwoIndices
<1>3. /\ \A i \in Index : i # t => new[i] = Aged(buf[i])
      /\ new[t] = Filled(Allocated(buf, lba, t))
  BY <1>1, <1>2 DEF ReadSector
<1>4. new[t].lba = lba
  BY <1>1, <1>2, <1>3, TargetFilled
<1> HIDE DEF new
<1>5. ASSUME NEW i \in Used(new), i # t PROVE new[i].lba \in Lba
  <2>1. i \in Index /\ new[i] = Aged(buf[i]) /\ new[i] # NoEntry
    BY <1>3, <1>5 DEF Used
  <2>2. buf[i] # NoEntry
    BY <2>1 DEF Aged
  <2>3. i \in Used(buf)
    BY <2>1, <2>2 DEF Used
  <2>4. IsEntry(buf[i]) /\ buf[i].lba \in Lba
    BY <2>3 DEF CacheOK, LbasIn
  <2> QED BY <2>1, <2>2, <2>4, OthersAged
<1> QED BY <1>4, <1>5 DEF LbasIn, new

CachePart == CacheInv /\ LbasIn(diskbuf)

\* The descriptors before l let mount go on.
Scanned(dk, l) == \A d \in FirstDesc .. l - 1 : dk[d].kind \in Signed \ {"terminator"}
PrimaryBefore(dk, l) == \E d \in FirstDesc .. l - 1 : dk[d].kind = "primary"

\* A volume that mount has accepted once: its set of descriptors ends, after a
\* primary one.
Accepted(dk) ==
  \E t \in Nat : /\ FirstDesc <= t /\ dk[t].kind = "terminator"
                 /\ Scanned(dk, t) /\ PrimaryBefore(dk, t)

\* mount, also on a mounted volume, knows a primary descriptor exactly if it has
\* passed one; otherwise a mounted volume has one.
MountPart ==
  /\ call.op = "mount" =>
       /\ call.lba \in Lba /\ FirstDesc <= call.lba /\ Scanned(disk, call.lba)
       /\ (primary # NoLba) <=> PrimaryBefore(disk, call.lba)
  /\ mounted => Accepted(disk)
  /\ mounted /\ call.op # "mount" => primary # NoLba

IterPart ==
  /\ \A k \in Iter : IterOK(disk, it[k])
  /\ listed = [k \in Iter |-> Shown(disk, it[k])]
  /\ answer.op = "end" => answer.name[1] \in Iter /\ listed[answer.name[1]] = Listing(disk)

\* A search has passed records that do not match.
LookupPart ==
  call.op = "lookup" =>
    /\ call.it.lba # NoLba /\ IterOK(disk, call.it)
    /\ \A n \in 1 .. Rank(disk, Addr(call.it)) : ~Matches(call.want, Listing(disk)[n])

IInv ==
  /\ IsVolume(disk) /\ TypeOK
  /\ CachePart /\ MountPart /\ IterPart /\ LookupPart

-----------------------------------------------------------------------------
\* The actions.

CallType == [op : {"none", "mount", "lookup"}, lba : Lba \cup {NoLba},
             want : Wanted \cup {<<>>}, it : IterType]

\* Sectors are read only where there are some.
LEMMA ReadsLba ==
  ASSUME IInv
  PROVE  /\ call.op = "mount" => call.lba \in Lba
         /\ call.op = "mount" /\ ~MountFails /\ Descriptor = "terminator" => primary \in Lba
         /\ mounted /\ Idle => primary \in Lba
         /\ \A k \in Iter : it[k].lba # NoLba => it[k].lba \in Lba
         /\ \A k \in Iter : it[k].valid => it[k].lba \in Lba
         /\ call.op = "lookup" => call.it.lba \in Lba
<1>1. primary \in Lba \cup {NoLba}
  BY DEF IInv, TypeOK
<1>2. \A k \in Iter : it[k].lba \in Lba \cup {NoLba} /\ (it[k].valid => it[k].lba # NoLba)
  BY DEF IInv, TypeOK, IterPart, IterOK, IterType
<1>3. call.op = "lookup" => call.it.lba \in Lba
  BY DEF IInv, TypeOK, LookupPart, IterType
<1>4. call.op = "mount" => call.lba \in Lba
  BY DEF IInv, MountPart
<1>5. mounted /\ Idle => primary # NoLba
  BY DEF IInv, MountPart, Idle
<1> QED BY <1>1, <1>2, <1>3, <1>4, <1>5 DEF MountFails

\* The cache keeps its part of the invariant, and nothing writes the disk.
LEMMA CachePartKeeps ==
  ASSUME IInv, [Next]_vars
  PROVE  /\ CachePart' /\ disk' = disk
         /\ \A i \in Used(diskbuf') : /\ diskbuf'[i].lba \in Lba
                                     /\ diskbuf'[i].usage_tag \in 0 .. UsageTagMax
<1>1. CacheInv' /\ disk' = disk
  BY CacheInductive, CacheSteps DEF IInv, CachePart
<1>2. CacheOK(diskbuf) /\ LbasIn(diskbuf)
  BY DEF IInv, CachePart, CacheInv
<1>3. ASSUME NEW l \in Lba PROVE LbasIn(ReadSector(diskbuf, l))
  BY <1>2, ReadLbas
<1>4. ASSUME NEW l \in Lba, NEW m \in Lba PROVE LbasIn(ReadSector(ReadSector(diskbuf, l), m))
  BY <1>2, <1>3, ReadKeeps, ReadLbas
<1>5. LbasIn(diskbuf')
  <2>1. CASE MountStart
    <3>1. LbasIn(Empty)
      BY DEF LbasIn, Used, Empty
    <3> QED BY <2>1, <3>1 DEF MountStart
  <2>2. CASE MountStep
    <3>1. CASE diskbuf' = ReadSector(diskbuf, call.lba)
      BY <1>3, <2>2, <3>1, ReadsLba DEF MountStep
    <3>2. CASE /\ ~MountFails /\ Descriptor = "terminator"
               /\ diskbuf' = ReadSector(ReadSector(diskbuf, call.lba), primary)
      BY <1>4, <2>2, <3>2, ReadsLba DEF MountStep
    <3> QED BY <2>2, <3>1, <3>2 DEF MountStep
  <2>3. CASE Unmount \/ Refused
    BY <1>2, <2>3 DEF Unmount, Refused
  <2>4. CASE RootdirOpen
    BY <1>4, <2>4, ReadsLba, LbaFacts DEF RootdirOpen
  <2>5. CASE GetVolumeInfo
    BY <1>3, <2>5, ReadsLba DEF GetVolumeInfo
  <2>6. ASSUME NEW k \in Iter, IterStart(k) PROVE LbasIn(diskbuf')
    BY <1>2, <2>6 DEF IterStart
  <2>7. ASSUME NEW k \in Iter, IterNext(k) PROVE LbasIn(diskbuf')
    BY <1>3, <2>7, ReadsLba DEF IterNext
  <2>8. ASSUME NEW k \in Iter, GetTimestamp(k) PROVE LbasIn(diskbuf')
    BY <1>3, <2>8, ReadsLba DEF GetTimestamp
  <2>9. ASSUME NEW name, Lookup(name) PROVE LbasIn(diskbuf')
    BY <1>2, <2>9 DEF Lookup
  <2>10. CASE LookupStep
    BY <1>3, <2>10, ReadsLba DEF LookupStep
  <2>11. CASE UNCHANGED vars
    BY <1>2, <2>11 DEF vars
  <2> QED BY <2>1, <2>2, <2>3, <2>4, <2>5, <2>6, <2>7, <2>8, <2>9, <2>10, <2>11 DEF Next, LoopStep
<1>6. \A i \in Used(diskbuf') : diskbuf'[i].usage_tag \in 0 .. UsageTagMax
  BY <1>1 DEF CacheInv, CacheOK, IsEntry, Used
<1> QED BY <1>1, <1>5, <1>6 DEF CachePart, LbasIn, Used

\* What an action that leaves a part's variables alone keeps.
LEMMA MountSame ==
  ASSUME MountPart, disk' = disk, call' = call, primary' = primary, mounted' = mounted
  PROVE  MountPart'
BY DEF MountPart, Scanned, PrimaryBefore, Accepted

\* The same of iterators, if the call does not report the end of a listing.
LEMMA IterSame ==
  ASSUME IterPart, disk' = disk, it' = it, listed' = listed,
         answer' = answer \/ answer'.op # "end"
  PROVE  IterPart'
<1>1. \A k \in Iter : IterOK(disk', it'[k])
  BY DEF IterPart
<1>2. listed' = [k \in Iter |-> Shown(disk', it'[k])]
  BY DEF IterPart
<1>3. answer'.op = "end" => answer'.name[1] \in Iter /\ listed'[answer'.name[1]] = Listing(disk')
  BY DEF IterPart
<1> QED BY <1>1, <1>2, <1>3 DEF IterPart

\* The same of searches, also where one returns.
LEMMA LookupSame ==
  ASSUME LookupPart, disk' = disk, case_sensitive' = case_sensitive,
         call' = call \/ call'.op # "lookup"
  PROVE  LookupPart'
<1>1. \A a, b : Matches(a, b)' <=> Matches(a, b)
  BY DEF Matches
<1> QED BY <1>1 DEF LookupPart, Matches

\* The fields of the calls that start.
LEMMA CallFields ==
  /\ NoCall \in CallType /\ NoCall.op = "none"
  /\ \A l \in Lba : LET c == [NoCall EXCEPT !.op = "mount", !.lba = l] IN
                      c \in CallType /\ c.op = "mount" /\ c.lba = l
  /\ \A name \in Wanted, x \in IterType :
       LET c == [NoCall EXCEPT !.op = "lookup", !.want = name, !.it = x] IN
         c \in CallType /\ c.op = "lookup" /\ c.want = name /\ c.it = x
<1>1. StartedAt(NoLba) \in IterType
  <2>1. 0 \in 0 .. SectorSize - 1 /\ 0 \in 0 .. SectorSize
    BY IsoAssumption
  <2> QED BY <2>1 DEF StartedAt, IterType
<1>2. NoCall = [op |-> "none", lba |-> NoLba, want |-> <<>>, it |-> StartedAt(NoLba)]
  BY DEF NoCall
<1>3. NoCall \in CallType /\ NoCall.op = "none"
  BY <1>1, <1>2 DEF CallType
<1>4. ASSUME NEW l \in Lba
      PROVE  LET c == [NoCall EXCEPT !.op = "mount", !.lba = l] IN
               c \in CallType /\ c.op = "mount" /\ c.lba = l
  BY <1>3 DEF CallType
<1>5. ASSUME NEW name \in Wanted, NEW x \in IterType
      PROVE  LET c == [NoCall EXCEPT !.op = "lookup", !.want = name, !.it = x] IN
               c \in CallType /\ c.op = "lookup" /\ c.want = name /\ c.it = x
  BY <1>3 DEF CallType
<1> QED BY <1>3, <1>4, <1>5

\* What the proofs about actions take from the invariant.
LEMMA InvTypes ==
  ASSUME IInv
  PROVE  /\ mounted \in BOOLEAN /\ primary \in Lba \cup {NoLba} /\ root \in {NoLba, DirLba}
         /\ it \in [Iter -> IterType] /\ call \in CallType
         /\ MountPart /\ IterPart /\ LookupPart /\ IsVolume(disk) /\ CacheInv
BY DEF IInv, TypeOK, CallType, CachePart

\* The parts a step has to keep, once the cache has kept its own.
LEMMA PartsKept ==
  ASSUME IInv, [Next]_vars, case_sensitive' = case_sensitive,
         mounted' \in BOOLEAN, primary' \in Lba \cup {NoLba}, root' \in {NoLba, DirLba},
         it' \in [Iter -> IterType], call' \in CallType,
         MountPart', IterPart', LookupPart'
  PROVE  IInv'
<1>1. /\ CachePart' /\ disk' = disk
      /\ \A i \in Used(diskbuf') : /\ diskbuf'[i].lba \in Lba
                                  /\ diskbuf'[i].usage_tag \in 0 .. UsageTagMax
  BY CachePartKeeps
<1>2. TypeOK'
  <2>1. case_sensitive \in BOOLEAN
    BY DEF IInv, TypeOK
  <2> QED BY <1>1, <2>1 DEF TypeOK, CallType, Used
<1>3. IsVolume(disk')
  BY <1>1, InvTypes
<1> QED BY <1>1, <1>2, <1>3 DEF IInv

\* mount begins before the first descriptor.
LEMMA MountStartKeeps == ASSUME IInv, MountStart PROVE IInv'
<1> USE InvTypes
<1>1. [Next]_vars
  BY DEF Next
<1>2. /\ disk' = disk /\ case_sensitive' = case_sensitive /\ mounted' = mounted
      /\ root' = root /\ it' = it /\ answer' = answer /\ listed' = listed /\ primary' = NoLba
  BY DEF MountStart
<1>3. FirstDesc \in Lba
  BY LbaFacts DEF IsVolume, HasDescriptors
<1>4. call' \in CallType /\ call'.op = "mount" /\ call'.lba = FirstDesc
  BY <1>3, CallFields DEF MountStart
<1>5. MountPart'
  <2>1. FirstDesc .. FirstDesc - 1 = {}
    BY LbaFacts
  <2>2. Scanned(disk', call'.lba) /\ ~PrimaryBefore(disk', call'.lba)
    BY <1>4, <2>1 DEF Scanned, PrimaryBefore
  <2>3. mounted' => Accepted(disk')
    BY <1>2 DEF MountPart
  <2> QED BY <1>2, <1>3, <1>4, <2>2, <2>3, LbaFacts DEF MountPart
<1>6. IterPart' /\ LookupPart'
  BY <1>2, <1>4, IterSame, LookupSame
<1> QED BY <1>1, <1>2, <1>4, <1>5, <1>6, PartsKept

\* mount fails, goes on, or ends with a primary descriptor it has passed.
LEMMA MountStepKeeps == ASSUME IInv, MountStep PROVE IInv'
<1> USE InvTypes
<1> DEFINE l == call.lba
<1>1. [Next]_vars
  BY DEF Next, LoopStep
<1>2. /\ disk' = disk /\ case_sensitive' = case_sensitive /\ root' = root /\ it' = it
      /\ listed' = listed /\ call.op = "mount"
  BY DEF MountStep
<1>3. /\ l \in Lba /\ l \in Nat /\ FirstDesc <= l /\ Scanned(disk, l)
      /\ (primary # NoLba) <=> PrimaryBefore(disk, l)
  BY <1>2, LbaFacts DEF MountPart
<1>4. Descriptor = disk[l].kind
  BY ReadsDisk DEF Descriptor
<1>5. CASE MountFails /\ primary' = primary /\ mounted' = mounted /\ call' = NoCall
           /\ answer'.op = "mount"
  <2>1. ~mounted
    <3> SUFFICES ASSUME mounted PROVE FALSE
      OBVIOUS
    <3>1. PICK t \in Nat : /\ FirstDesc <= t /\ disk[t].kind = "terminator"
                           /\ Scanned(disk, t) /\ PrimaryBefore(disk, t)
      BY DEF MountPart, Accepted
    <3>2. CASE l < t
      <4>1. l \in FirstDesc .. t - 1
        BY <1>3, <3>1, <3>2, LbaFacts
      <4> QED BY <1>4, <1>5, <3>1, <4>1 DEF Scanned, MountFails
    <3>3. CASE l = t
      BY <1>3, <1>4, <1>5, <3>1, <3>3 DEF MountFails, Signed
    <3>4. CASE t < l
      <4>1. t \in FirstDesc .. l - 1
        BY <1>3, <3>1, <3>4, LbaFacts
      <4> QED BY <1>3, <3>1, <4>1 DEF Scanned
    <3> QED BY <1>3, <3>1, <3>2, <3>3, <3>4
  <2>2. call' \in CallType /\ call'.op = "none"
    BY <1>5, CallFields
  <2>3. MountPart'
    BY <1>5, <2>1, <2>2 DEF MountPart
  <2>4. IterPart' /\ LookupPart'
    BY <1>2, <1>5, <2>2, IterSame, LookupSame
  <2> QED BY <1>1, <1>2, <1>5, <2>2, <2>3, <2>4, PartsKept
<1>6. CASE /\ ~MountFails /\ Descriptor # "terminator" /\ primary' = Primary
           /\ call' = [call EXCEPT !.lba = @ + 1] /\ mounted' = mounted /\ answer' = answer
  <2>1. disk[l].kind \in Signed \ {"terminator"}
    BY <1>4, <1>6 DEF MountFails
  <2>2. l + 1 \in Lba
    <3>1. PICK m \in Nat : FirstDesc .. m \subseteq Lba /\ FirstDesc <= m /\ disk[m].kind \notin Signed
      BY DEF IsVolume, HasDescriptors
    <3>2. ~(m < l)
      <4> SUFFICES ASSUME m < l PROVE FALSE
        OBVIOUS
      <4>1. m \in FirstDesc .. l - 1
        BY <1>3, <3>1, LbaFacts
      <4> QED BY <1>3, <3>1, <4>1 DEF Scanned
    <3>3. m # l
      BY <2>1, <3>1
    <3>4. l + 1 \in FirstDesc .. m
      BY <1>3, <3>1, <3>2, <3>3, LbaFacts
    <3> QED BY <3>1, <3>4
  <2>3. call' \in CallType /\ call'.op = "mount" /\ call'.lba = l + 1
    BY <1>2, <1>6, <2>2 DEF CallType
  <2>4. primary' \in Lba \cup {NoLba}
    BY <1>3, <1>6 DEF Primary
  <2>5. MountPart'
    <3>1. FirstDesc .. (l + 1) - 1 = (FirstDesc .. l - 1) \cup {l}
      BY <1>3, LbaFacts
    <3>2. Scanned(disk', call'.lba)
      BY <1>2, <1>3, <2>1, <2>3, <3>1 DEF Scanned
    <3>3. PrimaryBefore(disk', call'.lba) <=> (PrimaryBefore(disk, l) \/ disk[l].kind = "primary")
      BY <1>2, <2>3, <3>1 DEF PrimaryBefore
    <3>4. (primary' # NoLba) <=> (primary # NoLba \/ disk[l].kind = "primary")
      BY <1>3, <1>4, <1>6, LbaFacts DEF Primary
    <3>5. call'.lba \in Lba /\ FirstDesc <= call'.lba
      BY <1>3, <2>2, <2>3, LbaFacts
    <3>6. mounted' => Accepted(disk')
      BY <1>2, <1>6 DEF MountPart
    <3> QED BY <1>3, <2>3, <3>2, <3>3, <3>4, <3>5, <3>6 DEF MountPart
  <2>6. IterPart' /\ LookupPart'
    BY <1>2, <1>6, <2>3, IterSame, LookupSame
  <2> QED BY <1>1, <1>2, <1>6, <2>3, <2>4, <2>5, <2>6, PartsKept
<1>7. CASE /\ ~MountFails /\ Descriptor = "terminator" /\ primary' = primary
           /\ mounted' = TRUE /\ call' = NoCall /\ answer'.op = "mount"
  <2>1. primary # NoLba
    BY <1>7 DEF MountFails
  <2>2. Accepted(disk')
    BY <1>2, <1>3, <1>4, <1>7, <2>1 DEF Accepted
  <2>3. call' \in CallType /\ call'.op = "none"
    BY <1>7, CallFields
  <2>4. MountPart'
    BY <1>7, <2>1, <2>2, <2>3 DEF MountPart
  <2>5. IterPart' /\ LookupPart'
    BY <1>2, <1>7, <2>3, IterSame, LookupSame
  <2> QED BY <1>1, <1>2, <1>7, <2>3, <2>4, <2>5, PartsKept
<1>8. \/ /\ MountFails /\ primary' = primary /\ mounted' = mounted /\ call' = NoCall
         /\ Answer("mount", 1, <<>>)
      \/ /\ ~MountFails /\ Descriptor # "terminator" /\ primary' = Primary
         /\ call' = [call EXCEPT !.lba = @ + 1] /\ mounted' = mounted /\ answer' = answer
      \/ /\ ~MountFails /\ Descriptor = "terminator" /\ primary' = primary
         /\ mounted' = TRUE /\ call' = NoCall /\ Answer("mount", 0, <<>>)
  BY Zenon DEF MountStep
<1>9. \A ret : Answer("mount", ret, <<>>) => answer'.op = "mount"
  BY DEF Answer
<1> QED BY <1>5, <1>6, <1>7, <1>8, <1>9

\* Calls that neither mount nor move an iterator.
LEMMA PlainKeeps ==
  ASSUME IInv, Unmount \/ Refused \/ RootdirOpen \/ GetVolumeInfo
  PROVE  IInv'
<1> USE InvTypes
<1>1. [Next]_vars
  BY DEF Next
<1>2. /\ disk' = disk /\ case_sensitive' = case_sensitive /\ primary' = primary
      /\ it' = it /\ listed' = listed /\ call' = call /\ Idle
      /\ mounted' = mounted \/ mounted' = FALSE
      /\ root' = root \/ root' = DirLba
  BY DEF Unmount, Refused, RootdirOpen, GetVolumeInfo, rest
<1>3. answer'.op # "end"
  BY DEF Unmount, Refused, RootdirOpen, GetVolumeInfo, Answer
<1>4. MountPart'
  <2>1. CASE mounted' = mounted
    BY <1>2, <2>1, MountSame
  <2>2. CASE mounted' = FALSE
    BY <1>2, <2>2 DEF MountPart, Idle
  <2> QED BY <1>2, <2>1, <2>2
<1>5. IterPart' /\ LookupPart'
  BY <1>2, <1>3, IterSame, LookupSame
<1>6. mounted' \in BOOLEAN /\ root' \in {NoLba, DirLba}
  BY <1>2
<1> QED BY <1>1, <1>2, <1>4, <1>5, <1>6, PartsKept

\* The iterators after one of them has moved to y, and shows what it has passed.
LEMMA IterMoves ==
  ASSUME IInv, disk' = disk, NEW k \in Iter, NEW y \in IterType, IterOK(disk, y),
         it' = [it EXCEPT ![k] = y], NEW s, s = Shown(disk, y),
         listed' = [listed EXCEPT ![k] = s], answer'.op # "end"
  PROVE  it' \in [Iter -> IterType] /\ IterPart'
<1>1. it \in [Iter -> IterType] /\ IterPart
  BY InvTypes
<1>2. it' \in [Iter -> IterType] /\ \A j \in Iter : it'[j] = IF j = k THEN y ELSE it[j]
  BY <1>1
<1>3. \A j \in Iter : IterOK(disk', it'[j])
  BY <1>1, <1>2 DEF IterPart
<1>4. listed' = [j \in Iter |-> Shown(disk', it'[j])]
  <2>1. listed = [j \in Iter |-> Shown(disk, it[j])]
    BY <1>1 DEF IterPart
  <2>2. listed' = [j \in Iter |-> IF j = k THEN s ELSE Shown(disk, it[j])]
    BY <2>1
  <2>3. \A j \in Iter : (IF j = k THEN s ELSE Shown(disk, it[j])) = Shown(disk', it'[j])
    BY <1>2
  <2> QED BY <2>2, <2>3
<1> QED BY <1>2, <1>3, <1>4 DEF IterPart

\* dir_iter_start: nothing is listed.
LEMMA IterStartKeeps == ASSUME IInv, NEW k \in Iter, IterStart(k) PROVE IInv'
<1> USE InvTypes
<1>1. [Next]_vars
  BY DEF Next
<1>2. /\ disk' = disk /\ case_sensitive' = case_sensitive /\ primary' = primary
      /\ mounted' = mounted /\ root' = root /\ call' = call /\ root = DirLba
      /\ answer'.op # "end"
      /\ it' = [it EXCEPT ![k] = StartedAt(DirLba)]
      /\ listed' = [listed EXCEPT ![k] = <<>>]
  BY DEF IterStart, Answer
<1>3. /\ StartedAt(DirLba) \in IterType /\ IterOK(disk, StartedAt(DirLba))
      /\ StartedAt(DirLba).lba = DirLba /\ Rank(disk, Addr(StartedAt(DirLba))) = 0
  BY StartedOK
<1>4. <<>> = Shown(disk, StartedAt(DirLba))
  BY <1>3, LbaFacts DEF Shown, ListedTo
<1>5. it' \in [Iter -> IterType] /\ IterPart'
  BY <1>2, <1>3, <1>4, IterMoves
<1> QED BY <1>1, <1>2, <1>5, MountSame, LookupSame, PartsKept

\* The record an iterator stands before is that on the disk.
LEMMA AheadThere ==
  ASSUME CacheInv, NEW x
  PROVE  Ahead(x) = RecordAt(disk[x.lba].records, x.pos)
BY ReadsDisk DEF Ahead

\* dir_iter_next: the next record is listed, or there is none.
LEMMA IterNextKeeps == ASSUME IInv, NEW k \in Iter, IterNext(k) PROVE IInv'
<1> USE InvTypes
<1> DEFINE x == it[k]
           r == Ahead(x)
<1>1. [Next]_vars
  BY DEF Next
<1>2. /\ disk' = disk /\ case_sensitive' = case_sensitive /\ primary' = primary
      /\ mounted' = mounted /\ root' = root /\ call' = call /\ x.lba # NoLba
  BY DEF IterNext
<1>3. MountPart' /\ LookupPart'
  BY <1>2, MountSame, LookupSame
<1>4. x \in IterType /\ IterOK(disk, x) /\ r = RecordAt(disk[x.lba].records, x.pos)
  BY AheadThere DEF IterPart
<1>5. CASE r = NoRecord
  <2>1. it' = it /\ listed' = listed /\ answer' = [op |-> "end", ret |-> 1, name |-> <<k>>]
    BY <1>5 DEF IterNext, Answer
  <2>2. Rank(disk, Addr(x)) = Cardinality(Places(disk))
    BY <1>2, <1>4, <1>5, NothingAhead
  <2>3. listed[k] = Listing(disk)
    <3>1. listed[k] = Shown(disk, x)
      BY DEF IterPart
    <3> QED BY <1>2, <2>2, <3>1, ShownPrefix
  <2>4. answer'.op = "end" /\ answer'.name[1] = k
    BY <2>1
  <2>5. IterPart'
    <3>1. \A j \in Iter : IterOK(disk', it'[j])
      BY <1>2, <2>1 DEF IterPart
    <3>2. listed' = [j \in Iter |-> Shown(disk', it'[j])]
      BY <1>2, <2>1 DEF IterPart
    <3>3. listed'[answer'.name[1]] = Listing(disk')
      BY <1>2, <2>1, <2>3, <2>4
    <3> QED BY <2>4, <3>1, <3>2, <3>3 DEF IterPart
  <2> QED BY <1>1, <1>2, <1>3, <2>1, <2>5, PartsKept
<1>6. CASE r # NoRecord
  <2>1. it' = [it EXCEPT ![k] = Stepped(x, r)]
    BY <1>6 DEF IterNext
  <2>2. answer'.op = "next"
    BY <1>6 DEF IterNext, Answer
  <2>3. listed' = [listed EXCEPT ![k] = Append(listed[k], NameOf(r))]
    BY <1>6 DEF IterNext
  <2>4. Append(listed[k], NameOf(r)) = Shown(disk, Stepped(x, r))
    <3>1. listed[k] = Shown(disk, x)
      BY DEF IterPart
    <3> QED BY <1>2, <1>4, <1>6, <3>1, ShownAppend
  <2>5. Stepped(x, r) \in IterType /\ IterOK(disk, Stepped(x, r))
    BY <1>2, <1>4, <1>6, SteppedOn
  <2>6. it' \in [Iter -> IterType] /\ IterPart'
    BY <1>2, <2>1, <2>2, <2>3, <2>4, <2>5, IterMoves
  <2> QED BY <1>1, <1>2, <1>3, <2>6, PartsKept
<1> QED BY <1>5, <1>6

\* dir_iter_get_timestamp moves nothing.
LEMMA GetTimestampKeeps == ASSUME IInv, NEW k \in Iter, GetTimestamp(k) PROVE IInv'
<1> USE InvTypes
<1>1. [Next]_vars
  BY DEF Next
<1>2. /\ disk' = disk /\ case_sensitive' = case_sensitive /\ primary' = primary
      /\ mounted' = mounted /\ root' = root /\ call' = call /\ it' = it /\ listed' = listed
      /\ answer'.op = "timestamp"
  BY DEF GetTimestamp, Answer, rest
<1> QED BY <1>1, <1>2, MountSame, IterSame, LookupSame, PartsKept

\* match_name begins before the first record.
LEMMA LookupKeeps == ASSUME IInv, NEW name \in Wanted, Lookup(name) PROVE IInv'
<1> USE InvTypes
<1>1. [Next]_vars
  BY DEF Next
<1>2. /\ disk' = disk /\ case_sensitive' = case_sensitive /\ primary' = primary
      /\ mounted' = mounted /\ root' = root /\ root = DirLba /\ it' = it /\ listed' = listed
      /\ answer' = answer /\ Idle
  BY DEF Lookup, rest
<1>3. /\ StartedAt(DirLba) \in IterType /\ IterOK(disk, StartedAt(DirLba))
      /\ StartedAt(DirLba).lba = DirLba /\ Rank(disk, Addr(StartedAt(DirLba))) = 0
  BY StartedOK
<1>4. call' \in CallType /\ call'.op = "lookup" /\ call'.it = StartedAt(DirLba)
  <2>1. call' = [NoCall EXCEPT !.op = "lookup", !.want = name, !.it = StartedAt(root)]
    BY Zenon DEF Lookup
  <2>2. StartedAt(root) = StartedAt(DirLba)
    BY <1>2
  <2>3. StartedAt(root) \in IterType
    BY <1>3, <2>2
  <2>4. \A y \in IterType :
          LET c == [NoCall EXCEPT !.op = "lookup", !.want = name, !.it = y] IN
            c \in CallType /\ c.op = "lookup" /\ c.want = name /\ c.it = y
    BY CallFields, Zenon
  <2> DEFINE c == [NoCall EXCEPT !.op = "lookup", !.want = name, !.it = StartedAt(root)]
  <2>5. c \in CallType /\ c.op = "lookup" /\ c.it = StartedAt(root)
    BY <2>3, <2>4, Zenon
  <2> HIDE DEF c
  <2> QED BY <2>1, <2>2, <2>5 DEF c
<1>5. MountPart'
  BY <1>2, <1>4 DEF MountPart, Idle, Accepted, Scanned, PrimaryBefore
<1>6. LookupPart'
  BY <1>2, <1>3, <1>4, LbaFacts DEF LookupPart
<1> QED BY <1>1, <1>2, <1>4, <1>5, <1>6, IterSame, PartsKept

\* A search that returns, as every call that does.
LEMMA LookupReturns ==
  ASSUME IInv, LookupStep, call' = NoCall, answer'.op = "lookup"
  PROVE  IInv'
<1> USE InvTypes
<1>1. [Next]_vars
  BY DEF Next, LoopStep
<1>2. /\ disk' = disk /\ case_sensitive' = case_sensitive /\ primary' = primary
      /\ mounted' = mounted /\ root' = root /\ it' = it /\ listed' = listed
      /\ call.op = "lookup"
  BY DEF LookupStep, rest
<1>3. call' \in CallType /\ call'.op = "none"
  BY CallFields
<1>4. MountPart'
  BY <1>2, <1>3 DEF MountPart, Accepted, Scanned, PrimaryBefore
<1> QED BY <1>1, <1>2, <1>3, <1>4, IterSame, LookupSame, PartsKept

\* A search that passes a record has compared its name.
LEMMA LookupStepKeeps == ASSUME IInv, LookupStep PROVE IInv'
<1> USE InvTypes
<1> DEFINE x == call.it
           r == Ahead(x)
<1>1. [Next]_vars
  BY DEF Next, LoopStep
<1>2. /\ disk' = disk /\ case_sensitive' = case_sensitive /\ primary' = primary
      /\ mounted' = mounted /\ root' = root /\ it' = it /\ listed' = listed
      /\ call.op = "lookup"
  BY DEF LookupStep, rest
<1>3. /\ x \in IterType /\ x.lba # NoLba /\ IterOK(disk, x)
      /\ r = RecordAt(disk[x.lba].records, x.pos)
  BY <1>2, AheadThere DEF LookupPart, CallType
<1>4. CASE r = NoRecord \/ Matches(call.want, NameOf(r))
  <2>1. call' = NoCall /\ \E ret, name : Answer("lookup", ret, name)
    BY <1>4, Zenon DEF LookupStep
  <2>2. answer'.op = "lookup"
    BY <2>1 DEF Answer
  <2> QED BY <2>1, <2>2, LookupReturns
<1>5. CASE r # NoRecord /\ ~Matches(call.want, NameOf(r))
  <2> DEFINE y == Stepped(x, r)
  <2>1. call' = [call EXCEPT !.it = y] /\ answer' = answer
    BY <1>5 DEF LookupStep
  <2>2. /\ y \in IterType /\ y.lba # NoLba /\ IterOK(disk, y)
        /\ Addr(x) \in Places(disk) /\ NameAt(disk, Addr(x)) = NameOf(r)
        /\ Passed(disk, Addr(y)) = Passed(disk, Addr(x)) \cup {Addr(x)}
    BY <1>3, <1>5, SteppedOn
  <2> HIDE DEF y, r
  <2>3. /\ call' \in CallType /\ call'.op = "lookup" /\ call'.it = y /\ call'.want = call.want
    BY <1>2, <2>1, <2>2 DEF CallType
  <2>4. /\ Rank(disk, Addr(y)) = Rank(disk, Addr(x)) + 1 /\ Rank(disk, Addr(x)) \in Nat
        /\ Listing(disk)[Rank(disk, Addr(x)) + 1] = NameOf(r)
    BY <2>2, RankNext, RankType, ListingAt
  <2>5. \A n \in 1 .. Rank(disk, Addr(x)) : ~Matches(call.want, Listing(disk)[n])
    BY <1>2 DEF LookupPart
  <2>6. ASSUME NEW n \in 1 .. Rank(disk, Addr(y)) PROVE ~Matches(call.want, Listing(disk)[n])
    <3>1. n \in 1 .. Rank(disk, Addr(x)) \/ n = Rank(disk, Addr(x)) + 1
      BY <2>4
    <3> QED BY <1>5, <2>4, <2>5, <3>1
  <2>7. LookupPart'
    <3>1. ASSUME NEW n \in 1 .. Rank(disk, Addr(y)) PROVE ~Matches(call.want, Listing(disk)[n])'
      BY <1>2, <2>3, <2>6 DEF Matches
    <3> QED BY <1>2, <2>2, <2>3, <3>1 DEF LookupPart
  <2>8. MountPart'
    BY <1>2, <2>3 DEF MountPart, Accepted, Scanned, PrimaryBefore
  <2> QED BY <1>1, <1>2, <2>1, <2>3, <2>7, <2>8, IterSame, PartsKept
<1> QED BY <1>4, <1>5

\* A mastered volume, nothing read and nothing listed.
LEMMA InitIInv == ASSUME Packed PROVE Init => IInv
<1> SUFFICES ASSUME Init PROVE IInv
  OBVIOUS
<1>1. PICK descs \in DescSets, dir \in Directories : disk = DiskOf(descs, dir)
  BY DEF Init
<1>2. IsVolume(disk)
  BY <1>1, MasteredVolume
<1>3. /\ case_sensitive \in BOOLEAN /\ diskbuf = Empty /\ mounted = FALSE /\ primary = NoLba
      /\ root = NoLba /\ it = [k \in Iter |-> StartedAt(NoLba)] /\ call = NoCall
      /\ answer.op # "end" /\ listed = [k \in Iter |-> <<>>]
  BY DEF Init
<1>4. Used(diskbuf) = {}
  BY <1>3 DEF Used, Empty
<1>5. /\ StartedAt(NoLba) \in IterType /\ IterOK(disk, StartedAt(NoLba))
      /\ StartedAt(NoLba).lba = NoLba
  BY <1>2, StartedOK
<1>6. TypeOK
  BY <1>3, <1>4, <1>5, CallFields DEF TypeOK, CallType
<1>7. CachePart
  BY <1>3, <1>4, EmptyOK DEF CachePart, CacheInv, LbasIn
<1>8. MountPart /\ LookupPart
  BY <1>3, CallFields DEF MountPart, LookupPart
<1>9. IterPart
  BY <1>3, <1>5 DEF IterPart, Shown
<1> QED BY <1>2, <1>6, <1>7, <1>8, <1>9 DEF IInv

\* Every action keeps the invariant.
LEMMA NextIInv == IInv /\ [Next]_vars => IInv'
<1> SUFFICES ASSUME IInv, [Next]_vars PROVE IInv'
  OBVIOUS
<1>1. CASE UNCHANGED vars
  <2>1. /\ disk' = disk /\ case_sensitive' = case_sensitive /\ primary' = primary
        /\ mounted' = mounted /\ root' = root /\ it' = it /\ listed' = listed
        /\ call' = call /\ answer' = answer
    BY <1>1 DEF vars
  <2> QED BY <2>1, InvTypes, MountSame, IterSame, LookupSame, PartsKept
<1>2. CASE MountStart
  BY <1>2, MountStartKeeps
<1>3. CASE Unmount \/ Refused \/ RootdirOpen \/ GetVolumeInfo
  BY <1>3, PlainKeeps
<1>4. ASSUME NEW k \in Iter, IterStart(k) \/ IterNext(k) \/ GetTimestamp(k) PROVE IInv'
  BY <1>4, IterStartKeeps, IterNextKeeps, GetTimestampKeeps
<1>5. ASSUME NEW name \in Wanted, Lookup(name) PROVE IInv'
  BY <1>5, LookupKeeps
<1>6. CASE LoopStep
  BY <1>6, MountStepKeeps, LookupStepKeeps DEF LoopStep
<1> QED BY <1>1, <1>2, <1>3, <1>4, <1>5, <1>6 DEF Next

\* The invariant holds throughout.
LEMMA SpecIInv == ASSUME Packed PROVE Spec => []IInv
<1>1. Init => IInv
  BY InitIInv
<1> QED BY <1>1, NextIInv, PTL DEF Spec
-----------------------------------------------------------------------------
\* The theorems.

\* Iterators stand in sectors of the volume and inside them, and the cache is
\* asked for no other sector.
THEOREM IsoTyped ==
  ASSUME Packed
  PROVE  Spec => []TypeOK
<1>1. IInv => TypeOK
  BY DEF IInv
<1> QED BY <1>1, SpecIInv, PTL

\* dir_iter_next shows every iterator each record once and in order, whatever
\* the others read in between, and ends only after the last (iso9660.c:394).
THEOREM IsoListingComplete ==
  ASSUME Packed
  PROVE  Spec => []ListsAll
<1>1. IInv => ListsAll
  <2> SUFFICES ASSUME IInv PROVE ListsAll
    OBVIOUS
  <2>1. IsVolume(disk) /\ listed = [k \in Iter |-> Shown(disk, it[k])]
    BY InvTypes DEF IterPart
  <2>2. \A k \in Iter : IsPrefix(listed[k], Listing(disk))
    BY <2>1, ShownPrefix
  <2>3. answer.op = "end" => listed[answer.name[1]] = Listing(disk)
    BY InvTypes DEF IterPart
  <2> QED BY <2>2, <2>3 DEF ListsAll
<1> QED BY <1>1, SpecIInv, PTL

\* Nothing in the listing matches: no name is found.
LEMMA FindsNone ==
  ASSUME NEW dk, NEW want,
         \A n \in 1 .. Cardinality(Places(dk)) : ~Matches(want, Listing(dk)[n])
  PROVE  Finds(Listing(dk), want) = {}
<1>1. DOMAIN Listing(dk) = 1 .. Cardinality(Places(dk))
  BY DEF Listing
<1> QED BY <1>1 DEF Finds

\* The first match in the listing is the name found.
LEMMA FindsFirst ==
  ASSUME NEW dk, IsVolume(dk), NEW want, NEW r \in Nat, r + 1 \in 1 .. Cardinality(Places(dk)),
         \A n \in 1 .. r : ~Matches(want, Listing(dk)[n]),
         Matches(want, Listing(dk)[r + 1])
  PROVE  Finds(Listing(dk), want) # {} /\ FirstFind(Listing(dk), want) = r + 1
<1> DEFINE all == Listing(dk)
<1>1. DOMAIN all = 1 .. Cardinality(Places(dk)) /\ Cardinality(Places(dk)) \in Nat
  BY PlacesFinite DEF Listing
<1> HIDE DEF all
<1>2. r + 1 \in Finds(all, want)
  BY <1>1 DEF Finds, all
<1>3. \A n \in Finds(all, want) : n \in Nat /\ r + 1 <= n
  <2> SUFFICES ASSUME NEW n \in Finds(all, want) PROVE n \in Nat /\ r + 1 <= n
    OBVIOUS
  <2>1. n \in 1 .. Cardinality(Places(dk)) /\ Matches(want, all[n])
    BY <1>1 DEF Finds
  <2>2. n \notin 1 .. r
    BY <2>1 DEF all
  <2> QED BY <1>1, <2>1, <2>2
<1>4. \A n \in Finds(all, want) : (\A m \in Finds(all, want) : n <= m) => n = r + 1
  BY <1>2, <1>3
<1>5. FirstFind(all, want) = r + 1
  BY <1>2, <1>3, <1>4 DEF FirstFind
<1> QED BY <1>2, <1>5 DEF all

\* The step in which a search returns.
LEMMA SearchReturns ==
  ASSUME IInv, Next, call.op = "lookup", Idle'
  PROVE  IF Finds(Listing(disk), call.want) = {} THEN answer'.ret = 1
         ELSE /\ answer'.ret = 0
              /\ answer'.name = Listing(disk)[FirstFind(Listing(disk), call.want)]
<1> USE InvTypes
<1> DEFINE x == call.it
           r == Ahead(x)
<1>1. LookupStep
  BY DEF Next, LoopStep, Idle, MountStart, MountStep, Unmount, Refused, RootdirOpen, GetVolumeInfo,
         IterStart, IterNext, GetTimestamp, Lookup
<1>2. /\ x \in IterType /\ x.lba # NoLba /\ IterOK(disk, x)
      /\ r = RecordAt(disk[x.lba].records, x.pos)
      /\ \A n \in 1 .. Rank(disk, Addr(x)) : ~Matches(call.want, Listing(disk)[n])
  BY AheadThere DEF LookupPart, CallType
<1>3. CASE r = NoRecord
  <2>1. Rank(disk, Addr(x)) = Cardinality(Places(disk))
    BY <1>2, <1>3, NothingAhead
  <2>2. Finds(Listing(disk), call.want) = {}
    BY <1>2, <2>1, FindsNone
  <2>3. answer'.ret = 1
    BY <1>1, <1>3 DEF LookupStep, Answer
  <2> QED BY <2>2, <2>3
<1>4. CASE r # NoRecord /\ Matches(call.want, NameOf(r))
  <2> DEFINE n == Rank(disk, Addr(x))
  <2>1. /\ Addr(x) \in Places(disk) /\ NameAt(disk, Addr(x)) = NameOf(r)
        /\ Passed(disk, Addr(Stepped(x, r))) = Passed(disk, Addr(x)) \cup {Addr(x)}
    BY <1>2, <1>4, SteppedOn
  <2>2. /\ n \in Nat /\ n + 1 \in 1 .. Cardinality(Places(disk))
        /\ Listing(disk)[n + 1] = NameOf(r)
    BY <2>1, RankType, ListingAt
  <2>3. /\ Finds(Listing(disk), call.want) # {}
        /\ FirstFind(Listing(disk), call.want) = n + 1
    BY <1>2, <1>4, <2>2, FindsFirst
  <2>4. answer'.ret = 0 /\ answer'.name = NameOf(r)
    BY <1>1, <1>4 DEF LookupStep, Answer
  <2> QED BY <2>2, <2>3, <2>4
<1>5. CASE r # NoRecord /\ ~Matches(call.want, NameOf(r))
  <2>1. call' = [call EXCEPT !.it = Stepped(x, r)]
    BY <1>1, <1>5 DEF LookupStep
  <2>2. call'.op = "lookup"
    BY <2>1 DEF CallType
  <2> QED BY <2>2 DEF Idle
<1> QED BY <1>3, <1>4, <1>5

\* A search finds a name exactly if a listing shows it, and of two records that
\* match the first (match_name, iso9660.c:571).
THEOREM IsoSearchMatchesListing ==
  ASSUME Packed
  PROVE  Spec => LookupExact
<1> DEFINE Exact ==
      call.op = "lookup" /\ Idle' =>
        LET all == Listing(disk)
        IN  IF Finds(all, call.want) = {} THEN answer'.ret = 1
            ELSE answer'.ret = 0 /\ answer'.name = all[FirstFind(all, call.want)]
<1>1. ASSUME IInv, [Next]_vars PROVE [Exact]_vars
  BY <1>1, SearchReturns
<1>2. LookupExact <=> [][Exact]_vars
  BY DEF LookupExact
<1> HIDE DEF Exact
<1> QED BY <1>1, <1>2, SpecIInv, PTL DEF Spec

\* The timestamp an iterator gives is that of the record it shows, unless that
\* record ended its sector (iso9660.c:537).
THEOREM TimestampsOwn ==
  ASSUME Packed
  PROVE  Spec => TimestampOwn
<1> DEFINE Own(k) == answer'.op = "timestamp" /\ GetTimestamp(k) /\ it[k].pos # 0 =>
                       answer'.name = <<it[k].cur.owner>>
           AllOwn == \A k \in Iter : Own(k)
<1>1. ASSUME IInv, NEW k \in Iter, GetTimestamp(k), it[k].pos # 0
      PROVE  answer'.name = <<it[k].cur.owner>>
  <2> DEFINE x == it[k]
             rs == disk[x.lba].records
  <2>0. /\ it \in [Iter -> IterType] /\ IterPart /\ IsVolume(disk) /\ CacheInv
    BY <1>1, InvTypes
  <2>1. x \in IterType /\ IterOK(disk, x) /\ x.valid /\ x.lba # NoLba /\ x.lba \in Lba
    BY <1>1, <2>0 DEF IterPart, IterOK, GetTimestamp, IterType
  <2>2. IsSector(rs)
    BY <2>0, <2>1 DEF IsVolume, HasDirectory
  <2>3. PICK n \in DOMAIN rs : x.cur = rs[n] /\ x.prev = x.cur.size /\ x.pos = RecordEnd(x.cur)
    BY <1>1, <2>1 DEF IterOK
  <2>4. /\ x.cur.pos \in Nat /\ x.cur.size \in Nat /\ x.cur # NoRecord
        /\ RecordAt(rs, x.cur.pos) = x.cur
    <3> HIDE DEF rs, x
    <3>1. rs[n].pos \in Nat /\ rs[n].size \in Nat /\ rs[n] # NoRecord
      BY <2>2, <2>3, RecordFacts
    <3>2. RecordAt(rs, rs[n].pos) = rs[n]
      BY <2>2, <2>3, RecordThere
    <3> QED BY <2>3, <3>1, <3>2
  <2>5. ~(x.pos < x.prev) /\ x.pos - x.prev = x.cur.pos
    BY <2>3, <2>4 DEF RecordEnd
  <2>6. Stamped(x, rs) = {x.cur.owner}
    BY <2>4, <2>5 DEF Stamped
  <2>7. DataRead(diskbuf, x.lba).records = rs
    BY <2>0, ReadsDisk
  <2>8. PICK owner \in Stamped(x, rs) :
          Answer("timestamp", IF owner = Nobody THEN 1 ELSE 0, <<owner>>)
    BY <1>1, <2>7 DEF GetTimestamp
  <2> QED BY <2>6, <2>8 DEF Answer
<1>2. ASSUME IInv, [Next]_vars PROVE [AllOwn]_vars
  BY <1>1, <1>2
<1>3. TimestampOwn <=> [][AllOwn]_vars
  BY DEF TimestampOwn
<1> HIDE DEF AllOwn
<1> QED BY <1>2, <1>3, SpecIInv, PTL DEF Spec
=============================================================================
