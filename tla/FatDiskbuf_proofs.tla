-------------------------- MODULE FatDiskbuf_proofs --------------------------
(***************************************************************************)
(* Theorems about the block cache, for any number of entries from two on,  *)
(* any geometry, any range of usage tags and, where not said otherwise,    *)
(* drives that transfer less than they are asked for.                      *)
(***************************************************************************)
EXTENDS FatDiskbufRecency, FatDiskbufRoom, SequenceTheorems, TLAPS

-----------------------------------------------------------------------------
\* Types.

\* The sectors of a block are in the volume.
LEMMA BlockFacts ==
  ASSUME NEW b \in Block
  PROVE  /\ Span(b) \subseteq Offsets
         /\ \A o \in Span(b) : LbaOf(b, o) \in Lba
<1>1. 0 \in Offsets
  BY GeometryAssumption, SMT DEF Offsets
<1>2. Span(b) \subseteq Offsets
  BY <1>1 DEF Span
<1>3. \A o \in Span(b) : LbaOf(b, o) \in Lba
  BY DEF Lba
<1> QED BY <1>2, <1>3

\* A filled entry is an entry.
LEMMA FilledType ==
  ASSUME NEW e \in Entry, NEW n, NEW d \in [Lba -> Datum]
  PROVE  /\ Filled(e, n, d) \in Entry
         /\ Filled(e, n, d).block = e.block
         /\ Filled(e, n, d).usage_tag = e.usage_tag
         /\ Filled(e, n, d).dirty = e.dirty
         /\ Filled(e, n, d).data_valid
<1>1. e.block \in Block /\ e.data \in [Offsets -> Datum]
  BY DEF Entry
<1>2. ReadInto(e.data, e.block, n, d) \in [Offsets -> Datum]
  BY <1>1, BlockFacts DEF ReadInto
<1> QED BY <1>1, <1>2 DEF Filled, Entry

\* An aged entry is an entry.
LEMMA AgedType ==
  ASSUME NEW e \in Entry
  PROVE  /\ Aged(e) \in Entry
         /\ Aged(e).block = e.block /\ Aged(e).data = e.data
         /\ Aged(e).dirty = e.dirty /\ Aged(e).data_valid = e.data_valid
         /\ Aged(e).usage_tag < UsageTagMax
<1>1. e # NoEntry
  BY NoEntryAssumption
<1>2. e.usage_tag \in 0 .. UsageTagMax
  BY DEF Entry
<1> DEFINE tag == IF e.usage_tag > 0 THEN e.usage_tag - 1 ELSE 0
<1>3. tag \in 0 .. UsageTagMax /\ tag < UsageTagMax
  BY <1>2, DiskbufAssumption, SMT
<1>4. Aged(e) = [e EXCEPT !.usage_tag = tag]
  BY <1>1 DEF Aged
<1> HIDE DEF tag
<1> QED BY <1>3, <1>4 DEF Entry

\* A new entry is an entry.
LEMMA NewEntryType ==
  ASSUME NEW b \in Block, NEW data \in [Offsets -> Datum]
  PROVE  NewEntry(b, data) \in Entry
BY DiskbufAssumption, SMT DEF NewEntry, Entry

\* An allocated entry is an entry.
LEMMA AllocatedType ==
  ASSUME TypeOK, NEW b \in Block, NEW i \in Index, IsTarget(b, i)
  PROVE  /\ Allocated(b, i) \in Entry
         /\ Allocated(b, i).block = b
         /\ Allocated(b, i).usage_tag = UsageTagMax
<1>1. CASE IsCached(b, i)
  <2>1. diskbuf[i] \in Entry /\ diskbuf[i].block = b
    BY <1>1 DEF IsCached, Hits, Used, TypeOK
  <2>2. Allocated(b, i) = [diskbuf[i] EXCEPT !.usage_tag = UsageTagMax]
    BY <1>1 DEF Allocated
  <2>3. UsageTagMax \in 0 .. UsageTagMax
    BY DiskbufAssumption, SMT
  <2> QED BY <2>1, <2>2, <2>3 DEF Entry
<1>2. CASE ~IsCached(b, i)
  <2>1. Malloc \in [Offsets -> Datum]
    BY DEF Malloc, Datum
  <2>2. ASSUME i \in Used PROVE Realloc(diskbuf[i], b) \in [Offsets -> Datum]
    <3>1. diskbuf[i] \in Entry
      BY <2>2 DEF Used, TypeOK
    <3> QED BY <3>1 DEF Realloc, Entry, Datum
  <2> DEFINE data == IF i \in Used THEN Realloc(diskbuf[i], b) ELSE Malloc
  <2>3. data \in [Offsets -> Datum]
    BY <2>1, <2>2
  <2>4. Allocated(b, i) = NewEntry(b, data)
    BY <1>2 DEF Allocated
  <2> HIDE DEF data
  <2> QED BY <2>3, <2>4, NewEntryType DEF NewEntry
<1> QED BY <1>1, <1>2

\* A flush leaves a drive.
LEMMA FlushType ==
  ASSUME TypeOK, NEW b \in Block, NEW i \in Index, Flush(b, i)
  PROVE  disk' \in [Lba -> Datum]
<1>1. CASE IsRealloc(b, i) /\ diskbuf[i].dirty
  <2>1. PICK n : disk' = WrittenBack(diskbuf[i], n)
    BY <1>1 DEF Flush
  <2>2. diskbuf[i] \in Entry
    BY <1>1 DEF IsRealloc, Free, TypeOK
  <2> DEFINE e == diskbuf[i]
  <2>3. ASSUME NEW l \in Lba, \E o \in Span(e.block) : o < n /\ LbaOf(e.block, o) = l
        PROVE  e.data[CHOOSE o \in Span(e.block) : LbaOf(e.block, o) = l] \in Datum
    <3>1. (CHOOSE o \in Span(e.block) : LbaOf(e.block, o) = l) \in Span(e.block)
      BY <2>3
    <3>2. Span(e.block) \subseteq Offsets /\ e.data \in [Offsets -> Datum]
      BY <2>2, BlockFacts DEF Entry
    <3> QED BY <3>1, <3>2
  <2> QED BY <2>1, <2>3 DEF WrittenBack, TypeOK
<1>2. CASE ~(IsRealloc(b, i) /\ diskbuf[i].dirty)
  BY <1>2 DEF Flush, TypeOK
<1> QED BY <1>1, <1>2

\* An overwritten entry is an entry.
LEMMA OverwriteType ==
  ASSUME NEW e \in Entry, NEW values \in [Span(e.block) -> Value]
  PROVE  /\ Overwrite(e, values) \in Entry
         /\ Overwrite(e, values).block = e.block
         /\ Overwrite(e, values).usage_tag = e.usage_tag
<1> DEFINE data == [o \in Offsets |-> IF o \in Span(e.block) THEN values[o] ELSE e.data[o]]
<1>1. data \in [Offsets -> Datum]
  BY DEF Entry, Datum
<1>2. Overwrite(e, values) = [e EXCEPT !.data = data, !.dirty = TRUE]
  BY DEF Overwrite
<1> HIDE DEF data
<1> QED BY <1>1, <1>2 DEF Entry

\* An access leaves the state typed.
LEMMA SettleType ==
  ASSUME TypeOK, NEW i \in Index, NEW e \in Entry, Settle(i, e)
  PROVE  /\ diskbuf' \in [Index -> Entry \cup {NoEntry}]
         /\ (held \in Used \cup {NoEntry})'
<1>1. \A j \in Index : Aged(diskbuf[j]) \in Entry \cup {NoEntry}
  BY AgedType DEF TypeOK, Aged
<1>2. diskbuf' \in [Index -> Entry \cup {NoEntry}]
  BY <1>1 DEF Settle
<1>3. held' = i /\ diskbuf'[i] = e
  BY DEF Settle
<1>4. e # NoEntry
  BY NoEntryAssumption
<1> QED BY <1>2, <1>3, <1>4 DEF Used

\* Every variable keeps its type: in particular a usage tag stays within its
\* 13 bits, and the entry index a caller holds never names a NULL entry.
THEOREM TypeCorrect == Spec => []TypeOK
<1>1. Init => TypeOK
  BY DEF Init, TypeOK, Datum
<1>2. TypeOK /\ [Next]_vars => TypeOK'
  <2> SUFFICES ASSUME TypeOK, [Next]_vars PROVE TypeOK'
    OBVIOUS
  <2>1. CASE Mount
    <3>1. \A n : BootEntry(n) \in Entry /\ (Fat32 => FsinfoEntry(n) \in Entry)
      <4> TAKE n
      <4>1. Malloc \in [Offsets -> Datum]
        BY DEF Malloc, Datum
      <4>2. SectorBlock(0) \in Block /\ (Fat32 => SectorBlock(1) \in Block)
        BY GeometryAssumption DEF Block
      <4>3. disk \in [Lba -> Datum]
        BY DEF TypeOK
      <4>4. Filled(NewEntry(SectorBlock(0), Malloc), n, disk) \in Entry
        BY <4>1, <4>2, <4>3, NewEntryType, FilledType
      <4>5. UsageTagMax \in 0 .. UsageTagMax /\ UsageTagMax - 1 \in 0 .. UsageTagMax
        BY DiskbufAssumption, SMT
      <4>6. BootEntry(n) \in Entry
        BY <4>4, <4>5 DEF BootEntry, Entry
      <4>7. Fat32 => FsinfoEntry(n) \in Entry
        BY <4>1, <4>2, <4>3, NewEntryType, FilledType DEF FsinfoEntry
      <4> QED BY <4>6, <4>7
    <3> QED BY <2>1, <3>1 DEF Mount, TypeOK
  <2>2. CASE Unmount
    BY <2>2 DEF Unmount, TypeOK
  <2>3. ASSUME NEW b \in Block, Read(b) PROVE TypeOK'
    <3>1. PICK i \in Index, n \in Transferred(b) :
            /\ IsTarget(b, i) /\ Flush(b, i)
            /\ Settle(i, Filled(Allocated(b, i), n, disk'))
      BY <2>3 DEF Read
    <3>2. disk' \in [Lba -> Datum]
      BY <3>1, FlushType
    <3>3. Filled(Allocated(b, i), n, disk') \in Entry
      BY <3>1, <3>2, AllocatedType, FilledType
    <3> QED BY <2>3, <3>1, <3>2, <3>3, SettleType DEF Read, TypeOK
  <2>4. ASSUME NEW b \in Block, NEW values \in [Span(b) -> Value], Write(b, values)
        PROVE  TypeOK'
    <3>1. PICK i \in Index :
            /\ IsTarget(b, i) /\ Flush(b, i)
            /\ Settle(i, Overwrite(Allocated(b, i), values))
      BY <2>4 DEF Write
    <3>2. disk' \in [Lba -> Datum]
      BY <3>1, FlushType
    <3>3. Overwrite(Allocated(b, i), values) \in Entry
      BY <3>1, AllocatedType, OverwriteType
    <3> QED BY <2>4, <3>1, <3>2, <3>3, SettleType DEF Write, TypeOK
  <2>5. ASSUME NEW o \in Offsets, NEW value \in Value, Modify(o, value) PROVE TypeOK'
    <3>1. held \in Index
      BY <2>5 DEF Modify, TypeOK, Used
    <3>2. diskbuf' = [diskbuf EXCEPT ![held].data[o] = value, ![held].dirty = TRUE]
      BY <2>5 DEF Modify
    <3>3. diskbuf[held] \in Entry
      BY <2>5 DEF Modify, TypeOK, Used
    <3> DEFINE e == [diskbuf[held] EXCEPT !.data[o] = value, !.dirty = TRUE]
    <3>4. e \in Entry
      BY <3>3 DEF Entry, Datum
    <3>5. diskbuf' = [diskbuf EXCEPT ![held] = e]
      BY <3>2
    <3> HIDE DEF e
    <3>6. diskbuf' \in [Index -> Entry \cup {NoEntry}]
      BY <3>4, <3>5 DEF TypeOK
    <3>7. e # NoEntry
      BY <3>4, NoEntryAssumption
    <3>8. (held \in Used)'
      BY <2>5, <3>1, <3>5, <3>7 DEF Modify, TypeOK, Used
    <3> QED BY <2>5, <3>6, <3>8 DEF Modify, TypeOK
  <2>6. CASE UNCHANGED vars
    BY <2>6 DEF vars, TypeOK, Used
  <2> QED BY <2>1, <2>2, <2>3, <2>4, <2>5, <2>6 DEF Next, ReadNext
<1> QED BY <1>1, <1>2, PTL DEF Spec

-----------------------------------------------------------------------------
\* Steps that settle one entry.

\* The entries other than i keep all but their usage tag, which drops below
\* UsageTagMax, and none appears or vanishes.
LEMMA SettleOthers ==
  ASSUME TypeOK, NEW i \in Index, NEW e \in Entry, Settle(i, e)
  PROVE  /\ diskbuf'[i] = e /\ Used' = Used \cup {i}
         /\ \A j \in Used' \ {i} :
              /\ j \in Used /\ diskbuf[j] \in Entry
              /\ diskbuf'[j].block = diskbuf[j].block
              /\ diskbuf'[j].data = diskbuf[j].data
              /\ diskbuf'[j].dirty = diskbuf[j].dirty
              /\ diskbuf'[j].data_valid = diskbuf[j].data_valid
              /\ diskbuf'[j].usage_tag < UsageTagMax
<1>1. \A j \in Index : diskbuf'[j] = IF j = i THEN e ELSE Aged(diskbuf[j])
  BY DEF Settle
<1>2. e # NoEntry
  BY NoEntryAssumption
<1>3. \A j \in Index : diskbuf[j] = NoEntry => Aged(diskbuf[j]) = NoEntry
  BY DEF Aged
<1>4. \A j \in Used : diskbuf[j] \in Entry
  BY DEF Used, TypeOK
<1>5. \A j \in Used : Aged(diskbuf[j]) # NoEntry
  BY <1>4, AgedType, NoEntryAssumption
<1>6. Used' = Used \cup {i}
  BY <1>1, <1>2, <1>3, <1>5 DEF Used
<1>7. \A j \in Used : j # i => diskbuf'[j] = Aged(diskbuf[j])
  BY <1>1 DEF Used
<1> QED BY <1>1, <1>4, <1>6, <1>7, AgedType

\* Whatever the target, no other entry holds the block that was asked for.
LEMMA TargetUnique ==
  ASSUME TypeOK, UniqueBlocks, NEW b \in Block, NEW i \in Index, IsTarget(b, i)
  PROVE  \A j \in Used : diskbuf[j].block = b => j = i
<1>1. CASE IsCached(b, i)
  BY <1>1 DEF IsCached, Hits, UniqueBlocks
<1>2. CASE Hits(b) = {}
  BY <1>2 DEF Hits
<1> QED BY <1>1, <1>2 DEF IsTarget, IsAlloc, IsRealloc

\* At most one entry carries the highest usage tag: the reason why a full
\* cache has a victim.
HotAtMostOne ==
  \A i, j \in Used : diskbuf[i].usage_tag = UsageTagMax /\ diskbuf[j].usage_tag = UsageTagMax
                     => i = j

CacheInv == UniqueBlocks /\ HotAtMostOne

\* An access makes no block double and one entry hot.
LEMMA SettleKeepsCacheInv ==
  ASSUME TypeOK, CacheInv, NEW b \in Block, NEW i \in Index, IsTarget(b, i),
         NEW e \in Entry, e.block = b, Settle(i, e)
  PROVE  CacheInv'
<1>1. UniqueBlocks'
  <2>1. \A j \in Used' : j # i => diskbuf'[j].block # b
    BY SettleOthers, TargetUnique DEF CacheInv
  <2>2. \A j, k \in Used' \ {i} : diskbuf'[j].block = diskbuf'[k].block => j = k
    BY SettleOthers DEF CacheInv, UniqueBlocks
  <2>3. diskbuf'[i].block = b
    BY SettleOthers
  <2> QED BY <2>1, <2>2, <2>3 DEF UniqueBlocks
<1>2. HotAtMostOne'
  <2>1. \A j \in Used' : j # i => diskbuf'[j].usage_tag # UsageTagMax
    BY SettleOthers, DiskbufAssumption, SMT
  <2> QED BY <2>1 DEF HotAtMostOne
<1> QED BY <1>1, <1>2 DEF CacheInv

\* No call breaks the invariant of the tags.
LEMMA CacheInvInductive == CacheInv /\ TypeOK /\ TypeOK' /\ [Next]_vars => CacheInv'
<1> SUFFICES ASSUME CacheInv, TypeOK, TypeOK', [Next]_vars PROVE CacheInv'
  OBVIOUS
<1>1. CASE Mount
  <2>1. PICK n, m : diskbuf' = [i \in Index |-> IF i = 0 THEN BootEntry(n)
                                               ELSE IF i = 1 /\ Fat32 THEN FsinfoEntry(m)
                                               ELSE NoEntry]
    BY <1>1 DEF Mount
  <2>2. Used' \subseteq {0, 1} /\ (~Fat32 => Used' \subseteq {0})
    BY <2>1 DEF Used
  <2>3. 0 \in Index /\ 1 \in Index
    BY DiskbufAssumption, SMT DEF Index
  <2>4. BootEntry(n).block = SectorBlock(0)
    BY DEF BootEntry, Filled, NewEntry
  <2>5. Fat32 => BootEntry(n).usage_tag = UsageTagMax - 1
    BY DEF BootEntry, Filled, NewEntry
  <2>6. FsinfoEntry(m).block = SectorBlock(1)
    BY DEF FsinfoEntry, Filled, NewEntry
  <2>7. SectorBlock(0) # SectorBlock(1)
    BY DEF SectorBlock
  <2>8. UsageTagMax - 1 # UsageTagMax
    BY DiskbufAssumption, SMT
  <2>9. diskbuf'[0] = BootEntry(n) /\ (Fat32 => diskbuf'[1] = FsinfoEntry(m))
    BY <2>1, <2>3
  <2> QED BY <2>2, <2>4, <2>5, <2>6, <2>7, <2>8, <2>9 DEF CacheInv, UniqueBlocks, HotAtMostOne
<1>2. CASE Unmount
  <2>1. Used' = {}
    BY <1>2 DEF Unmount, Used
  <2> QED BY <2>1 DEF CacheInv, UniqueBlocks, HotAtMostOne
<1>3. ASSUME NEW b \in Block, Read(b) PROVE CacheInv'
  <2>1. PICK i \in Index, n \in Transferred(b) :
          /\ IsTarget(b, i) /\ Flush(b, i)
          /\ Settle(i, Filled(Allocated(b, i), n, disk'))
    BY <1>3 DEF Read
  <2>2. /\ Filled(Allocated(b, i), n, disk') \in Entry
        /\ Filled(Allocated(b, i), n, disk').block = b
    BY <2>1, FlushType, AllocatedType, FilledType
  <2> QED BY <2>1, <2>2, SettleKeepsCacheInv
<1>4. ASSUME NEW b \in Block, NEW values \in [Span(b) -> Value], Write(b, values)
      PROVE  CacheInv'
  <2>1. PICK i \in Index :
          IsTarget(b, i) /\ Settle(i, Overwrite(Allocated(b, i), values))
    BY <1>4 DEF Write
  <2>2. /\ Overwrite(Allocated(b, i), values) \in Entry
        /\ Overwrite(Allocated(b, i), values).block = b
    BY <2>1, AllocatedType, OverwriteType
  <2> QED BY <2>1, <2>2, SettleKeepsCacheInv
<1>5. ASSUME NEW o \in Offsets, NEW value \in Value, Modify(o, value) PROVE CacheInv'
  <2>1. /\ diskbuf' = [diskbuf EXCEPT ![held].data[o] = value, ![held].dirty = TRUE]
        /\ held \in Used /\ held \in Index
    BY <1>5 DEF Modify, TypeOK, Used
  <2>2. diskbuf[held] \in Entry
    BY <2>1 DEF Used, TypeOK
  <2>3. /\ diskbuf'[held].block = diskbuf[held].block
        /\ diskbuf'[held].usage_tag = diskbuf[held].usage_tag
        /\ \A j \in Index : j # held => diskbuf'[j] = diskbuf[j]
    BY <2>1, <2>2 DEF TypeOK, Entry
  <2>4. Used' \subseteq Used
    BY <2>1, <2>3 DEF Used
  <2> QED BY <2>3, <2>4 DEF CacheInv, UniqueBlocks, HotAtMostOne, Used
<1>6. CASE UNCHANGED vars
  BY <1>6 DEF vars, CacheInv, UniqueBlocks, HotAtMostOne, Used
<1> QED BY <1>1, <1>2, <1>3, <1>4, <1>5, <1>6 DEF Next, ReadNext

\* It holds throughout.
LEMMA CacheInvCorrect == Spec => []CacheInv
<1>1. Init => CacheInv
  BY DEF Init, CacheInv, UniqueBlocks, HotAtMostOne, Used
<1> QED BY <1>1, CacheInvInductive, TypeCorrect, PTL DEF Spec

\* No block is ever cached twice (UniqueBlocks).
THEOREM BlocksUnique == Spec => []UniqueBlocks
<1>1. CacheInv => UniqueBlocks
  BY DEF CacheInv
<1> QED BY <1>1, CacheInvCorrect, PTL

\* A full cache always has an entry to replace (VictimExists), so the index
\* allocate_diskbuf_*_entry returns is never -1.
THEOREM AlwaysAVictim == Spec => []VictimExists
<1>1. TypeOK /\ CacheInv => VictimExists
  <2> SUFFICES ASSUME TypeOK, CacheInv, Free = {}
               PROVE  \E i \in Index : diskbuf[i].usage_tag < UsageTagMax
    BY DEF VictimExists
  <2>1. 0 \in Index /\ 1 \in Index
    BY DiskbufAssumption, SMT DEF Index
  <2>2. 0 \in Used /\ 1 \in Used
    BY <2>1 DEF Free, Used
  <2>3. /\ diskbuf[0].usage_tag \in 0 .. UsageTagMax
        /\ diskbuf[1].usage_tag \in 0 .. UsageTagMax
    BY <2>2 DEF Used, TypeOK, Entry
  <2>4. diskbuf[0].usage_tag # UsageTagMax \/ diskbuf[1].usage_tag # UsageTagMax
    BY <2>2 DEF CacheInv, HotAtMostOne
  <2> QED BY <2>1, <2>3, <2>4, DiskbufAssumption, SMT
<1> QED BY <1>1, TypeCorrect, CacheInvCorrect, PTL

-----------------------------------------------------------------------------
\* What the buffers hold.

\* Distinct positions of distinct blocks are distinct sectors.
LEMMA SectorsDisjoint ==
  ASSUME NEW b \in Block, NEW c \in Block, NEW o \in Span(b), NEW p \in Span(c),
         LbaOf(b, o) = LbaOf(c, p)
  PROVE  b = c /\ o = p
<1> DEFINE S == SectorsPerCluster
<1>1. S \in Nat /\ S > 0 /\ ClusterArea \in Int
  BY GeometryAssumption, SMT DEF ClusterArea
<1>2. \/ b \in {SectorBlock(l) : l \in SectorLbas}
      \/ b \in {ClusterBlock(k) : k \in Clusters}
  BY DEF Block
<1>3. \/ c \in {SectorBlock(l) : l \in SectorLbas}
      \/ c \in {ClusterBlock(k) : k \in Clusters}
  BY DEF Block
<1>4. \A l \in SectorLbas : l \in Int /\ l < ClusterArea
  BY <1>1, GeometryAssumption, SMT
<1>5. \A k \in Clusters : k \in Int /\ k >= 2
  BY GeometryAssumption, SMT
<1>6. \A q \in Offsets : q \in Int /\ q >= 0 /\ q < S
  BY <1>1, SMT DEF Offsets
<1>7. ASSUME NEW k \in Int, k >= 2, NEW q \in Int, q >= 0
      PROVE  (k - 2) * S + ClusterArea + q >= ClusterArea
  <2>1. (k - 2) * S >= 0
    BY <1>1, <1>7, SMT
  <2>2. (k - 2) * S \in Int
    BY <1>1, <1>7, SMT
  <2> DEFINE m == (k - 2) * S
  <2> HIDE DEF m, S
  <2> QED BY <2>1, <2>2, <1>1, <1>7, SMT DEF m
<1>8. ASSUME NEW k \in Int, NEW j \in Int, NEW q \in Int, NEW r \in Int, k < j, q < S, r >= 0
      PROVE  (k - 2) * S + ClusterArea + q < (j - 2) * S + ClusterArea + r
  <2>1. PICK d \in Int : j = k + d /\ d >= 1
    <3>1. j = k + (j - k) /\ j - k >= 1 /\ j - k \in Int
      BY <1>8, SMT
    <3> QED BY <3>1
  <2>2. (j - 2) * S = (k - 2) * S + d * S
    BY <1>1, <1>8, <2>1, SMT
  <2>3. d * S >= S
    BY <1>1, <2>1, SMT
  <2>4. (k - 2) * S \in Int /\ d * S \in Int
    BY <1>1, <1>8, <2>1, SMT
  <2> DEFINE m == (k - 2) * S
             n == d * S
  <2> HIDE DEF m, n, S
  <2> QED BY <1>1, <1>8, <2>2, <2>3, <2>4, SMT DEF m, n
<1>9. CASE b.type = "SECTOR" /\ c.type = "SECTOR"
  BY <1>2, <1>3, <1>9 DEF LbaOf, Span, SectorBlock, ClusterBlock
<1>10. ASSUME NEW x \in Block, NEW y \in Block, NEW u \in Span(x), NEW v \in Span(y),
              x.type = "SECTOR", y.type # "SECTOR"
       PROVE  LbaOf(x, u) # LbaOf(y, v)
  <2>1. PICK l \in SectorLbas : x = SectorBlock(l)
    BY <1>10 DEF Block, SectorBlock, ClusterBlock
  <2>2. PICK k \in Clusters : y = ClusterBlock(k)
    BY <1>10 DEF Block, SectorBlock, ClusterBlock
  <2>3. v \in Offsets
    BY <1>10 DEF Span
  <2>4. LbaOf(x, u) = l
    BY <2>1 DEF LbaOf, SectorBlock
  <2>5. LbaOf(y, v) = (k - 2) * S + ClusterArea + v
    BY <2>2 DEF LbaOf, ClusterBlock, ClusterToSector
  <2>6. LbaOf(y, v) >= ClusterArea
    BY <1>5, <1>6, <1>7, <2>3, <2>5
  <2> QED BY <1>1, <1>4, <2>4, <2>6, SMT
<1>11. CASE b.type # "SECTOR" /\ c.type # "SECTOR"
  <2>1. PICK k \in Clusters : b = ClusterBlock(k)
    BY <1>2, <1>11 DEF SectorBlock
  <2>2. PICK j \in Clusters : c = ClusterBlock(j)
    BY <1>3, <1>11 DEF SectorBlock
  <2>3. o \in Offsets /\ p \in Offsets
    BY <1>11 DEF Span
  <2>4. /\ LbaOf(b, o) = (k - 2) * S + ClusterArea + o
        /\ LbaOf(c, p) = (j - 2) * S + ClusterArea + p
    BY <2>1, <2>2 DEF LbaOf, ClusterBlock, ClusterToSector
  <2>5. LbaOf(b, o) \in Int
    <3>1. (k - 2) * S \in Int
      BY <1>1, <1>5, SMT
    <3> HIDE DEF S
    <3> QED BY <1>1, <1>6, <2>3, <2>4, <3>1, SMT
  <2>6. ~(k < j) /\ ~(j < k)
    <3> HIDE DEF S
    <3>1. k < j => LbaOf(b, o) < LbaOf(c, p)
      BY <1>5, <1>6, <1>8, <2>3, <2>4
    <3>2. j < k => LbaOf(c, p) < LbaOf(b, o)
      BY <1>5, <1>6, <1>8, <2>3, <2>4
    <3> QED BY <2>5, <3>1, <3>2, SMT
  <2>7. k = j
    BY <1>5, <2>6, SMT
  <2>8. o = p
    <3>1. (k - 2) * S \in Int
      BY <1>1, <1>5, SMT
    <3> DEFINE m == (k - 2) * S
    <3>2. m + ClusterArea + o = m + ClusterArea + p
      BY <2>4, <2>7
    <3> HIDE DEF m
    <3> QED BY <1>1, <1>6, <2>3, <3>1, <3>2, SMT DEF m
  <2> QED BY <2>1, <2>2, <2>7, <2>8
<1> QED BY <1>9, <1>10, <1>11

\* A full transfer leaves the block's sectors in the buffer.
LEMMA FullReadFills ==
  ASSUME ~DriveFaults, NEW e \in Entry, ~e.data_valid, NEW n \in Transferred(e.block),
         NEW d \in [Lba -> Datum]
  PROVE  \A o \in Span(e.block) : Filled(e, n, d).data[o] = d[LbaOf(e.block, o)]
<1>1. e.block \in Block /\ Span(e.block) \subseteq Offsets
  BY BlockFacts DEF Entry
<1>2. \A o \in Span(e.block) : o < n
  <2>1. CASE e.block.type = "SECTOR"
    BY <2>1, SMT DEF Transferred, Span
  <2>2. CASE e.block.type # "SECTOR"
    BY <2>2, GeometryAssumption, SMT DEF Transferred, Span, Offsets
  <2> QED BY <2>1, <2>2
<1>3. Filled(e, n, d).data = ReadInto(e.data, e.block, n, d)
  BY DEF Filled, Entry
<1> QED BY <1>1, <1>2, <1>3 DEF ReadInto

\* Writing a victim back touches the sectors of its own block only.
LEMMA FlushSparesOthers ==
  ASSUME TypeOK, UniqueBlocks, NEW b \in Block, NEW i \in Index, Flush(b, i),
         NEW j \in Used, j # i, NEW o \in Span(diskbuf[j].block)
  PROVE  disk'[LbaOf(diskbuf[j].block, o)] = disk[LbaOf(diskbuf[j].block, o)]
<1>1. CASE IsRealloc(b, i) /\ diskbuf[i].dirty
  <2>1. PICK n : disk' = WrittenBack(diskbuf[i], n)
    BY <1>1 DEF Flush
  <2>2. i \in Used
    BY <1>1 DEF IsRealloc, Free, Used
  <2>3. diskbuf[i].block \in Block /\ diskbuf[j].block \in Block
    BY <2>2 DEF Used, TypeOK, Entry
  <2>4. diskbuf[i].block # diskbuf[j].block
    BY <2>2 DEF UniqueBlocks
  <2>5. ~ \E p \in Span(diskbuf[i].block) :
            LbaOf(diskbuf[i].block, p) = LbaOf(diskbuf[j].block, o)
    BY <2>3, <2>4, SectorsDisjoint
  <2>6. LbaOf(diskbuf[j].block, o) \in Lba
    BY <2>3, BlockFacts
  <2> QED BY <2>1, <2>5, <2>6 DEF WrittenBack
<1>2. CASE ~(IsRealloc(b, i) /\ diskbuf[i].dirty)
  BY <1>2 DEF Flush
<1> QED BY <1>1, <1>2

\* The entry at i is no stale copy.
Clean(i) ==
  diskbuf[i].data_valid /\ ~diskbuf[i].dirty =>
    \A o \in Span(diskbuf[i].block) : diskbuf[i].data[o] = disk[LbaOf(diskbuf[i].block, o)]

\* Coherence, entry by entry.
LEMMA CleanMeans == ~DriveFaults => (CleanCoherent <=> \A i \in Used : Clean(i))
BY DEF CleanCoherent, Clean

\* An access leaves clean entries clean.
LEMMA SettleKeepsClean ==
  ASSUME TypeOK, UniqueBlocks, NEW b \in Block, NEW i \in Index, Flush(b, i),
         NEW e \in Entry, Settle(i, e), \A j \in Used : Clean(j)
  PROVE  \A j \in Used' \ {i} : Clean(j)'
<1> TAKE j \in Used' \ {i}
<1>1. /\ j \in Used /\ diskbuf'[j].block = diskbuf[j].block
      /\ diskbuf'[j].data = diskbuf[j].data /\ diskbuf'[j].dirty = diskbuf[j].dirty
      /\ diskbuf'[j].data_valid = diskbuf[j].data_valid
  BY SettleOthers
<1>2. \A o \in Span(diskbuf[j].block) :
        disk'[LbaOf(diskbuf[j].block, o)] = disk[LbaOf(diskbuf[j].block, o)]
  BY <1>1, FlushSparesOthers
<1> QED BY <1>1, <1>2 DEF Clean

\* The entry a read settles is clean if the target was.
LEMMA ReadFillsClean ==
  ASSUME ~DriveFaults, TypeOK, \A j \in Used : Clean(j), NEW b \in Block, NEW i \in Index,
         NEW n \in Transferred(b), IsTarget(b, i), Flush(b, i)
  PROVE  LET e == Filled(Allocated(b, i), n, disk')
         IN  e.dirty \/ \A o \in Span(b) : e.data[o] = disk'[LbaOf(b, o)]
<1> DEFINE a == Allocated(b, i)
           e == Filled(a, n, disk')
<1>1. a \in Entry /\ a.block = b /\ disk' \in [Lba -> Datum]
  BY AllocatedType, FlushType
<1>2. CASE ~a.data_valid
  BY <1>1, <1>2, FullReadFills
<1>3. CASE a.data_valid
  <2>1. IsCached(b, i)
    BY <1>3 DEF Allocated, NewEntry
  <2>2. i \in Used /\ diskbuf[i].block = b /\ diskbuf[i] \in Entry
    BY <2>1 DEF IsCached, Hits, Used, TypeOK
  <2>3. a = [diskbuf[i] EXCEPT !.usage_tag = UsageTagMax]
    BY <2>1 DEF Allocated
  <2>4. a.data_valid = diskbuf[i].data_valid /\ a.dirty = diskbuf[i].dirty
        /\ a.data = diskbuf[i].data
    BY <2>2, <2>3 DEF Entry
  <2>5. disk' = disk
    BY <2>1 DEF Flush, IsRealloc, IsCached
  <2>6. e = a
    BY <1>3 DEF Filled
  <2>7. Clean(i)
    BY <2>2
  <2> QED BY <1>3, <2>2, <2>4, <2>5, <2>6, <2>7 DEF Clean
<1> QED BY <1>2, <1>3

\* No call makes a clean entry differ from the drive.
LEMMA CleanInductive ==
  ASSUME ~DriveFaults
  PROVE  CleanCoherent /\ UniqueBlocks /\ TypeOK /\ TypeOK' /\ [Next]_vars => CleanCoherent'
<1> SUFFICES ASSUME \A j \in Used : Clean(j), UniqueBlocks, TypeOK, TypeOK', [Next]_vars
             PROVE  \A j \in Used' : Clean(j)'
  BY CleanMeans DEF CleanCoherent, Clean
<1>1. CASE Mount
  <2>1. PICK n \in Transferred(SectorBlock(0)), m \in Transferred(SectorBlock(1)) :
          diskbuf' = [i \in Index |-> IF i = 0 THEN BootEntry(n)
                                     ELSE IF i = 1 /\ Fat32 THEN FsinfoEntry(m)
                                     ELSE NoEntry]
    BY <1>1 DEF Mount
  <2>2. Used' \subseteq {0, 1} /\ (~Fat32 => Used' \subseteq {0})
    BY <2>1 DEF Used
  <2>3. 0 \in Index /\ 1 \in Index
    BY DiskbufAssumption, SMT DEF Index
  <2>4. diskbuf'[0] = BootEntry(n) /\ (Fat32 => diskbuf'[1] = FsinfoEntry(m))
    BY <2>1, <2>3
  <2>5. disk' = disk /\ disk \in [Lba -> Datum]
    BY <1>1 DEF Mount, TypeOK
  <2>6. ASSUME NEW c \in Block, NEW k \in Transferred(c)
        PROVE  LET f == Filled(NewEntry(c, Malloc), k, disk)
               IN  f.block = c /\ \A o \in Span(c) : f.data[o] = disk[LbaOf(c, o)]
    <3>1. NewEntry(c, Malloc) \in Entry
      BY NewEntryType DEF Malloc, Datum
    <3>2. NewEntry(c, Malloc).block = c /\ ~NewEntry(c, Malloc).data_valid
      BY DEF NewEntry
    <3> QED BY <2>5, <3>1, <3>2, FullReadFills, FilledType
  <2>7. SectorBlock(0) \in Block /\ (Fat32 => SectorBlock(1) \in Block)
    BY GeometryAssumption DEF Block
  <2>8. LET f == Filled(NewEntry(SectorBlock(0), Malloc), n, disk)
        IN  BootEntry(n).block = f.block /\ BootEntry(n).data = f.data
    BY DEF BootEntry, Filled, NewEntry
  <2>9. Clean(0)'
    BY <2>4, <2>5, <2>6, <2>7, <2>8 DEF Clean
  <2>10. Fat32 => Clean(1)'
    BY <2>4, <2>5, <2>6, <2>7 DEF Clean, FsinfoEntry
  <2> QED BY <2>2, <2>9, <2>10
<1>2. CASE Unmount
  <2>1. Used' = {}
    BY <1>2 DEF Unmount, Used
  <2> QED BY <2>1
<1>3. ASSUME NEW b \in Block, Read(b) PROVE \A j \in Used' : Clean(j)'
  <2>1. PICK i \in Index, n \in Transferred(b) :
          /\ IsTarget(b, i) /\ Flush(b, i)
          /\ Settle(i, Filled(Allocated(b, i), n, disk'))
    BY <1>3 DEF Read
  <2>2. /\ Filled(Allocated(b, i), n, disk') \in Entry
        /\ Filled(Allocated(b, i), n, disk').block = b
    BY <2>1, FlushType, AllocatedType, FilledType
  <2>3. \A j \in Used' \ {i} : Clean(j)'
    BY <2>1, <2>2, SettleKeepsClean
  <2>4. diskbuf'[i] = Filled(Allocated(b, i), n, disk')
    BY <2>1 DEF Settle
  <2>5. Clean(i)'
    BY <2>1, <2>2, <2>4, ReadFillsClean DEF Clean
  <2> QED BY <2>3, <2>5
<1>4. ASSUME NEW b \in Block, NEW values \in [Span(b) -> Value], Write(b, values)
      PROVE  \A j \in Used' : Clean(j)'
  <2>1. PICK i \in Index : /\ IsTarget(b, i) /\ Flush(b, i)
                           /\ Settle(i, Overwrite(Allocated(b, i), values))
    BY <1>4 DEF Write
  <2>2. Allocated(b, i) \in Entry /\ Overwrite(Allocated(b, i), values) \in Entry
    BY <2>1, AllocatedType, OverwriteType
  <2>3. \A j \in Used' \ {i} : Clean(j)'
    BY <2>1, <2>2, SettleKeepsClean
  <2>4. diskbuf'[i].dirty
    BY <2>1, <2>2 DEF Settle, Overwrite, Entry
  <2>5. Clean(i)'
    BY <2>4 DEF Clean
  <2> QED BY <2>3, <2>5
<1>5. ASSUME NEW o \in Offsets, NEW value \in Value, Modify(o, value)
      PROVE  \A j \in Used' : Clean(j)'
  <2>1. /\ diskbuf' = [diskbuf EXCEPT ![held].data[o] = value, ![held].dirty = TRUE]
        /\ held \in Used /\ held \in Index /\ disk' = disk
    BY <1>5 DEF Modify, TypeOK, Used
  <2>2. diskbuf[held] \in Entry
    BY <2>1 DEF Used, TypeOK
  <2>3. diskbuf'[held].dirty /\ \A j \in Index : j # held => diskbuf'[j] = diskbuf[j]
    BY <2>1, <2>2 DEF TypeOK, Entry
  <2>4. Used' \subseteq Used /\ Used \subseteq Index
    BY <2>1, <2>3 DEF Used
  <2>5. Clean(held)'
    BY <2>1, <2>3, <1>5 DEF Clean, Modify
  <2>6. ASSUME NEW j \in Used', j # held PROVE Clean(j)'
    <3>1. j \in Used /\ diskbuf'[j] = diskbuf[j]
      BY <2>3, <2>4, <2>6
    <3>2. Clean(j)
      BY <3>1
    <3> QED BY <2>1, <3>1, <3>2 DEF Clean
  <2> QED BY <2>5, <2>6, <1>5 DEF Modify
<1>6. CASE UNCHANGED vars
  BY <1>6 DEF vars, Clean, Used
<1> QED BY <1>1, <1>2, <1>3, <1>4, <1>5, <1>6 DEF Next, ReadNext

\* A buffer marked valid and not dirty holds what the drive holds
\* (CleanCoherent, which says so of drives without faults).
THEOREM CleanBuffersCoherent == Spec => []CleanCoherent
<1>1. CASE DriveFaults
  <2>1. CleanCoherent
    BY <1>1 DEF CleanCoherent
  <2> QED BY <2>1, PTL
<1>2. CASE ~DriveFaults
  <2>1. Init => CleanCoherent
    BY DEF Init, CleanCoherent, Used
  <2>2. CleanCoherent /\ UniqueBlocks /\ TypeOK /\ TypeOK' /\ [Next]_vars => CleanCoherent'
    BY <1>2, CleanInductive
  <2> QED BY <2>1, <2>2, TypeCorrect, BlocksUnique, PTL DEF Spec
<1> QED BY <1>1, <1>2

-----------------------------------------------------------------------------
\* The cache implements the volume for the client the driver is: one that
\* only reads.

\* Every entry is a valid, clean copy, and so is what the last call handed out.
ReadInv ==
  \A i \in Used :
    /\ diskbuf[i].data_valid /\ ~diskbuf[i].dirty
    /\ \A o \in Span(diskbuf[i].block) : diskbuf[i].data[o] = disk[LbaOf(diskbuf[i].block, o)]

\* Readers use a part of the interface.
LEMMA ReadSpecRefinesSpec == ReadSpec => Spec
<1>1. [ReadNext]_vars => [Next]_vars
  BY DEF Next
<1> QED BY <1>1, PTL DEF ReadSpec, Spec

\* For readers every used entry is valid and clean.
LEMMA CoherentValid ==
  ASSUME ~DriveFaults, CleanCoherent, \A i \in Used : diskbuf[i].data_valid /\ ~diskbuf[i].dirty
  PROVE  ReadInv
BY DEF ReadInv, CleanCoherent

\* No read breaks this.
LEMMA ReadInvInductive ==
  ASSUME ~DriveFaults
  PROVE  ReadInv /\ TypeOK /\ CleanCoherent' /\ [ReadNext]_vars => ReadInv'
<1> SUFFICES ASSUME ReadInv, TypeOK, CleanCoherent', [ReadNext]_vars
             PROVE  \A i \in Used' : diskbuf'[i].data_valid /\ ~diskbuf'[i].dirty
  BY DEF ReadInv, CleanCoherent
<1>1. CASE Mount
  <2>1. PICK n, m : diskbuf' = [i \in Index |-> IF i = 0 THEN BootEntry(n)
                                               ELSE IF i = 1 /\ Fat32 THEN FsinfoEntry(m)
                                               ELSE NoEntry]
    BY <1>1 DEF Mount
  <2>2. Used' \subseteq Index /\ Used' \subseteq {0, 1} /\ (~Fat32 => Used' \subseteq {0})
    BY <2>1 DEF Used
  <2>3. BootEntry(n).data_valid /\ ~BootEntry(n).dirty
    BY DEF BootEntry, Filled, NewEntry
  <2>4. FsinfoEntry(m).data_valid /\ ~FsinfoEntry(m).dirty
    BY DEF FsinfoEntry, Filled, NewEntry
  <2> QED BY <2>1, <2>2, <2>3, <2>4
<1>2. CASE Unmount
  <2>1. Used' = {}
    BY <1>2 DEF Unmount, Used
  <2> QED BY <2>1
<1>3. ASSUME NEW b \in Block, Read(b)
      PROVE  \A i \in Used' : diskbuf'[i].data_valid /\ ~diskbuf'[i].dirty
  <2>1. PICK i \in Index, n \in Transferred(b) :
          /\ IsTarget(b, i) /\ Flush(b, i)
          /\ Settle(i, Filled(Allocated(b, i), n, disk'))
    BY <1>3 DEF Read
  <2>2. Allocated(b, i) \in Entry /\ disk' \in [Lba -> Datum]
    BY <2>1, FlushType, AllocatedType
  <2>3. ~Allocated(b, i).dirty
    <3>1. CASE IsCached(b, i)
      <4>1. i \in Used /\ diskbuf[i] \in Entry
        BY <3>1 DEF IsCached, Hits, Used, TypeOK
      <4> QED BY <3>1, <4>1 DEF Allocated, ReadInv, Entry
    <3>2. CASE ~IsCached(b, i)
      BY <3>2 DEF Allocated, NewEntry
    <3> QED BY <3>1, <3>2
  <2> DEFINE e == Filled(Allocated(b, i), n, disk')
  <2>4. e \in Entry /\ e.data_valid /\ ~e.dirty
    BY <2>2, <2>3, FilledType
  <2> HIDE DEF e
  <2> QED BY <2>1, <2>4, SettleOthers DEF ReadInv, e
<1>4. CASE UNCHANGED vars
  BY <1>4 DEF vars, ReadInv, Used
<1> QED BY <1>1, <1>2, <1>3, <1>4 DEF ReadNext

\* A read of the cache is a read of the volume.
LEMMA ReadStepRefines ==
  ASSUME TypeOK, TypeOK', ReadInv, ReadInv', NEW b \in Block, Read(b)
  PROVE  Volume!Read(b)
<1>1. PICK i \in Index, n \in Transferred(b) :
        /\ IsTarget(b, i) /\ Flush(b, i)
        /\ Settle(i, Filled(Allocated(b, i), n, disk'))
  BY DEF Read
<1>2. disk' = disk
  <2>1. IsRealloc(b, i) => i \in Used
    BY DEF IsRealloc, Free, Used
  <2> QED BY <1>1, <2>1 DEF Flush, ReadInv
<1>3. diskbuf'[i].block = b /\ held' = i
  <2>1. Filled(Allocated(b, i), n, disk').block = b
    BY <1>1, FlushType, AllocatedType, FilledType
  <2> QED BY <1>1, <2>1 DEF Settle
<1>4. held' # NoEntry /\ i \in Used'
  BY <1>3, NoEntryAssumption DEF TypeOK
<1>5. \A o \in Span(b) : diskbuf'[i].data[o] = disk[LbaOf(b, o)]
  BY <1>2, <1>3, <1>4 DEF ReadInv
<1>6. Reply' = [block |-> b, data |-> [o \in Span(b) |-> disk[LbaOf(b, o)]]]
  BY <1>3, <1>4, <1>5 DEF Reply
<1> QED BY <1>2, <1>6 DEF Volume!Read, Volume!Contents

\* With a drive that transfers what it is asked for, the cache of the driver as
\* it is used, by readers, is a volume of blocks (ImplementsBlockStore): every
\* read returns the contents of the block asked for, whatever was cached,
\* evicted or reused before.
THEOREM CacheIsInvisible == ASSUME ~DriveFaults PROVE ReadSpec => ImplementsBlockStore
<1>1. Init => ReadInv /\ Volume!Init
  BY DEF Init, ReadInv, Used, Volume!Init, Reply
<1>2. ReadSpec => []ReadInv
  <2>1. ReadInv /\ TypeOK /\ CleanCoherent' /\ [ReadNext]_vars => ReadInv'
    BY ReadInvInductive
  <2> QED BY <1>1, <2>1, ReadSpecRefinesSpec, TypeCorrect, CleanBuffersCoherent, PTL DEF ReadSpec
<1>3. TypeOK /\ TypeOK' /\ ReadInv /\ ReadInv' /\ [ReadNext]_vars => [Volume!ReadNext]_(Volume!vars)
  <2> SUFFICES ASSUME TypeOK, TypeOK', ReadInv, ReadInv', [ReadNext]_vars
               PROVE  [Volume!ReadNext]_(Volume!vars)
    OBVIOUS
  <2>1. CASE Mount \/ Unmount
    BY <2>1 DEF Mount, Unmount, Reply, Volume!ReadNext, Volume!Reset
  <2>2. ASSUME NEW b \in Block, Read(b) PROVE Volume!ReadNext
    BY <2>2, ReadStepRefines DEF Volume!ReadNext
  <2>3. CASE UNCHANGED vars
    BY <2>3 DEF vars, Volume!vars, Reply
  <2> QED BY <2>1, <2>2, <2>3 DEF ReadNext
<1> QED BY <1>1, <1>2, <1>3, ReadSpecRefinesSpec, TypeCorrect, PTL
    DEF ReadSpec, ImplementsBlockStore, Volume!ReadSpec
-----------------------------------------------------------------------------
\* The usage tags and the order of the accesses.

\* The history lists the entries in use, each once.
RecencyTyped ==
  /\ recency \in Seq(Index) /\ ToSet(recency) = Used
  /\ \A p, q \in DOMAIN recency : recency[p] = recency[q] => p = q

\* Of two entries the first has the larger tag, or both tags have run out.
Hotter(i, j) ==
  \/ diskbuf[i].usage_tag > diskbuf[j].usage_tag
  \/ diskbuf[i].usage_tag = 0 /\ diskbuf[j].usage_tag = 0

HistInv == RecencyTyped /\ \A p, q \in DOMAIN recency : p < q => Hotter(recency[p], recency[q])

\* Only the code's own variables count: the history takes part in no guard.
LEMMA HistImplementsRead == HistSpec => ReadSpec
<1>1. HistInit => Init
  BY DEF HistInit
<1>2. [HistNext]_histVars => [ReadNext]_vars
  BY DEF HistNext, ReadNext, histVars, vars
<1> QED BY <1>1, <1>2, PTL DEF HistSpec, ReadSpec

\* The place of an entry, and the history with it in front.
LEMMA PlaceOfProperties ==
  ASSUME RecencyTyped, NEW i \in Index
  PROVE  /\ Len(recency) \in Nat /\ DOMAIN recency = 1 .. Len(recency)
         /\ PlaceOf(i) \in 1 .. Len(recency) + 1
         /\ i \in ToSet(recency) => PlaceOf(i) \in DOMAIN recency /\ recency[PlaceOf(i)] = i
         /\ i \notin ToSet(recency) => PlaceOf(i) = Len(recency) + 1
<1>1. Len(recency) \in Nat /\ DOMAIN recency = 1 .. Len(recency)
  BY LenProperties DEF RecencyTyped
<1>2. CASE i \in ToSet(recency)
  <2>1. \E p \in DOMAIN recency : recency[p] = i
    BY <1>2 DEF ToSet
  <2>2. PlaceOf(i) \in DOMAIN recency /\ recency[PlaceOf(i)] = i
    BY <1>2, <2>1, Zenon DEF PlaceOf
  <2> QED BY <1>1, <1>2, <2>2
<1>3. CASE i \notin ToSet(recency)
  BY <1>1, <1>3 DEF PlaceOf
<1> QED BY <1>2, <1>3

\* Where an entry was that is now at place p of the history.
Before(i, p) == IF p <= PlaceOf(i) THEN p - 1 ELSE p

\* Where an access puts an entry in the order of accesses.
LEMMA AccessedProperties ==
  ASSUME RecencyTyped, NEW i \in Index
  PROVE  /\ Accessed(i) \in Seq(Index) /\ ToSet(Accessed(i)) = Used \cup {i}
         /\ 1 \in DOMAIN Accessed(i) /\ Accessed(i)[1] = i
         /\ \A p \in DOMAIN Accessed(i) \ {1} :
              /\ p \in Nat /\ p > 1 /\ Before(i, p) \in DOMAIN recency
              /\ Accessed(i)[p] = recency[Before(i, p)] /\ Accessed(i)[p] # i
         /\ \A p, q \in DOMAIN Accessed(i) \ {1} : p < q => Before(i, p) < Before(i, q)
<1> DEFINE n == IF i \in ToSet(recency) THEN Len(recency) ELSE Len(recency) + 1
           m == PlaceOf(i)
           a == Accessed(i)
<1>1. /\ Len(recency) \in Nat /\ DOMAIN recency = 1 .. Len(recency) /\ m \in 1 .. Len(recency) + 1
      /\ i \in ToSet(recency) => m \in DOMAIN recency /\ recency[m] = i
      /\ i \notin ToSet(recency) => m = Len(recency) + 1
  BY PlaceOfProperties
<1>2. n \in Nat /\ n >= 1 /\ m <= n
  BY <1>1
<1>3. \A p \in 1 .. n : a[p] = IF p = 1 THEN i ELSE IF p <= m THEN recency[p - 1] ELSE recency[p]
  BY DEF Accessed
<1>4. DOMAIN a = 1 .. n
  BY DEF Accessed
<1> HIDE DEF a, m
<1>5. ASSUME NEW p \in (1 .. n) \ {1}
      PROVE  /\ p \in Nat /\ p > 1 /\ Before(i, p) \in DOMAIN recency
             /\ a[p] = recency[Before(i, p)] /\ a[p] # i
  <2>1. p \in Nat /\ p > 1 /\ p <= n
    BY <1>2
  <2>2. CASE p <= m
    <3>1. Before(i, p) = p - 1 /\ a[p] = recency[p - 1]
      BY <1>3, <2>1, <2>2 DEF Before, m
    <3>2. p - 1 \in DOMAIN recency
      BY <1>1, <2>1, <2>2
    <3>3. recency[p - 1] # i
      <4> SUFFICES ASSUME recency[p - 1] = i PROVE FALSE
        OBVIOUS
      <4>1. i \in ToSet(recency)
        BY <3>2 DEF ToSet
      <4>2. p - 1 = m
        BY <1>1, <3>2, <4>1 DEF RecencyTyped
      <4> QED BY <1>1, <2>1, <2>2, <4>2
    <3> QED BY <2>1, <3>1, <3>2, <3>3
  <2>3. CASE p > m
    <3>1. Before(i, p) = p /\ a[p] = recency[p]
      BY <1>1, <1>3, <2>1, <2>3 DEF Before, m
    <3>2. i \in ToSet(recency) /\ p \in DOMAIN recency
      BY <1>1, <2>1, <2>3
    <3>3. recency[p] # i
      BY <1>1, <2>1, <2>3, <3>2 DEF RecencyTyped
    <3> QED BY <2>1, <3>1, <3>2, <3>3
  <2> QED BY <1>1, <2>1, <2>2, <2>3
<1>6. ASSUME NEW p \in (1 .. n) \ {1}, NEW q \in (1 .. n) \ {1}, p < q
      PROVE  Before(i, p) < Before(i, q)
  BY <1>1, <1>2, <1>6 DEF Before, m
<1>7. \A p \in DOMAIN recency : recency[p] \in Index
  BY <1>1, ElementOfSeq DEF RecencyTyped
<1>8. \A p \in 1 .. n : a[p] \in Index
  <2> TAKE p \in 1 .. n
  <2>1. CASE p = 1
    BY <1>3, <2>1
  <2>2. CASE p # 1
    BY <1>5, <1>7, <2>2
  <2> QED BY <2>1, <2>2
<1>9. a \in Seq(Index)
  <2>1. a = [p \in 1 .. n |-> a[p]]
    BY DEF a, Accessed
  <2>2. a \in [1 .. n -> Index]
    BY <1>8, <2>1
  <2> QED BY <1>2, <2>2, SeqDef
<1>10. ToSet(a) \subseteq Used \cup {i}
  <2> SUFFICES ASSUME NEW p \in 1 .. n PROVE a[p] \in Used \cup {i}
    BY <1>4 DEF ToSet
  <2>1. CASE p = 1
    BY <1>3, <2>1
  <2>2. CASE p # 1
    <3>1. Before(i, p) \in DOMAIN recency /\ a[p] = recency[Before(i, p)]
      BY <1>5, <2>2
    <3> QED BY <3>1 DEF ToSet, RecencyTyped
  <2> QED BY <2>1, <2>2
<1>11. ASSUME NEW j \in Used \cup {i} PROVE j \in ToSet(a)
  <2>1. CASE j = i
    <3>1. 1 \in 1 .. n /\ a[1] = i
      BY <1>2, <1>3
    <3> QED BY <1>4, <2>1, <3>1 DEF ToSet
  <2>2. CASE j # i
    <3>1. PICK p \in DOMAIN recency : recency[p] = j
      BY <2>2 DEF RecencyTyped, ToSet
    <3>2. CASE p < m
      <4>1. p + 1 \in 1 .. n /\ a[p + 1] = recency[(p + 1) - 1] /\ (p + 1) - 1 = p
        BY <1>1, <1>2, <1>3, <3>2
      <4> QED BY <1>4, <3>1, <4>1 DEF ToSet
    <3>3. CASE p > m
      <4>1. p \in 1 .. n /\ p # 1 /\ a[p] = recency[p]
        BY <1>1, <1>2, <1>3, <3>3
      <4> QED BY <1>4, <3>1, <4>1 DEF ToSet
    <3>4. p # m
      BY <1>1, <2>2, <3>1
    <3> QED BY <1>1, <3>2, <3>3, <3>4
  <2> QED BY <2>1, <2>2
<1>12. 1 \in 1 .. n /\ a[1] = i
  BY <1>2, <1>3
<1> QED BY <1>4, <1>5, <1>6, <1>9, <1>10, <1>11, <1>12 DEF a

\* Every passed entry ages by one, so the order of two of them stays.
LEMMA AgedHotter ==
  ASSUME NEW a \in Entry, NEW b \in Entry,
         a.usage_tag > b.usage_tag \/ (a.usage_tag = 0 /\ b.usage_tag = 0)
  PROVE  \/ Aged(a).usage_tag > Aged(b).usage_tag
         \/ Aged(a).usage_tag = 0 /\ Aged(b).usage_tag = 0
<1>1. a # NoEntry /\ b # NoEntry
  BY NoEntryAssumption
<1>2. a.usage_tag \in Nat /\ b.usage_tag \in Nat
  BY DiskbufAssumption DEF Entry
<1>3. /\ Aged(a).usage_tag = IF a.usage_tag > 0 THEN a.usage_tag - 1 ELSE 0
      /\ Aged(b).usage_tag = IF b.usage_tag > 0 THEN b.usage_tag - 1 ELSE 0
  BY <1>1 DEF Aged, Entry
<1> QED BY <1>2, <1>3
\* What mount leaves in the cache: the boot sector, and on FAT32 FSINFO, read last.
LEMMA MountEntries ==
  ASSUME disk \in [Lba -> Datum], NEW n
  PROVE  /\ BootEntry(n) \in Entry
         /\ BootEntry(n).usage_tag = IF Fat32 THEN UsageTagMax - 1 ELSE UsageTagMax
         /\ Fat32 => FsinfoEntry(n) \in Entry /\ FsinfoEntry(n).usage_tag = UsageTagMax
<1>1. Malloc \in [Offsets -> Datum]
  BY DEF Malloc, Datum
<1>2. SectorBlock(0) \in Block /\ (Fat32 => SectorBlock(1) \in Block)
  BY GeometryAssumption DEF Block
<1> DEFINE e == Filled(NewEntry(SectorBlock(0), Malloc), n, disk)
<1>3. e \in Entry
  BY <1>1, <1>2, NewEntryType, FilledType
<1>4. UsageTagMax \in 0 .. UsageTagMax /\ UsageTagMax - 1 \in 0 .. UsageTagMax
  BY DiskbufAssumption, SMT
<1>5. BootEntry(n) = [e EXCEPT !.usage_tag = IF Fat32 THEN UsageTagMax - 1 ELSE UsageTagMax]
  BY DEF BootEntry
<1> HIDE DEF e
<1>6. /\ BootEntry(n) \in Entry
      /\ BootEntry(n).usage_tag = IF Fat32 THEN UsageTagMax - 1 ELSE UsageTagMax
  BY <1>3, <1>4, <1>5 DEF Entry
<1>7. Fat32 => FsinfoEntry(n) \in Entry /\ FsinfoEntry(n).usage_tag = UsageTagMax
  <2>1. NewEntry(SectorBlock(1), Malloc).usage_tag = UsageTagMax
    BY DEF NewEntry
  <2> QED BY <1>1, <1>2, <2>1, NewEntryType, FilledType DEF FsinfoEntry
<1> QED BY <1>6, <1>7

\* An access in the history: its entry gets the highest tag, the others age.
LEMMA AccessOrders ==
  ASSUME TypeOK, HistInv, NEW i \in Index, NEW e \in Entry, e.usage_tag = UsageTagMax,
         Settle(i, e), recency' = Accessed(i)
  PROVE  HistInv'
<1> DEFINE a == Accessed(i)
<1>1. /\ a \in Seq(Index) /\ ToSet(a) = Used \cup {i}
      /\ 1 \in DOMAIN a /\ a[1] = i
      /\ \A p \in DOMAIN a \ {1} :
           /\ p \in Nat /\ p > 1 /\ Before(i, p) \in DOMAIN recency
           /\ a[p] = recency[Before(i, p)] /\ a[p] # i
      /\ \A p, q \in DOMAIN a \ {1} : p < q => Before(i, p) < Before(i, q)
  BY AccessedProperties DEF HistInv
<1>2. /\ diskbuf'[i] = e /\ Used' = Used \cup {i}
      /\ \A j \in Used' \ {i} : /\ j \in Used /\ diskbuf[j] \in Entry
                                /\ diskbuf'[j].usage_tag < UsageTagMax
  BY SettleOthers
<1>3. \A j \in Used \ {i} : diskbuf'[j] = Aged(diskbuf[j])
  BY DEF Settle, Used
<1> HIDE DEF a
<1>4. \A p \in DOMAIN a \ {1} : a[p] \in Used \ {i}
  BY <1>1 DEF HistInv, RecencyTyped, ToSet
<1>5. \A p \in DOMAIN recency : recency[p] \in Used
  BY DEF HistInv, RecencyTyped, ToSet
<1>6. DOMAIN a \subseteq Nat /\ DOMAIN recency \subseteq Nat
  <2>1. Len(a) \in Nat /\ DOMAIN a = 1 .. Len(a)
    BY <1>1, LenProperties
  <2>2. Len(recency) \in Nat /\ DOMAIN recency = 1 .. Len(recency)
    BY LenProperties DEF HistInv, RecencyTyped
  <2> QED BY <2>1, <2>2
<1>7. ASSUME NEW p \in DOMAIN a, NEW q \in DOMAIN a, a[p] = a[q] PROVE p = q
  <2>1. CASE p = 1 \/ q = 1
    BY <1>1, <1>7, <2>1
  <2>2. CASE p # 1 /\ q # 1
    <3>1. Before(i, p) = Before(i, q)
      BY <1>1, <1>7, <2>2 DEF HistInv, RecencyTyped
    <3>2. ~(p < q) /\ ~(q < p)
      <4>1. Before(i, p) \in Nat
        BY <1>1, <1>6, <2>2
      <4> QED BY <1>1, <2>2, <3>1, <4>1
    <3> QED BY <1>6, <3>2
  <2> QED BY <2>1, <2>2
<1>8. RecencyTyped'
  <2>1. recency' = a
    BY DEF a
  <2> QED BY <1>1, <1>2, <1>7, <2>1 DEF RecencyTyped, ToSet
<1>9. ASSUME NEW p \in DOMAIN a, NEW q \in DOMAIN a, p < q
      PROVE  \/ diskbuf'[a[p]].usage_tag > diskbuf'[a[q]].usage_tag
             \/ diskbuf'[a[p]].usage_tag = 0 /\ diskbuf'[a[q]].usage_tag = 0
  <2>1. q # 1 /\ a[q] \in Used \ {i}
    <3>1. p >= 1
      BY <1>1, <1>6
    <3>2. q # 1
      BY <1>6, <1>9, <3>1
    <3> QED BY <1>4, <3>2
  <2>2. CASE p = 1
    <3>1. diskbuf'[a[p]].usage_tag = UsageTagMax
      BY <1>1, <1>2, <2>2
    <3>2. diskbuf'[a[q]].usage_tag < UsageTagMax
      BY <1>2, <2>1
    <3>3. diskbuf'[a[q]].usage_tag \in Nat
      <4>1. diskbuf[a[q]] \in Entry
        BY <1>2, <2>1
      <4>2. diskbuf'[a[q]] \in Entry
        BY <1>3, <2>1, <4>1, AgedType
      <4> QED BY <4>2, DiskbufAssumption DEF Entry
    <3> QED BY <3>1, <3>2, <3>3, DiskbufAssumption
  <2>3. CASE p # 1
    <3>1. /\ Before(i, p) \in DOMAIN recency /\ a[p] = recency[Before(i, p)]
          /\ Before(i, q) \in DOMAIN recency /\ a[q] = recency[Before(i, q)]
          /\ Before(i, p) < Before(i, q)
      BY <1>1, <1>9, <2>1, <2>3
    <3>2. Hotter(a[p], a[q])
      BY <3>1 DEF HistInv
    <3>3. a[p] \in Used \ {i}
      BY <1>4, <2>3
    <3>4. /\ diskbuf[a[p]] \in Entry /\ diskbuf'[a[p]] = Aged(diskbuf[a[p]])
          /\ diskbuf[a[q]] \in Entry /\ diskbuf'[a[q]] = Aged(diskbuf[a[q]])
      BY <1>2, <1>3, <2>1, <3>3
    <3> DEFINE x == diskbuf[a[p]]
               y == diskbuf[a[q]]
    <3>5. /\ x \in Entry /\ y \in Entry
          /\ x.usage_tag > y.usage_tag \/ (x.usage_tag = 0 /\ y.usage_tag = 0)
      BY <3>2, <3>4 DEF Hotter
    <3> HIDE DEF x, y
    <3>6. \/ Aged(x).usage_tag > Aged(y).usage_tag
          \/ Aged(x).usage_tag = 0 /\ Aged(y).usage_tag = 0
      BY <3>5, AgedHotter
    <3> QED BY <3>4, <3>6 DEF x, y
  <2> QED BY <2>2, <2>3
<1>10. recency' = a
  BY DEF a
<1> QED BY <1>8, <1>9, <1>10 DEF HistInv, Hotter

\* No call breaks the order of the tags.
LEMMA HistInvInductive ==
  ASSUME TypeOK, HistInv, [HistNext]_histVars
  PROVE  HistInv'
<1>1. CASE Mount /\ recency' = IF Fat32 THEN <<1, 0>> ELSE <<0>>
  <2>1. PICK n, m : diskbuf' = [i \in Index |-> IF i = 0 THEN BootEntry(n)
                                                ELSE IF i = 1 /\ Fat32 THEN FsinfoEntry(m)
                                                ELSE NoEntry]
    BY <1>1 DEF Mount
  <2>2. 0 \in Index /\ 1 \in Index
    BY DiskbufAssumption DEF Index
  <2>3. /\ BootEntry(n) # NoEntry
        /\ BootEntry(n).usage_tag = IF Fat32 THEN UsageTagMax - 1 ELSE UsageTagMax
        /\ Fat32 => FsinfoEntry(m) # NoEntry /\ FsinfoEntry(m).usage_tag = UsageTagMax
    BY MountEntries, NoEntryAssumption DEF TypeOK
  <2>4. CASE Fat32
    <3>1. recency' = <<1, 0>> /\ Used' = {0, 1}
      BY <1>1, <2>1, <2>2, <2>3, <2>4 DEF Used
    <3>2. DOMAIN recency' = {1, 2} /\ recency'[1] = 1 /\ recency'[2] = 0
      BY <3>1
    <3>3. RecencyTyped'
      BY <2>2, <3>1, <3>2 DEF RecencyTyped, ToSet
    <3>4. diskbuf'[1].usage_tag > diskbuf'[0].usage_tag
      BY <2>1, <2>2, <2>3, <2>4, DiskbufAssumption
    <3> QED BY <3>2, <3>3, <3>4 DEF HistInv, Hotter
  <2>5. CASE ~Fat32
    <3>1. recency' = <<0>> /\ Used' = {0}
      BY <1>1, <2>1, <2>2, <2>3, <2>5 DEF Used
    <3>2. DOMAIN recency' = {1} /\ recency'[1] = 0
      BY <3>1
    <3>3. RecencyTyped'
      BY <2>2, <3>1, <3>2 DEF RecencyTyped, ToSet
    <3> QED BY <3>2, <3>3 DEF HistInv
  <2> QED BY <2>4, <2>5
<1>2. CASE Unmount /\ recency' = <<>>
  BY <1>2 DEF Unmount, HistInv, RecencyTyped, ToSet, Used
<1>3. ASSUME NEW b \in Block, Read(b), recency' = Accessed(held') PROVE HistInv'
  <2>1. PICK i \in Index, n \in Transferred(b) :
          /\ IsTarget(b, i) /\ Flush(b, i)
          /\ Settle(i, Filled(Allocated(b, i), n, disk'))
    BY <1>3 DEF Read
  <2>2. /\ Filled(Allocated(b, i), n, disk') \in Entry
        /\ Filled(Allocated(b, i), n, disk').usage_tag = UsageTagMax
    BY <2>1, FlushType, AllocatedType, FilledType
  <2>3. held' = i
    BY <2>1 DEF Settle
  <2> QED BY <1>3, <2>1, <2>2, <2>3, AccessOrders
<1>4. CASE UNCHANGED histVars
  <2>1. recency' = recency /\ diskbuf' = diskbuf
    BY <1>4 DEF histVars, vars
  <2> QED BY <2>1 DEF HistInv, RecencyTyped, Hotter, Used
<1> QED BY <1>1, <1>2, <1>3, <1>4 DEF HistNext

\* It holds throughout.
LEMMA HistInvCorrect == HistSpec => [](TypeOK /\ HistInv)
<1>1. HistInit => HistInv
  BY DEF HistInit, Init, HistInv, RecencyTyped, ToSet, Used
<1>2. HistSpec => []TypeOK
  BY HistImplementsRead, ReadSpecRefinesSpec, TypeCorrect, PTL
<1> QED BY <1>1, <1>2, HistInvInductive, PTL DEF HistSpec

\* The usage tags are the order of the accesses, for as long as they have not
\* run out, whatever the number of entries and the range of the tags
\* (fat.c:372, fat.c:511).
THEOREM TagsAlwaysFollowRecency == HistSpec => []TagsFollowRecency
<1>1. HistInv => TagsFollowRecency
  BY DEF HistInv, RecencyTyped, Hotter, TagsFollowRecency
<1> QED BY <1>1, HistInvCorrect, PTL

\* What is replaced was accessed longer ago than all other entries, or not in
\* the last UsageTagMax accesses (the scan for the smallest tag, fat.c:352-377).
THEOREM LeastRecentEvicted == HistSpec => EvictsLeastRecent
<1> DEFINE Evicted(p) == diskbuf'[recency[p]].block # diskbuf[recency[p]].block
           Oldest(p) == p = Len(recency) \/ diskbuf[recency[p]].usage_tag = 0
<1>1. TypeOK /\ HistInv /\ [HistNext]_histVars =>
        [held' # NoEntry => \A p \in DOMAIN recency : Evicted(p) => Oldest(p)]_histVars
  <2> SUFFICES ASSUME TypeOK, HistInv, HistNext, held' # NoEntry,
                      NEW p \in DOMAIN recency, Evicted(p)
               PROVE  Oldest(p)
    OBVIOUS
  <2>1. PICK b \in Block : Read(b)
    BY DEF HistNext, Mount, Unmount
  <2>2. PICK i \in Index, n \in Transferred(b) :
          /\ IsTarget(b, i) /\ Flush(b, i)
          /\ Settle(i, Filled(Allocated(b, i), n, disk'))
    BY <2>1 DEF Read
  <2>3. /\ Filled(Allocated(b, i), n, disk') \in Entry
        /\ Filled(Allocated(b, i), n, disk').block = b
    BY <2>2, FlushType, AllocatedType, FilledType
  <2>4. recency[p] \in Used
    BY DEF HistInv, RecencyTyped, ToSet
  <2>5. recency[p] = i
    BY <2>2, <2>3, <2>4, SettleOthers
  <2>6. IsVictim(i) /\ Free = {}
    BY <2>2, <2>3, <2>4, <2>5, SettleOthers DEF IsTarget, IsCached, IsAlloc, IsRealloc, Hits, Free, Used
  <2>7. Len(recency) \in Nat /\ DOMAIN recency = 1 .. Len(recency)
    BY LenProperties DEF HistInv, RecencyTyped
  <2>8. CASE p # Len(recency)
    <3> DEFINE j == recency[Len(recency)]
    <3>1. Len(recency) \in DOMAIN recency /\ p < Len(recency)
      BY <2>7, <2>8
    <3>2. Hotter(i, j) /\ j \in Used
      BY <2>5, <3>1 DEF HistInv, RecencyTyped, ToSet
    <3>3. diskbuf[i].usage_tag \in Int /\ diskbuf[j].usage_tag \in Int
      BY <2>4, <2>5, <3>2, DiskbufAssumption DEF Used, TypeOK, Entry
    <3>4. diskbuf[i].usage_tag <= diskbuf[j].usage_tag
      BY <2>6, <3>2, <3>3 DEF IsVictim
    <3>5. diskbuf[i].usage_tag = 0
      BY <3>2, <3>3, <3>4 DEF Hotter
    <3> QED BY <2>5, <3>5
  <2> QED BY <2>8
<1> QED BY <1>1, HistInvCorrect, PTL DEF HistSpec, EvictsLeastRecent
-----------------------------------------------------------------------------
\* What the driver has of a sector, dirty in a buffer or on the drive.

InUse(buf) == {i \in Index : buf[i] # NoEntry}

\* Entry i of the array buf is a dirty copy of sector l.
DirtyCopy(buf, i, l) ==
  buf[i].dirty /\ \E o \in Span(buf[i].block) : LbaOf(buf[i].block, o) = l

\* Store, for any array and drive.
StoreOf(buf, d, l) ==
  IF \E i \in InUse(buf) : DirtyCopy(buf, i, l)
  THEN LET i == CHOOSE i \in InUse(buf) : DirtyCopy(buf, i, l)
           o == CHOOSE o \in Span(buf[i].block) : LbaOf(buf[i].block, o) = l
       IN  buf[i].data[o]
  ELSE d[l]

\* The volume behind the cache, sector by sector.
LEMMA StoreIsStoreOf ==
  ASSUME NEW l \in Lba
  PROVE  Store[l] = StoreOf(diskbuf, disk, l) /\ Store'[l] = StoreOf(diskbuf', disk', l)
<1>1. Store[l] = StoreOf(diskbuf, disk, l)
  BY DEF Store, StoreOf, Used, Covers, InUse, DirtyCopy
<1>2. Store'[l] = StoreOf(diskbuf', disk', l)
  BY DEF Store, StoreOf, Used, Covers, InUse, DirtyCopy
<1> QED BY <1>1, <1>2

\* A sector is found in the only dirty copy there is, or on the drive.
LEMMA StoreOfProperties ==
  ASSUME NEW buf, NEW d, NEW l
  PROVE  /\ \A i \in InUse(buf) :
              /\ buf[i].block \in Block /\ DirtyCopy(buf, i, l)
              /\ \A j \in InUse(buf) : DirtyCopy(buf, j, l) => j = i
              => \A o \in Span(buf[i].block) :
                   LbaOf(buf[i].block, o) = l => StoreOf(buf, d, l) = buf[i].data[o]
         /\ (\A i \in InUse(buf) : ~DirtyCopy(buf, i, l)) => StoreOf(buf, d, l) = d[l]
<1>1. ASSUME NEW i \in InUse(buf), buf[i].block \in Block, DirtyCopy(buf, i, l),
             \A j \in InUse(buf) : DirtyCopy(buf, j, l) => j = i,
             NEW o \in Span(buf[i].block), LbaOf(buf[i].block, o) = l
      PROVE  StoreOf(buf, d, l) = buf[i].data[o]
  <2> DEFINE j == CHOOSE j \in InUse(buf) : DirtyCopy(buf, j, l)
             p == CHOOSE p \in Span(buf[i].block) : LbaOf(buf[i].block, p) = l
  <2>1. j \in InUse(buf) /\ DirtyCopy(buf, j, l)
    BY <1>1, Zenon
  <2>2. j = i
    BY <1>1, <2>1
  <2>3. p \in Span(buf[i].block) /\ LbaOf(buf[i].block, p) = l
    BY <1>1, Zenon
  <2>4. p = o
    BY <1>1, <2>3, SectorsDisjoint
  <2>5. StoreOf(buf, d, l) = buf[j].data[CHOOSE q \in Span(buf[j].block) : LbaOf(buf[j].block, q) = l]
    BY <2>1 DEF StoreOf
  <2> HIDE DEF j
  <2>6. StoreOf(buf, d, l) = buf[i].data[p]
    BY <2>2, <2>5
  <2> QED BY <2>4, <2>6
<1>2. ASSUME \A i \in InUse(buf) : ~DirtyCopy(buf, i, l) PROVE StoreOf(buf, d, l) = d[l]
  BY <1>2 DEF StoreOf
<1> QED BY <1>1, <1>2

\* Two entries in use are no copies of the same sector.
LEMMA CopiesUnique ==
  ASSUME TypeOK, UniqueBlocks, NEW l, NEW i \in Used, NEW j \in Used,
         DirtyCopy(diskbuf, i, l), DirtyCopy(diskbuf, j, l)
  PROVE  i = j
<1>1. diskbuf[i].block \in Block /\ diskbuf[j].block \in Block
  BY DEF Used, TypeOK, Entry
<1>2. diskbuf[i].block = diskbuf[j].block
  BY <1>1, SectorsDisjoint DEF DirtyCopy
<1> QED BY <1>2 DEF UniqueBlocks

\* Writing a whole victim back leaves its sectors on the drive.
LEMMA FlushKeeps ==
  ASSUME ~DriveFaults, TypeOK, NEW b \in Block, NEW i \in Used, Flush(b, i),
         IsRealloc(b, i), diskbuf[i].dirty, NEW o \in Span(diskbuf[i].block)
  PROVE  disk'[LbaOf(diskbuf[i].block, o)] = diskbuf[i].data[o]
<1> DEFINE e == diskbuf[i]
           l == LbaOf(e.block, o)
<1>1. e \in Entry /\ e.block \in Block
  BY DEF Used, TypeOK, Entry
<1>2. PICK n \in Transferred(e.block) : disk' = WrittenBack(e, n)
  BY DEF Flush
<1>3. o < n
  <2>1. CASE e.block.type = "SECTOR"
    BY <1>2, <2>1, SMT DEF Transferred, Span
  <2>2. CASE e.block.type # "SECTOR"
    BY <1>2, <2>2, GeometryAssumption, SMT DEF Transferred, Span, Offsets
  <2> QED BY <2>1, <2>2
<1>4. l \in Lba
  BY <1>1, BlockFacts
<1> DEFINE p == CHOOSE p \in Span(e.block) : LbaOf(e.block, p) = l
<1>5. p \in Span(e.block) /\ LbaOf(e.block, p) = l
  BY Zenon
<1>6. p = o
  BY <1>1, <1>5, SectorsDisjoint
<1>7. disk'[l] = e.data[p]
  BY <1>2, <1>3, <1>4 DEF WrittenBack
<1> QED BY <1>6, <1>7

\* A flush leaves the sectors alone that are not the victim's.
LEMMA FlushSpares ==
  ASSUME NEW b, NEW i, Flush(b, i), NEW l \in Lba, disk \in [Lba -> Datum],
         ~(IsRealloc(b, i) /\ DirtyCopy(diskbuf, i, l))
  PROVE  disk'[l] = disk[l]
<1>1. CASE IsRealloc(b, i) /\ diskbuf[i].dirty
  <2>1. PICK n : disk' = WrittenBack(diskbuf[i], n)
    BY <1>1 DEF Flush
  <2>2. ~ \E o \in Span(diskbuf[i].block) : LbaOf(diskbuf[i].block, o) = l
    BY <1>1 DEF DirtyCopy
  <2> QED BY <2>1, <2>2 DEF WrittenBack
<1>2. CASE ~(IsRealloc(b, i) /\ diskbuf[i].dirty)
  BY <1>2 DEF Flush
<1> QED BY <1>1, <1>2

\* An access to block b, through entry i, keeps every sector outside b.
LEMMA AccessSpares ==
  ASSUME ~DriveFaults, TypeOK, UniqueBlocks, NEW b \in Block, NEW i \in Index,
         IsTarget(b, i), Flush(b, i), NEW e \in Entry, e.block = b, Settle(i, e),
         NEW l \in Lba, ~ \E o \in Span(b) : LbaOf(b, o) = l
  PROVE  Store'[l] = Store[l]
<1>1. /\ diskbuf'[i] = e /\ Used' = Used \cup {i}
      /\ \A j \in Used' \ {i} :
           /\ j \in Used /\ diskbuf[j] \in Entry
           /\ diskbuf'[j].block = diskbuf[j].block
           /\ diskbuf'[j].data = diskbuf[j].data
           /\ diskbuf'[j].dirty = diskbuf[j].dirty
  BY SettleOthers
<1>2. Used = InUse(diskbuf) /\ Used' = InUse(diskbuf')
  BY DEF Used, InUse
<1>3. ~DirtyCopy(diskbuf', i, l)
  BY <1>1 DEF DirtyCopy
<1>4. \A j \in Used' \ {i} : DirtyCopy(diskbuf', j, l) <=> DirtyCopy(diskbuf, j, l)
  BY <1>1 DEF DirtyCopy
<1>5. disk \in [Lba -> Datum]
  BY DEF TypeOK
<1>6. ASSUME NEW j \in Used, j # i, DirtyCopy(diskbuf, j, l)
      PROVE  StoreOf(diskbuf', disk', l) = StoreOf(diskbuf, disk, l)
  <2>1. PICK o \in Span(diskbuf[j].block) : LbaOf(diskbuf[j].block, o) = l
    BY <1>6 DEF DirtyCopy
  <2>2. diskbuf[j].block \in Block
    BY DEF Used, TypeOK, Entry
  <2>3. \A k \in InUse(diskbuf) : DirtyCopy(diskbuf, k, l) => k = j
    BY <1>2, <1>6, CopiesUnique
  <2>4. StoreOf(diskbuf, disk, l) = diskbuf[j].data[o]
    BY <1>2, <1>6, <2>1, <2>2, <2>3, StoreOfProperties
  <2>5. j \in Used' \ {i}
    BY <1>1, <1>6
  <2>6. /\ DirtyCopy(diskbuf', j, l) /\ diskbuf'[j].block = diskbuf[j].block
        /\ diskbuf'[j].data = diskbuf[j].data
    BY <1>1, <1>4, <1>6, <2>5
  <2>7. \A k \in InUse(diskbuf') : DirtyCopy(diskbuf', k, l) => k = j
    BY <1>1, <1>2, <1>3, <1>4, <2>3
  <2>8. StoreOf(diskbuf', disk', l) = diskbuf'[j].data[o]
    BY <1>2, <2>1, <2>2, <2>5, <2>6, <2>7, StoreOfProperties
  <2> QED BY <2>4, <2>6, <2>8
<1>7. ASSUME \A j \in Used \ {i} : ~DirtyCopy(diskbuf, j, l)
      PROVE  StoreOf(diskbuf', disk', l) = StoreOf(diskbuf, disk, l)
  <2>1. StoreOf(diskbuf', disk', l) = disk'[l]
    <3>1. \A j \in InUse(diskbuf') : ~DirtyCopy(diskbuf', j, l)
      BY <1>1, <1>2, <1>3, <1>4, <1>7
    <3> QED BY <3>1, StoreOfProperties
  <2>2. CASE i \in Used /\ DirtyCopy(diskbuf, i, l)
    <3>1. PICK o \in Span(diskbuf[i].block) : LbaOf(diskbuf[i].block, o) = l
      BY <2>2 DEF DirtyCopy
    <3>2. diskbuf[i].block \in Block /\ diskbuf[i].dirty
      BY <2>2 DEF Used, TypeOK, Entry, DirtyCopy
    <3>3. \A k \in InUse(diskbuf) : DirtyCopy(diskbuf, k, l) => k = i
      BY <1>2, <1>7
    <3>4. StoreOf(diskbuf, disk, l) = diskbuf[i].data[o]
      BY <1>2, <2>2, <3>1, <3>2, <3>3, StoreOfProperties
    <3>5. IsRealloc(b, i)
      <4>1. diskbuf[i].block # b
        BY <3>1
      <4> QED BY <2>2, <4>1 DEF IsTarget, IsCached, IsAlloc, Hits, Free, Used
    <3>6. disk'[l] = diskbuf[i].data[o]
      BY <2>2, <3>1, <3>2, <3>5, FlushKeeps
    <3> QED BY <2>1, <3>4, <3>6
  <2>3. CASE ~(i \in Used /\ DirtyCopy(diskbuf, i, l))
    <3>1. StoreOf(diskbuf, disk, l) = disk[l]
      <4>1. \A j \in InUse(diskbuf) : ~DirtyCopy(diskbuf, j, l)
        BY <1>2, <1>7, <2>3
      <4> QED BY <4>1, StoreOfProperties
    <3>2. ~(IsRealloc(b, i) /\ DirtyCopy(diskbuf, i, l))
      BY <2>3 DEF IsRealloc, Free, Used
    <3> QED BY <1>5, <2>1, <3>1, <3>2, FlushSpares
  <2> QED BY <2>2, <2>3
<1> QED BY <1>6, <1>7, StoreIsStoreOf

\* A change in place keeps every sector that is not the entry's.
LEMMA ModifySpares ==
  ASSUME TypeOK, UniqueBlocks, NEW o \in Offsets, NEW value \in Value, Modify(o, value),
         NEW l \in Lba, ~ \E p \in Span(diskbuf[held].block) : LbaOf(diskbuf[held].block, p) = l
  PROVE  Store'[l] = Store[l] /\ diskbuf'[held'].block = diskbuf[held].block
<1>1. /\ diskbuf' = [diskbuf EXCEPT ![held].data[o] = value, ![held].dirty = TRUE]
      /\ held \in Used /\ held' = held /\ disk' = disk
  BY DEF Modify, TypeOK
<1>2. diskbuf[held] \in Entry /\ held \in Index /\ diskbuf \in [Index -> Entry \cup {NoEntry}]
  BY <1>1 DEF Used, TypeOK
<1> DEFINE e == [diskbuf[held] EXCEPT !.data[o] = value, !.dirty = TRUE]
<1>3. e \in Entry /\ e.block = diskbuf[held].block
  BY <1>2 DEF Entry, Datum
<1>4. diskbuf' = [diskbuf EXCEPT ![held] = e]
  BY <1>1
<1> HIDE DEF e
<1>5. diskbuf'[held] = e /\ \A j \in Index \ {held} : diskbuf'[j] = diskbuf[j]
  BY <1>2, <1>4
<1>6. InUse(diskbuf') = InUse(diskbuf) /\ InUse(diskbuf) = Used
  BY <1>1, <1>3, <1>5, NoEntryAssumption DEF InUse, Used
<1>7. ~DirtyCopy(diskbuf', held, l) /\ ~DirtyCopy(diskbuf, held, l)
  BY <1>3, <1>5 DEF DirtyCopy
<1>8. \A j \in Used \ {held} : /\ diskbuf'[j] = diskbuf[j]
                               /\ DirtyCopy(diskbuf', j, l) <=> DirtyCopy(diskbuf, j, l)
  BY <1>5 DEF Used, DirtyCopy
<1>9. StoreOf(diskbuf', disk', l) = StoreOf(diskbuf, disk, l)
  <2>1. CASE \E j \in Used : DirtyCopy(diskbuf, j, l)
    <3>1. PICK j \in Used : DirtyCopy(diskbuf, j, l)
      BY <2>1
    <3>2. j # held
      BY <1>7, <3>1
    <3>3. PICK p \in Span(diskbuf[j].block) : LbaOf(diskbuf[j].block, p) = l
      BY <3>1 DEF DirtyCopy
    <3>4. diskbuf[j].block \in Block
      BY DEF Used, TypeOK, Entry
    <3>5. \A k \in InUse(diskbuf) : DirtyCopy(diskbuf, k, l) => k = j
      BY <1>6, <3>1, CopiesUnique
    <3>6. StoreOf(diskbuf, disk, l) = diskbuf[j].data[p]
      BY <1>6, <3>1, <3>3, <3>4, <3>5, StoreOfProperties
    <3>7. DirtyCopy(diskbuf', j, l) /\ diskbuf'[j] = diskbuf[j]
      BY <1>8, <3>1, <3>2
    <3>8. \A k \in InUse(diskbuf') : DirtyCopy(diskbuf', k, l) => k = j
      BY <1>6, <1>7, <1>8, <3>5
    <3>9. StoreOf(diskbuf', disk', l) = diskbuf[j].data[p]
      BY <1>6, <3>3, <3>4, <3>7, <3>8, StoreOfProperties
    <3> QED BY <3>6, <3>9
  <2>2. CASE ~ \E j \in Used : DirtyCopy(diskbuf, j, l)
    <3>1. \A j \in InUse(diskbuf) : ~DirtyCopy(diskbuf, j, l)
      BY <1>6, <2>2
    <3>2. \A j \in InUse(diskbuf') : ~DirtyCopy(diskbuf', j, l)
      BY <1>6, <1>7, <1>8, <2>2
    <3>3. StoreOf(diskbuf, disk, l) = disk[l]
      BY <3>1, StoreOfProperties
    <3>4. StoreOf(diskbuf', disk', l) = disk'[l]
      BY <3>2, StoreOfProperties
    <3> QED BY <1>1, <3>3, <3>4
  <2> QED BY <2>1, <2>2
<1> QED BY <1>1, <1>3, <1>5, <1>9, StoreIsStoreOf

\* An access to one block changes no other sector: a dirty victim is on the
\* drive, whole and in its place, before its buffer is used for another block
\* (flush_diskbuf_entry, fat.c:290 and 380).
THEOREM OtherSectorsSpared == ASSUME ~DriveFaults PROVE Spec => OtherSectorsKept
<1> DEFINE Hit(l) == \E o \in Span(diskbuf'[held'].block) : LbaOf(diskbuf'[held'].block, o) = l
<1>1. TypeOK /\ CacheInv /\ [Next]_vars =>
        [held' # NoEntry => \A l \in Lba : Store'[l] # Store[l] => Hit(l)]_vars
  <2> SUFFICES ASSUME TypeOK, UniqueBlocks, Next, held' # NoEntry, NEW l \in Lba, ~Hit(l)
               PROVE  Store'[l] = Store[l]
    BY DEF CacheInv
  <2>1. CASE Mount \/ Unmount
    BY <2>1 DEF Mount, Unmount
  <2>2. ASSUME NEW b \in Block, Read(b) PROVE Store'[l] = Store[l]
    <3>1. PICK i \in Index, n \in Transferred(b) :
            /\ IsTarget(b, i) /\ Flush(b, i)
            /\ Settle(i, Filled(Allocated(b, i), n, disk'))
      BY <2>2 DEF Read
    <3> DEFINE e == Filled(Allocated(b, i), n, disk')
    <3>2. e \in Entry /\ e.block = b
      BY <3>1, FlushType, AllocatedType, FilledType
    <3> HIDE DEF e
    <3>3. diskbuf'[held'] = e /\ Settle(i, e)
      BY <3>1 DEF Settle, e
    <3> QED BY <3>1, <3>2, <3>3, AccessSpares
  <2>3. ASSUME NEW b \in Block, NEW values \in [Span(b) -> Value], Write(b, values)
        PROVE  Store'[l] = Store[l]
    <3>1. PICK i \in Index :
            /\ IsTarget(b, i) /\ Flush(b, i)
            /\ Settle(i, Overwrite(Allocated(b, i), values))
      BY <2>3 DEF Write
    <3> DEFINE e == Overwrite(Allocated(b, i), values)
    <3>2. e \in Entry /\ e.block = b
      BY <3>1, AllocatedType, OverwriteType
    <3> HIDE DEF e
    <3>3. diskbuf'[held'] = e /\ Settle(i, e)
      BY <3>1 DEF Settle, e
    <3> QED BY <3>1, <3>2, <3>3, AccessSpares
  <2>4. ASSUME NEW o \in Offsets, NEW value \in Value, Modify(o, value)
        PROVE  Store'[l] = Store[l]
    <3>1. diskbuf'[held'].block = diskbuf[held].block
      <4>1. /\ diskbuf' = [diskbuf EXCEPT ![held].data[o] = value, ![held].dirty = TRUE]
            /\ held' = held /\ held \in Index /\ diskbuf[held] \in Entry
        BY <2>4 DEF Modify, TypeOK, Used
      <4> QED BY <4>1 DEF TypeOK, Entry
    <3> QED BY <2>4, <3>1, ModifySpares
  <2> QED BY <2>1, <2>2, <2>3, <2>4 DEF Next, ReadNext
<1> QED BY <1>1, TypeCorrect, CacheInvCorrect, PTL DEF Spec, OtherSectorsKept

-----------------------------------------------------------------------------
\* The memory of the entries.

\* An entry that has room for its block, or is entry 0 as mount made it.
RoomAt(i) ==
  \/ Needs(diskbuf[i].block) <= room[i]
  \/ i = 0 /\ diskbuf[i].block.type = "SECTOR" /\ room[i] = BootRoom

RoomInv == room \in [Index -> Nat] /\ \A i \in Used : RoomAt(i)

\* The history takes part in no guard.
LEMMA RoomImplementsCache == RoomSpec => Spec
<1>1. RoomInit => Init
  BY DEF RoomInit
<1>2. [RoomNext]_roomVars => [Next]_vars
  BY DEF RoomNext, Next, ReadNext, roomVars, vars
<1> QED BY <1>1, <1>2, PTL DEF RoomSpec, Spec

\* The number of sectors of a block is a positive number.
LEMMA NeedsType ==
  ASSUME NEW b
  PROVE  Needs(b) \in Nat /\ Needs(b) >= 1
BY GeometryAssumption, SMT DEF Needs

\* A block of the same type as another needs as much.
LEMMA SameTypeNeeds ==
  ASSUME NEW a \in Block, NEW b \in Block, a.type = b.type
  PROVE  Needs(a) = Needs(b)
BY DEF Needs

\* The memory behind the target of an access has room for the block, unless the
\* target is entry 0 as mount made it.
LEMMA TargetHasRoom ==
  ASSUME TypeOK, RoomInv, NEW b \in Block, NEW i \in Index, IsTarget(b, i)
  PROVE  /\ RoomAfter(b, i) \in Nat
         /\ \/ Needs(b) <= RoomAfter(b, i)
            \/ i = 0 /\ b.type = "SECTOR" /\ RoomAfter(b, i) = BootRoom
<1>1. Needs(b) \in Nat /\ room[i] \in Nat
  BY NeedsType DEF RoomInv
<1>2. CASE RoomAfter(b, i) = Needs(b)
  BY <1>1, <1>2
<1>3. CASE RoomAfter(b, i) = room[i] /\ ~IsAlloc(b, i)
           /\ (IsRealloc(b, i) => diskbuf[i].block.type = b.type)
  <2>1. i \in Used /\ diskbuf[i].block \in Block /\ diskbuf[i].block.type = b.type
    <3>1. CASE IsCached(b, i)
      BY <3>1 DEF IsCached, Hits, Used, TypeOK, Entry
    <3>2. CASE IsRealloc(b, i)
      BY <1>3, <3>2 DEF IsRealloc, Free, Used, TypeOK, Entry
    <3> QED BY <1>3, <3>1, <3>2 DEF IsTarget
  <2>2. RoomAt(i)
    BY <2>1 DEF RoomInv
  <2>3. Needs(diskbuf[i].block) = Needs(b)
    BY <2>1, SameTypeNeeds
  <2> QED BY <1>1, <1>3, <2>1, <2>2, <2>3 DEF RoomAt
<1> QED BY <1>2, <1>3 DEF RoomAfter

\* An access keeps every buffer large enough.
LEMMA AccessKeepsRoom ==
  ASSUME TypeOK, RoomInv, NEW b \in Block, NEW i \in Index, IsTarget(b, i),
         NEW e \in Entry, e.block = b, Settle(i, e), Resize(b)
  PROVE  RoomInv'
<1>1. held' = i
  BY DEF Settle
<1>2. /\ room' \in [Index -> Nat] /\ room'[i] = RoomAfter(b, i)
      /\ \A j \in Index : j # i => room'[j] = room[j]
  BY <1>1, TargetHasRoom DEF Resize, RoomInv
<1>3. RoomAt(i)'
  BY <1>2, TargetHasRoom, SettleOthers DEF RoomAt
<1>4. ASSUME NEW j \in Used', j # i PROVE RoomAt(j)'
  <2>1. j \in Used /\ j \in Index /\ diskbuf'[j].block = diskbuf[j].block
    BY <1>4, SettleOthers DEF Used
  <2>2. room'[j] = room[j] /\ RoomAt(j)
    BY <1>2, <1>4, <2>1 DEF RoomInv
  <2> QED BY <2>1, <2>2 DEF RoomAt
<1> QED BY <1>2, <1>3, <1>4 DEF RoomInv

\* A filled or overwritten entry keeps its block.
LEMMA RoomInvInductive == RoomInv /\ TypeOK /\ [RoomNext]_roomVars => RoomInv'
<1> SUFFICES ASSUME RoomInv, TypeOK, [RoomNext]_roomVars PROVE RoomInv'
  OBVIOUS
<1>1. CASE Mount /\ MountRoom
  <2>1. PICK n, m : diskbuf' = [i \in Index |-> IF i = 0 THEN BootEntry(n)
                                   ELSE IF i = 1 /\ Fat32 THEN FsinfoEntry(m) ELSE NoEntry]
    BY <1>1 DEF Mount
  <2>2. room' \in [Index -> Nat]
    BY <1>1, NeedsType, BootRoomAssumption DEF MountRoom
  <2>3. BootEntry(n).block = SectorBlock(0) /\ FsinfoEntry(m).block = SectorBlock(1)
    BY DEF BootEntry, FsinfoEntry, Filled, NewEntry
  <2>4. ASSUME NEW i \in Used' PROVE RoomAt(i)'
    <3>1. i \in Index /\ (i = 0 \/ (i = 1 /\ Fat32))
      BY <2>1 DEF Used
    <3>2. CASE i = 0
      BY <1>1, <2>1, <2>3, <3>1, <3>2 DEF MountRoom, RoomAt, SectorBlock
    <3>3. CASE i = 1 /\ Fat32
      <4>1. diskbuf'[i].block = SectorBlock(1) /\ room'[i] = Needs(SectorBlock(1))
        BY <1>1, <2>1, <2>3, <3>1, <3>3 DEF MountRoom
      <4> QED BY <4>1, NeedsType DEF RoomAt
    <3> QED BY <3>1, <3>2, <3>3
  <2> QED BY <2>2, <2>4 DEF RoomInv
<1>2. CASE Unmount /\ room' = [i \in Index |-> 0]
  BY <1>2 DEF Unmount, RoomInv, Used
<1>3. ASSUME NEW b \in Block, Read(b), Resize(b) PROVE RoomInv'
  <2>1. PICK i \in Index, n \in Transferred(b) :
          IsTarget(b, i) /\ Flush(b, i) /\ Settle(i, Filled(Allocated(b, i), n, disk'))
    BY <1>3 DEF Read
  <2>2. disk' \in [Lba -> Datum]
    BY <2>1, FlushType
  <2>3. /\ Filled(Allocated(b, i), n, disk') \in Entry
        /\ Filled(Allocated(b, i), n, disk').block = b
    BY <2>1, <2>2, AllocatedType, FilledType
  <2> QED BY <1>3, <2>1, <2>3, AccessKeepsRoom
<1>4. ASSUME NEW b \in Block, NEW values \in [Span(b) -> Value], Write(b, values), Resize(b)
      PROVE  RoomInv'
  <2>1. PICK i \in Index :
          IsTarget(b, i) /\ Flush(b, i) /\ Settle(i, Overwrite(Allocated(b, i), values))
    BY <1>4 DEF Write
  <2>2. /\ Overwrite(Allocated(b, i), values) \in Entry
        /\ Overwrite(Allocated(b, i), values).block = b
    BY <2>1, AllocatedType, OverwriteType
  <2> QED BY <1>4, <2>1, <2>2, AccessKeepsRoom
<1>5. ASSUME NEW o \in Offsets, NEW value \in Value, Modify(o, value), UNCHANGED room
      PROVE  RoomInv'
  <2>1. held \in Used /\ diskbuf[held] \in Entry
    BY <1>5 DEF Modify, TypeOK, Used
  <2>2. \A j \in Index : j # held => diskbuf'[j] = diskbuf[j]
    BY <1>5 DEF Modify, TypeOK
  <2>3. diskbuf'[held].block = diskbuf[held].block
    BY <1>5, <2>1 DEF Modify, TypeOK, Used, Entry
  <2>4. Used' \subseteq Used
    BY <2>1, <2>2 DEF Used
  <2> QED BY <1>5, <2>2, <2>3, <2>4 DEF RoomInv, RoomAt, Used
<1>6. CASE UNCHANGED roomVars
  BY <1>6 DEF roomVars, vars, RoomInv, RoomAt, Used
<1> QED BY <1>1, <1>2, <1>3, <1>4, <1>5, <1>6 DEF RoomNext

\* No buffer is too short for the block in it (BuffersHold) on a volume with
\* sectors of 512 bytes (BootRoom = 1), and on others none but that of entry 0, for
\* every cache, geometry and sequence of reads, writes, mounts and unmounts.
THEOREM BuffersAlwaysHold == RoomSpec => []BuffersHold
<1>1. RoomInit => RoomInv
  BY DEF RoomInit, Init, RoomInv, Used
<1>2. RoomSpec => []TypeOK
  BY RoomImplementsCache, TypeCorrect, PTL
<1>3. RoomInv => BuffersHold
  BY DEF RoomInv, RoomAt, BuffersHold
<1> QED BY <1>1, <1>2, <1>3, RoomInvInductive, PTL DEF RoomSpec
=============================================================================
