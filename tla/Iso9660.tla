------------------------------ MODULE Iso9660 ------------------------------
(***************************************************************************)
(* The ISO 9660 driver (fs/iso9660/iso9660.c) over its sector cache: mount, *)
(* the root directory with several iterators on it, the search for a name, *)
(* and the timestamps of an iterator's entry.  Every sector is read through *)
(* the cache.                                                              *)
(*                                                                         *)
(* Calls run one at a time; mount and match_name loop, and are modelled    *)
(* turn by turn.  A directory record is where it starts in its sector, its *)
(* owner, its size, and whether it has Rock Ridge extensions (a name and   *)
(* timestamps).                                                            *)
(***************************************************************************)
EXTENDS IsoDiskbuf, SequencesExt

CONSTANTS
  SectorSize,     \* fs->sector_size, in the units records are measured in
  DescSets,       \* the volume descriptor sets considered: sequences of kinds
  PathTable,      \* lba_pathtbl[0]
  DirLba,         \* the first sector of the root directory
  Directories,    \* its contents: sequences of sectors, each a sequence of records
  Iter,           \* iterators a caller holds at the same time
  Owners, Nobody, \* the files and directories, and none of them
  Wanted,         \* the names a caller may look for
  Fold(_),        \* a name in one case, as strncasecmp compares
  RockRidge       \* options.enable_rock_ridge, in a build with both extensions

FirstDesc == 16
NoLba     == 0    \* lba_primary_desc before a descriptor is found
NoRecord  == [pos |-> 0, owner |-> Nobody, size |-> 0, ext |-> FALSE]
Record    == [pos : 0 .. SectorSize - 1, owner : Owners, size : 1 .. SectorSize, ext : BOOLEAN]
Signed    == {"primary", "supplementary", "boot", "terminator"}

\* The records of a sector lie one after the other.
LaidOut(records) ==
  \A k \in DOMAIN records :
    /\ records[k].pos = IF k = 1 THEN 0 ELSE records[k - 1].pos + records[k - 1].size
    /\ records[k].pos + records[k].size <= SectorSize

\* The descriptors, the path table, the directory and a sector after it.
ASSUME IsoAssumption ==
  /\ SectorSize \in Nat \ {0} /\ Nobody \notin Owners
  /\ Lba \subseteq Nat \ {NoLba} /\ {PathTable, DirLba} \subseteq Lba /\ PathTable < DirLba
  /\ DescSets \subseteq Seq(Signed \cup {"other"})
  /\ \A set \in DescSets : /\ FirstDesc .. FirstDesc + Len(set) \subseteq Lba
                          /\ FirstDesc + Len(set) <= DirLba
  /\ Directories \subseteq Seq(Seq(Record))
  /\ \A d \in Directories : /\ Len(d) > 0 /\ DirLba .. DirLba + Len(d) \subseteq Lba
                           /\ \A s \in DOMAIN d : LaidOut(d[s])

VARIABLES
  mounted,   \* fs->mounted
  primary,   \* fs->lba_primary_desc
  root,      \* lba_data of the open root directory, NoLba while none is open
  it,        \* the iterators
  call,      \* the call in progress
  answer,    \* what the last call returned
  listed,    \* history: what each iterator has listed since it was started
  case_sensitive  \* options.case_sensitive, which create leaves as malloc gave it

rest == <<case_sensitive, mounted, primary, root, it, listed>>
vars == <<disk, diskbuf, case_sensitive, mounted, primary, root, it, call, answer, listed>>

\* The volume: descriptors, path table, directory, and sectors of other use,
\* which carry no signature.
Sector(kind, records) == [kind |-> kind, records |-> records]
DiskOf(descs, dir) ==
  [l \in Lba |->
     IF l \in FirstDesc .. FirstDesc + Len(descs) - 1
     THEN Sector(descs[l - FirstDesc + 1], <<>>)
     ELSE IF l \in DirLba .. DirLba + Len(dir) - 1 THEN Sector("dir", dir[l - DirLba + 1])
     ELSE Sector(IF l = PathTable THEN "pathtable" ELSE "other", <<>>)]

\* The record that starts at a position; where none does, the sector is zero.
RecordAt(records, pos) ==
  IF \E k \in DOMAIN records : records[k].pos = pos
  THEN records[CHOOSE k \in DOMAIN records : records[k].pos = pos]
  ELSE NoRecord

Long(owner)  == <<"long", owner>>
Short(owner) == <<"short", owner>>
NameOf(r)    == IF r.ext /\ RockRidge THEN Long(r.owner) ELSE Short(r.owner)

Matches(a, b) == IF case_sensitive THEN a = b ELSE Fold(a) = Fold(b)

\* An iterator: lba_current, entry_pos_current, prev_entry_size, valid and the
\* copy of the record.  prev_entry_size means nothing before valid is set.
StartedAt(lba) == [lba |-> lba, pos |-> 0, prev |-> 0, valid |-> FALSE, cur |-> NoRecord]

NoCall == [op |-> "none", lba |-> NoLba, want |-> <<>>, it |-> StartedAt(NoLba)]
Idle   == call.op = "none"
Answer(op, ret, name) == answer' = [op |-> op, ret |-> ret, name |-> name]

Init ==
  /\ \E descs \in DescSets, dir \in Directories : disk = DiskOf(descs, dir)
  /\ case_sensitive \in BOOLEAN
  /\ diskbuf = Empty /\ mounted = FALSE /\ primary = NoLba /\ root = NoLba
  /\ it = [k \in Iter |-> StartedAt(NoLba)]
  /\ call = NoCall /\ answer = [op |-> "create", ret |-> 0, name |-> <<>>]
  /\ listed = [k \in Iter |-> <<>>]

-----------------------------------------------------------------------------
\* mount and unmount.

\* A new array, whatever was mounted before, which stays mounted meanwhile.
MountStart ==
  /\ Idle
  /\ call' = [NoCall EXCEPT !.op = "mount", !.lba = FirstDesc]
  /\ diskbuf' = Empty /\ primary' = NoLba
  /\ UNCHANGED <<disk, case_sensitive, mounted, root, it, answer, listed>>

\* One turn of the loop over the descriptors: stop at one without signature, keep
\* the first primary one, end at the terminator and read the primary again.
Descriptor == DataRead(diskbuf, call.lba).kind
Primary    == IF Descriptor = "primary" /\ primary = NoLba THEN call.lba ELSE primary
MountFails == Descriptor \notin Signed \/ (Descriptor = "terminator" /\ primary = NoLba)

MountStep ==
  /\ call.op = "mount"
  /\ LET read == ReadSector(diskbuf, call.lba) IN
       \/ /\ MountFails
          /\ diskbuf' = read /\ call' = NoCall /\ Answer("mount", 1, <<>>)
          /\ UNCHANGED <<primary, mounted>>
       \/ /\ ~MountFails /\ Descriptor # "terminator"
          /\ diskbuf' = read /\ primary' = Primary
          /\ call' = [call EXCEPT !.lba = @ + 1]
          /\ UNCHANGED <<mounted, answer>>
       \/ /\ ~MountFails /\ Descriptor = "terminator"
          /\ diskbuf' = ReadSector(read, primary)
          /\ mounted' = TRUE /\ call' = NoCall /\ Answer("mount", 0, <<>>)
          /\ UNCHANGED primary
  /\ UNCHANGED <<disk, case_sensitive, root, it, listed>>

\* unmount leaves the cache as it is.
Unmount ==
  /\ Idle /\ mounted
  /\ mounted' = FALSE /\ Answer("unmount", 0, <<>>)
  /\ UNCHANGED <<disk, case_sensitive, diskbuf, primary, root, it, call, listed>>

\* Calls on a volume that is not mounted.
Refused ==
  /\ Idle /\ ~mounted
  /\ Answer("refused", 1, <<>>)
  /\ UNCHANGED <<disk, diskbuf, call, rest>>

\* rootdir_open does not ask whether the volume is mounted: callers do.
RootdirOpen ==
  /\ Idle /\ mounted
  /\ diskbuf' = ReadSector(ReadSector(diskbuf, PathTable), primary)
  /\ root' = DirLba
  /\ Answer("rootdir", 0, <<>>)
  /\ UNCHANGED <<disk, case_sensitive, mounted, primary, it, call, listed>>

\* get_volume_string and get_volume_timestamp read the primary descriptor.
GetVolumeInfo ==
  /\ Idle /\ mounted
  /\ diskbuf' = ReadSector(diskbuf, primary)
  /\ Answer("volume", 0, <<DataRead(diskbuf, primary).kind>>)
  /\ UNCHANGED <<disk, call, rest>>

-----------------------------------------------------------------------------
\* Iterators.

IterStart(k) ==
  /\ Idle /\ mounted /\ root # NoLba
  /\ it' = [it EXCEPT ![k] = StartedAt(root)]
  /\ listed' = [listed EXCEPT ![k] = <<>>]
  /\ Answer("start", 0, <<>>)
  /\ UNCHANGED <<disk, case_sensitive, diskbuf, mounted, primary, root, call>>

\* The record an iterator stands before.
Ahead(x) == RecordAt(DataRead(diskbuf, x.lba).records, x.pos)

\* Mutants: the position runs past the sector, and the size of the first record
\* is kept.
SteppedOver(x, r) ==
  [lba |-> x.lba, pos |-> x.pos + r.size, prev |-> r.size, valid |-> TRUE, cur |-> r]
SteppedKeepingPrev(x, r) ==
  [lba |-> IF x.pos + r.size >= SectorSize THEN x.lba + 1 ELSE x.lba,
   pos |-> IF x.pos + r.size >= SectorSize THEN 0 ELSE x.pos + r.size,
   prev |-> IF x.valid THEN x.prev ELSE r.size, valid |-> TRUE, cur |-> r]

\* The iterator after a record: the next sector begins where this one is used up.
Stepped(x, r) ==
  [lba |-> IF x.pos + r.size >= SectorSize THEN x.lba + 1 ELSE x.lba,
   pos |-> IF x.pos + r.size >= SectorSize THEN 0 ELSE x.pos + r.size,
   prev |-> r.size, valid |-> TRUE, cur |-> r]

\* dir_iter_next: a zero entry_size ends the list.
IterNext(k) ==
  /\ Idle /\ mounted /\ it[k].lba # NoLba
  /\ diskbuf' = ReadSector(diskbuf, it[k].lba)
  /\ LET r == Ahead(it[k]) IN
       IF r = NoRecord
       THEN Answer("end", 1, <<k>>) /\ UNCHANGED <<it, listed>>
       ELSE /\ it' = [it EXCEPT ![k] = Stepped(@, r)]
            /\ listed' = [listed EXCEPT ![k] = Append(@, NameOf(r))]
            /\ Answer("next", 0, NameOf(r))
  /\ UNCHANGED <<disk, case_sensitive, mounted, primary, root, call>>

\* dir_iter_get_timestamp looks the record up again, prev_entry_size before the
\* position; where that lies outside the sector's buffer, it finds anything.
\* Without Rock Ridge timestamps the copy in the iterator serves.
Stamped(x, records) ==
  IF x.pos < x.prev THEN Owners \cup {Nobody}
  ELSE LET r == RecordAt(records, x.pos - x.prev) IN
       IF r = NoRecord THEN {Nobody}
       ELSE IF r.ext /\ RockRidge THEN {r.owner} ELSE {x.cur.owner}

GetTimestamp(k) ==
  /\ Idle /\ mounted /\ it[k].valid
  /\ diskbuf' = ReadSector(diskbuf, it[k].lba)
  /\ \E owner \in Stamped(it[k], DataRead(diskbuf, it[k].lba).records) :
       Answer("timestamp", IF owner = Nobody THEN 1 ELSE 0, <<owner>>)
  /\ UNCHANGED <<disk, call, rest>>

-----------------------------------------------------------------------------
\* match_name, under dir_open and file_open: an iterator of its own.

Lookup(name) ==
  /\ Idle /\ mounted /\ root # NoLba
  /\ call' = [NoCall EXCEPT !.op = "lookup", !.want = name, !.it = StartedAt(root)]
  /\ UNCHANGED <<disk, diskbuf, answer, rest>>

\* Mutants: only the first record is looked at, and the iterator stays.
LookupFirst ==
  /\ call.op = "lookup"
  /\ diskbuf' = ReadSector(diskbuf, call.it.lba)
  /\ call' = NoCall
  /\ LET r == Ahead(call.it) IN
       IF r # NoRecord /\ Matches(call.want, NameOf(r)) THEN Answer("lookup", 0, NameOf(r))
       ELSE Answer("lookup", 1, <<>>)
  /\ UNCHANGED <<disk, rest>>
LookupStays ==
  /\ call.op = "lookup"
  /\ diskbuf' = ReadSector(diskbuf, call.it.lba)
  /\ LET r == Ahead(call.it) IN
       IF r = NoRecord THEN call' = NoCall /\ Answer("lookup", 1, <<>>)
       ELSE IF Matches(call.want, NameOf(r)) THEN call' = NoCall /\ Answer("lookup", 0, NameOf(r))
       ELSE UNCHANGED <<call, answer>>
  /\ UNCHANGED <<disk, rest>>

LookupStep ==
  /\ call.op = "lookup"
  /\ diskbuf' = ReadSector(diskbuf, call.it.lba)
  /\ LET r == Ahead(call.it) IN
       IF r = NoRecord THEN call' = NoCall /\ Answer("lookup", 1, <<>>)
       ELSE IF Matches(call.want, NameOf(r)) THEN call' = NoCall /\ Answer("lookup", 0, NameOf(r))
       ELSE call' = [call EXCEPT !.it = Stepped(@, r)] /\ UNCHANGED answer
  /\ UNCHANGED <<disk, rest>>

LoopStep == MountStep \/ LookupStep

Next ==
  \/ MountStart \/ Unmount \/ Refused \/ RootdirOpen \/ GetVolumeInfo
  \/ \E k \in Iter : IterStart(k) \/ IterNext(k) \/ GetTimestamp(k)
  \/ \E name \in Wanted : Lookup(name)
  \/ LoopStep

\* The loops run on the thread of the caller.
Spec == Init /\ [][Next]_vars /\ WF_vars(LoopStep)

-----------------------------------------------------------------------------
\* Properties.

IterType == [lba : Lba \cup {NoLba}, pos : 0 .. SectorSize - 1, prev : 0 .. SectorSize,
             valid : BOOLEAN, cur : Record \cup {NoRecord}]
TypeOK ==
  /\ mounted \in BOOLEAN /\ case_sensitive \in BOOLEAN
  /\ primary \in Lba \cup {NoLba} /\ root \in {NoLba, DirLba}
  /\ \A i \in Used(diskbuf) : diskbuf[i].lba \in Lba /\ diskbuf[i].usage_tag \in 0 .. UsageTagMax
  /\ it \in [Iter -> IterType]
  /\ call \in [op : {"none", "mount", "lookup"}, lba : Lba \cup {NoLba},
              want : Wanted \cup {<<>>}, it : IterType]

\* The places of the records: sector and position in it.
Places(dk) == UNION {{<<l, dk[l].records[k].pos>> : k \in DOMAIN dk[l].records} : l \in Lba}
Before(p, q) == p[1] < q[1] \/ (p[1] = q[1] /\ p[2] < q[2])
Rank(dk, q)  == Cardinality({p \in Places(dk) : Before(p, q)})
NameAt(dk, p) == NameOf(RecordAt(dk[p[1]].records, p[2]))

\* The records of the directory in the order of their places, each under its name.
Listing(dk) == [n \in 1 .. Cardinality(Places(dk)) |->
                  NameAt(dk, CHOOSE p \in Places(dk) : Rank(dk, p) = n - 1)]

\* Every iterator lists each record once and in order, whatever other iterators
\* do to the cache between two dir_iter_next, and ends only after the last.
ListsAll ==
  LET all == Listing(disk) IN
  /\ \A k \in Iter : IsPrefix(listed[k], all)
  /\ answer.op = "end" => listed[answer.name[1]] = all

\* A name is found exactly if it is listed; of two that match the first is taken.
Finds(all, want) == {n \in DOMAIN all : Matches(want, all[n])}
FirstFind(all, want) == CHOOSE n \in Finds(all, want) : \A m \in Finds(all, want) : n <= m
LookupExact ==
  [][call.op = "lookup" /\ Idle' =>
       LET all == Listing(disk)
       IN  IF Finds(all, call.want) = {} THEN answer'.ret = 1
           ELSE answer'.ret = 0 /\ answer'.name = all[FirstFind(all, call.want)]]_vars

\* A timestamp is that of the entry the iterator shows, though its record is
\* looked up again in a cache others used since.  The entry at the end of its
\* sector is left out: the iterator then stands in the next sector
\* (iso9660.c:434 and iso9660.c:537).
TimestampOwn ==
  [][\A k \in Iter : answer'.op = "timestamp" /\ GetTimestamp(k) /\ it[k].pos # 0 =>
       answer'.name = <<it[k].cur.owner>>]_vars

\* mount and match_name return.
LoopsReturn == []<>Idle
=============================================================================
