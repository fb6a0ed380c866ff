------------------------------- MODULE FatDir -------------------------------
(***************************************************************************)
(* A directory of a FAT volume: the listing (dir_iter_start and            *)
(* dir_iter_next), the search for a name (match_name, under dir_open and   *)
(* file_open) and the volume label (get_volume_string), all of fs/fat/fat.c. *)
(* Each of them scans the directory's entries block by block; a step is    *)
(* one block fetched or one entry looked at.                               *)
(*                                                                         *)
(* An entry is its kind and its owner: the file it names, or for a long    *)
(* file name (LFN) entry the file whose long name it holds.                *)
(***************************************************************************)
EXTENDS FatChain, SequencesExt

CONSTANTS
  BlockEntries,   \* directory entries in a block: cluster, or sector of a fixed root
  BlockWord,      \* the number of entries whose size overflows uint16_t
  IndexWord,      \* 2^8: current_entry_idx is a uint8_t
  Types,          \* the types of volume considered
  Dirs,           \* the contents a directory can have, whole blocks of entries
  Owners,         \* the files
  Nobody,         \* no file
  Wanted,         \* the names a caller may look for
  Fold(_),        \* a name in upper case
  CaseSensitive,  \* options.case_sensitive
  LfnEnabled      \* options.lfn_enabled

Kind == {"end", "deleted", "lfn", "volid", "entry"}

ASSUME DirAssumption ==
  /\ BlockEntries \in Nat \ {0} /\ BlockWord \in Nat \ {0} /\ IndexWord \in Nat \ {0}
  /\ Types \subseteq FatType
  /\ Dirs \subseteq Seq([kind : Kind, owner : Owners])
  /\ \A d \in Dirs : Len(d) % BlockEntries = 0 /\ Len(d) > 0
  /\ Nobody \notin Owners /\ CaseSensitive \in BOOLEAN /\ LfnEnabled \in BOOLEAN

VARIABLES
  type,     \* fs->fat_type
  fixed,    \* TRUE for the fixed root directory of FAT12 and FAT16
  dir,      \* the entries of the directory
  it,       \* the iterator: block and entry, both counted from 0
  call,     \* the call in progress
  answer,   \* what the last call returned
  listed    \* history: the names listed since dir_iter_start

content == <<type, fixed, dir>>
vars    == <<type, fixed, dir, it, call, answer, listed>>

Blocks == Len(dir) \div BlockEntries
EntryAt(block, idx) == dir[block * BlockEntries + idx + 1]

\* block_size and so entries_per_block come from a uint16_t.
EntriesPerBlock == BlockEntries % BlockWord

\* The chain of the directory: clusters 2, 3, ...
Table == [c \in 2 .. Blocks + 1 |-> IF c = Blocks + 1 THEN EndMark(type) ELSE c + 1]
BlockExists(block) ==
  IF fixed THEN block < Blocks
  ELSE GetNextCluster(type, Table, 2, block).ret = 0

Long(owner)  == <<"long", owner>>
Short(owner) == <<"short", owner>>
VolumeLabel  == <<"bpb">>

\* The name of an entry: from the LFN entries seen in this call, if any.
NameOf(owner, lfn) == IF lfn # Nobody THEN Long(lfn) ELSE Short(owner)

Matches(a, b) == IF CaseSensitive THEN a = b ELSE Fold(a) = Fold(b)

Start(op, want, from) ==
  [op |-> op, want |-> want, at |-> "fetch", block |-> from.block, idx |-> from.idx,
   lfn |-> Nobody, ended |-> FALSE]
First  == [block |-> 0, idx |-> 0]
NoCall == [Start("none", <<>>, First) EXCEPT !.at = "idle"]
Idle   == call.at = "idle"

Init ==
  /\ type \in Types /\ fixed \in (IF type = "FAT32" THEN {FALSE} ELSE BOOLEAN)
  /\ dir \in Dirs
  /\ it = First /\ call = NoCall /\ listed = <<>>
  /\ answer = [op |-> "none", ret |-> 0, name |-> <<>>]

-----------------------------------------------------------------------------
\* The calls.

IterStart ==
  /\ Idle
  /\ it' = First /\ listed' = <<>>
  /\ answer' = [op |-> "start", ret |-> 0, name |-> <<>>]
  /\ UNCHANGED <<content, call>>

IterNext ==
  /\ Idle /\ call' = Start("next", <<>>, it)
  /\ UNCHANGED <<content, it, answer, listed>>

\* match_name scans with an iterator of its own.
Lookup(name) ==
  /\ Idle /\ call' = Start("lookup", name, First)
  /\ UNCHANGED <<content, it, answer, listed>>

\* get_volume_string reads the root directory; on FAT12 and FAT16 it decides
\* where that is by fs->root_cluster, which mount does not set there, so the
\* model follows it on FAT32.
GetVolumeLabel ==
  /\ Idle /\ type = "FAT32" /\ call' = Start("label", <<>>, First)
  /\ UNCHANGED <<content, it, answer, listed>>

\* The call returns; the position a listing reached is kept in its iterator.
Return(ret, name, pos) ==
  /\ answer' = [op |-> call.op, ret |-> ret, name |-> name]
  /\ call' = NoCall
  /\ it' = IF call.op = "next" THEN pos ELSE it
  /\ listed' = IF call.op = "next" /\ ret = 0 THEN Append(listed, name) ELSE listed
  /\ UNCHANGED content

Here == [block |-> call.block, idx |-> call.idx]

\* Nothing more to scan: the list is over, the name is not there, or the label
\* in the boot sector is used.
ReturnEnd(pos) ==
  IF call.op = "label" THEN Return(0, VolumeLabel, pos) ELSE Return(1, <<>>, pos)

Continue(c) == call' = c /\ UNCHANGED <<content, it, answer, listed>>

\* The head of the outer loop: the block is left when its index, not the
\* entry's, reaches entries_per_block (fat.c:942, fat.c:1175).
NextPosition ==
  IF call.block >= EntriesPerBlock THEN [block |-> call.block + 1, idx |-> 0]
  ELSE [block |-> call.block, idx |-> call.idx]

Fetch ==
  /\ call.at = "fetch"
  /\ IF BlockExists(NextPosition.block)
     THEN Continue([call EXCEPT !.at = "scan", !.block = NextPosition.block,
                                !.idx = NextPosition.idx])
     ELSE ReturnEnd(NextPosition)

-----------------------------------------------------------------------------
\* The inner loop: one entry.

Scanning(kind) ==
  /\ call.at = "scan" /\ call.idx < EntriesPerBlock
  /\ EntryAt(call.block, call.idx).kind = kind

Owner == EntryAt(call.block, call.idx).owner

\* current_entry_idx++, in 8 bits for an iterator.
Bumped == IF call.op = "label" THEN call.idx + 1 ELSE (call.idx + 1) % IndexWord

\* The end of the block: back to the outer loop, which get_volume_string
\* leaves once it has seen the end of the list.
BlockDone ==
  /\ call.at = "scan" /\ call.idx >= EntriesPerBlock
  /\ IF call.ended THEN ReturnEnd(Here) ELSE Continue([call EXCEPT !.at = "fetch"])

\* Only get_volume_string goes on to the entries after the end mark.
SeeEnd ==
  /\ Scanning("end")
  /\ IF call.op = "label" THEN Continue([call EXCEPT !.ended = TRUE, !.idx = Bumped])
     ELSE ReturnEnd(Here)

\* Mutant: a deleted entry is taken for the end of the list.
DeletedEnds == Scanning("deleted") /\ ReturnEnd(Here)

\* Mutant: a deleted entry is not stepped over.
DeletedInPlace == Scanning("deleted") /\ Continue(call)

SkipDeleted == Scanning("deleted") /\ Continue([call EXCEPT !.idx = Bumped])

SeeLfn ==
  /\ Scanning("lfn")
  /\ Continue([call EXCEPT !.idx = Bumped, !.lfn = IF LfnEnabled THEN Owner ELSE @])

SeeVolumeId ==
  /\ Scanning("volid")
  /\ IF call.op = "label" THEN Return(0, NameOf(Owner, call.lfn), Here)
     ELSE Continue([call EXCEPT !.idx = Bumped, !.lfn = Nobody])

\* Mutant: the entry returned is not stepped over.
ListWithoutStep ==
  /\ Scanning("entry") /\ call.op = "next"
  /\ Return(0, NameOf(Owner, call.lfn), Here)

\* A listing returns the entry and steps over it.
ListEntry ==
  /\ Scanning("entry") /\ call.op = "next"
  /\ Return(0, NameOf(Owner, call.lfn), [Here EXCEPT !.idx = Bumped])

\* Mutant: the long name of an entry that did not match is kept.
CompareKeepingLfn ==
  /\ Scanning("entry") /\ call.op = "lookup"
  /\ IF Matches(call.want, NameOf(Owner, call.lfn))
     THEN Return(0, NameOf(Owner, call.lfn), Here)
     ELSE Continue([call EXCEPT !.at = "fetch", !.idx = Bumped])

\* A search compares, and calls dir_iter_next again when the name differs.
CompareEntry ==
  /\ Scanning("entry") /\ call.op = "lookup"
  /\ IF Matches(call.want, NameOf(Owner, call.lfn))
     THEN Return(0, NameOf(Owner, call.lfn), Here)
     ELSE Continue([call EXCEPT !.at = "fetch", !.idx = Bumped, !.lfn = Nobody])

\* Mutant: a file's name serves as label.
LabelFromEntry ==
  /\ Scanning("entry") /\ call.op = "label"
  /\ Return(0, NameOf(Owner, call.lfn), Here)

\* "root directory does not have volume id entry": the break leaves the inner
\* loop only, and end_seek is not set (fat.c:996).
LabelStops ==
  /\ Scanning("entry") /\ call.op = "label"
  /\ IF call.ended THEN ReturnEnd(Here) ELSE Continue([call EXCEPT !.at = "fetch"])

ScanStep == \/ Fetch \/ BlockDone \/ SeeEnd \/ SkipDeleted \/ SeeLfn \/ SeeVolumeId
            \/ ListEntry \/ CompareEntry \/ LabelStops

Next == \/ IterStart \/ IterNext \/ GetVolumeLabel
        \/ \E name \in Wanted : Lookup(name)
        \/ ScanStep

\* The scan runs on the thread of the caller.
Spec == Init /\ [][Next]_vars /\ WF_vars(ScanStep)

-----------------------------------------------------------------------------
\* Properties.

TypeOK ==
  /\ type \in Types /\ fixed \in BOOLEAN /\ dir \in Dirs
  /\ it \in [block : Nat, idx : 0 .. IndexWord - 1]
  /\ call \in [op : {"none", "next", "lookup", "label"}, want : Wanted \cup {<<>>},
              at : {"idle", "fetch", "scan"}, block : Nat, idx : 0 .. BlockEntries,
              lfn : Owners \cup {Nobody}, ended : BOOLEAN]
  /\ Len(listed) <= Len(dir)

\* The reference: the entries before the end mark, each under the long name
\* that stands right before it, if there is one.
Ends(d) == {k \in DOMAIN d : d[k].kind = "end"}
Live(d) == {k \in DOMAIN d : d[k].kind = "entry" /\ \A e \in Ends(d) : k < e}
NameAt(d, k) ==
  IF LfnEnabled /\ k > 1 /\ d[k - 1].kind = "lfn" THEN Long(d[k].owner)
  ELSE Short(d[k].owner)
Rank(d, k) == Cardinality({j \in Live(d) : j <= k})
Listing(d) == [n \in 1 .. Cardinality(Live(d)) |->
                 NameAt(d, CHOOSE k \in Live(d) : Rank(d, k) = n)]

\* A listing returns each entry once, in order, under its own name, whatever
\* calls come between two dir_iter_next, and says it is over only after the last.
ListsAll ==
  /\ IsPrefix(listed, Listing(dir))
  /\ answer.op = "next" /\ answer.ret = 1 => listed = Listing(dir)

\* A name is found exactly if it is listed; of two that match the first is taken.
Hits(d, name) == {n \in DOMAIN Listing(d) : Matches(name, Listing(d)[n])}
FirstHit(d, name) == CHOOSE n \in Hits(d, name) : \A m \in Hits(d, name) : n <= m
LookupExact ==
  [][\A name \in Wanted : call.op = "lookup" /\ call.want = name /\ ~Idle /\ Idle' =>
       IF Hits(dir, name) = {} THEN answer'.ret = 1
       ELSE answer'.ret = 0 /\ answer'.name = Listing(dir)[FirstHit(dir, name)]]_vars

\* The label is the volume id entry of the root directory, or the boot sector's.
VolumeIds(d) == {k \in DOMAIN d : d[k].kind = "volid" /\ \A e \in Ends(d) : k < e}
Label(d) ==
  IF VolumeIds(d) = {} THEN VolumeLabel
  ELSE Short(d[CHOOSE k \in VolumeIds(d) : \A j \in VolumeIds(d) : k <= j].owner)
LabelExact == answer.op = "label" => answer.name = Label(dir)

\* dir_iter_next and match_name return: the tests run each listing to its end
\* (tests/fs/test_fat.c:193).
ScanReturns == ~Idle /\ call.op \in {"next", "lookup"} ~> Idle

\* get_volume_string returns, with the boot sector's label if need be.
LabelReturns == ~Idle /\ call.op = "label" ~> Idle
=============================================================================
