------------------------------ MODULE FatFile ------------------------------
(***************************************************************************)
(* An open file of the FAT driver: file_read, file_seek, file_tell and     *)
(* file_iseof of fs/fat/fat.c.  A read is modelled loop turn by loop turn; *)
(* the other calls are one step.  Clusters come from the block cache,      *)
(* which hands back what is on the drive (FatDiskbuf).                     *)
(*                                                                         *)
(* The byte at offset o of cluster c is the pair <<c, o>>, so that a byte  *)
(* copied from a wrong place shows as a different value.                   *)
(***************************************************************************)
EXTENDS FatChain, Sequences

CONSTANTS
  Types,         \* the types a volume can have, see FatType
  ClusterSize,   \* fs->cluster_size, in bytes
  Word,          \* 2^16: the values of uint16_t are 0 .. Word - 1
  FatSectorSize, \* bytes of a sector of the FAT
  FatSectors,    \* sectors of the FAT
  Chains,        \* the cluster chains a file can have, long enough for MaxSize
  MaxSize,       \* the largest file
  Sizes, Counts, \* arguments of file_read
  Offsets        \* argument of file_seek

Clusters == UNION {{full[k] : k \in DOMAIN full} : full \in Chains}

\* The FAT has an entry for cluster c.
InFat(t, c) ==
  CASE t = "FAT12" -> c + c \div 2 + 1 < FatSectors * FatSectorSize
    [] t = "FAT16" -> c < FatSectors * (FatSectorSize \div 2)
    [] t = "FAT32" -> c < FatSectors * (FatSectorSize \div 4)

ASSUME FileAssumption ==
  /\ Types \subseteq FatType
  /\ ClusterSize \in Nat \ {0} /\ Word \in Nat \ {0} /\ MaxSize \in Nat
  /\ FatSectors \in Nat /\ FatSectorSize \in Nat \ {0} /\ FatSectorSize % 4 = 0
  /\ Sizes \subseteq Nat /\ Counts \subseteq Nat /\ Offsets \subseteq Int
  /\ Sizes # {} /\ Counts # {}

\* A chain is long enough for every file, comes to no cluster twice, and its
\* clusters are ones a volume of every type in Types can have.
ASSUME ChainsAssumption ==
  \A full \in Chains :
    /\ full \in Seq(Nat) /\ Len(full) * ClusterSize >= MaxSize
    /\ \A j, k \in 1 .. Len(full) : full[j] = full[k] => j = k
    /\ \A k \in 1 .. Len(full), t \in Types :
         full[k] <= MaxCluster(t) /\ InFat(t, full[k])

VARIABLES
  type,      \* fs->fat_type
  chain,     \* the clusters of the file, in order
  size,      \* direntry.size
  mounted,   \* fs->mounted
  cursor,    \* file->cursor
  call,      \* the locals of a file_read in progress, or NoCall
  answer     \* what the last call returned and delivered

volume == <<type, chain, size>>
vars   == <<type, chain, size, mounted, cursor, call, answer>>

\* The FAT on the drive: a formatter wrote the chain and its end mark, and
\* left every other entry free.
Entries ==
  [c \in Nat |->
     IF \E k \in DOMAIN chain : chain[k] = c
     THEN LET k == CHOOSE k \in DOMAIN chain : chain[k] = c
          IN  IF k = Len(chain) THEN EndMark(type) ELSE chain[k + 1]
     ELSE 0]
Fat == FatOf(type, Entries, FatSectorSize, FatSectors)

\* What get_next_cluster finds in it.
Table == [c \in Clusters |-> FatEntry(type, Fat, FatSectorSize, c)]

HeadCluster == chain[1]

\* The bytes of the file.
Content == [p \in 1 .. size |-> <<chain[(p - 1) \div ClusterSize + 1], (p - 1) % ClusterSize>>]

NoCall  == [size |-> 0, count |-> 0, blkcnt |-> 0, cluster |-> 0,
            offs |-> 0, done |-> 0, data |-> <<>>, at |-> "idle"]
Idle    == call.at = "idle"
Return(op, ret, data) == answer' = [op |-> op, ret |-> ret, data |-> data]

ClusterCount(n) == (n + ClusterSize - 1) \div ClusterSize

Init ==
  /\ type \in Types
  /\ size \in 0 .. MaxSize
  /\ \E full \in Chains : chain = SubSeq(full, 1, ClusterCount(size))
  /\ mounted = TRUE /\ cursor = 0 /\ call = NoCall
  /\ answer = [op |-> "open", ret |-> 0, data |-> <<>>]

-----------------------------------------------------------------------------
\* file_read.

ReadUnmounted ==
  /\ Idle /\ ~mounted
  /\ Return("refused", 1, <<>>)
  /\ UNCHANGED <<volume, mounted, cursor, call>>

ReadAtEnd ==
  /\ Idle /\ mounted /\ cursor >= size
  /\ Return("read", -1, <<>>)
  /\ UNCHANGED <<volume, mounted, cursor, call>>

\* The walk to the cursor's cluster; its return value is ignored.
FirstCluster == GetNextCluster(type, Table, HeadCluster, cursor \div ClusterSize).cluster

ReadStart(bytes, count) ==
  /\ Idle /\ mounted /\ cursor < size
  /\ call' = [NoCall EXCEPT !.size = bytes, !.count = count,
                            !.cluster = FirstCluster, !.at = "block"]
  /\ UNCHANGED <<volume, mounted, cursor, answer>>

\* The head of the for loop: the count is reached, or a whole block is not left.
ReadDone ==
  /\ call.at = "block"
  /\ call.blkcnt = call.count \/ cursor + call.size > size
  /\ Return("read", call.blkcnt, call.data)
  /\ call' = NoCall
  /\ UNCHANGED <<volume, mounted, cursor>>

ReadBlock ==
  /\ call.at = "block"
  /\ call.blkcnt < call.count /\ cursor + call.size <= size
  /\ call' = [call EXCEPT !.offs = cursor % ClusterSize, !.done = 0, !.at = "copy"]
  /\ UNCHANGED <<volume, mounted, cursor, answer>>

\* cluster_max_read and block_max_read are 16 bits wide.
ClusterMaxRead == (ClusterSize - call.offs) % Word
BlockMaxRead   == (call.size - call.done) % Word

\* n bytes of the cluster's buffer from cluster_offs on.
Piece(n) == [k \in 1 .. n |-> <<call.cluster, call.offs + k - 1>>]

\* The rest of the block lies inside the cluster.
EndsInside == ClusterMaxRead > BlockMaxRead

\* Mutant: the block is not counted.
CopyLastUncounted ==
  /\ call.at = "copy" /\ EndsInside
  /\ call' = [call EXCEPT !.done = @ + BlockMaxRead, !.at = "block",
                          !.data = @ \o Piece(BlockMaxRead)]
  /\ cursor' = cursor + BlockMaxRead
  /\ UNCHANGED <<volume, mounted, answer>>

\* The last piece of a block: the inner loop ends.
CopyLast ==
  /\ call.at = "copy" /\ EndsInside
  /\ call' = [call EXCEPT !.done = @ + BlockMaxRead, !.blkcnt = @ + 1, !.at = "block",
                          !.data = @ \o Piece(BlockMaxRead)]
  /\ cursor' = cursor + BlockMaxRead
  /\ UNCHANGED <<volume, mounted, answer>>

\* The rest of the cluster, then one hop along the chain (return value ignored).
CopyOn ==
  /\ call.at = "copy" /\ ~EndsInside
  /\ call' = [call EXCEPT !.done = @ + ClusterMaxRead, !.offs = 0,
                          !.cluster = Hop(type, Table, @).cluster,
                          !.data = @ \o Piece(ClusterMaxRead)]
  /\ cursor' = cursor + ClusterMaxRead
  /\ UNCHANGED <<volume, mounted, answer>>

ReadStep == ReadDone \/ ReadBlock \/ CopyLast \/ CopyOn

-----------------------------------------------------------------------------
\* file_seek: none of these asks whether the file system is mounted.

SeekTo(target, allowed) ==
  /\ Idle
  /\ IF allowed THEN cursor' = target /\ Return("seek", 0, <<>>)
     ELSE Return("seek", 1, <<>>) /\ UNCHANGED cursor
  /\ UNCHANGED <<volume, mounted, call>>

\* Mutant: no upper limit.
SeekSetBeyond(offset) == SeekTo(offset, offset >= 0)

SeekSet(offset) == SeekTo(offset, offset <= size /\ offset >= 0)
SeekCur(offset) == SeekTo(cursor + offset, offset + cursor <= size /\ offset + cursor >= 0)
SeekEnd(offset) == SeekTo(size + offset, offset <= 0 /\ offset + size >= 0)
SeekInvalid     == SeekTo(cursor, FALSE)

Tell ==
  /\ Idle
  /\ Return("tell", IF cursor < 0 \/ cursor > size THEN -1 ELSE cursor, <<>>)
  /\ UNCHANGED <<volume, mounted, cursor, call>>

IsEof ==
  /\ Idle
  /\ Return("iseof", IF cursor >= size THEN 1 ELSE 0, <<>>)
  /\ UNCHANGED <<volume, mounted, cursor, call>>

\* The volume under an open file can be unmounted.
Unmount ==
  /\ Idle /\ mounted /\ mounted' = FALSE
  /\ UNCHANGED <<volume, cursor, call, answer>>

Next ==
  \/ ReadUnmounted \/ ReadAtEnd
  \/ \E bytes \in Sizes, count \in Counts : ReadStart(bytes, count)
  \/ ReadStep
  \/ \E offset \in Offsets : SeekSet(offset) \/ SeekCur(offset) \/ SeekEnd(offset)
  \/ SeekInvalid
  \/ Tell \/ IsEof
  \/ Unmount

\* The loops of file_read run on the thread of its caller.
Spec == Init /\ [][Next]_vars /\ WF_vars(ReadStep)

-----------------------------------------------------------------------------
\* Properties.

TypeOK ==
  /\ type \in Types /\ size \in 0 .. MaxSize /\ mounted \in BOOLEAN
  /\ cursor \in 0 .. size
  /\ call.at \in {"idle", "block", "copy"}
  /\ call.blkcnt \in 0 .. call.count /\ call.done \in 0 .. call.size
  /\ call.offs \in 0 .. ClusterSize - 1

\* A read delivers exactly the bytes between the old and the new cursor, in
\* order and across clusters, as many whole blocks as there are, and the other
\* calls agree with it on where the cursor is.
Stream == INSTANCE ByteStream
  WITH bytes <- Content, answer <- answer,
       cursor <- IF Idle THEN cursor ELSE cursor - Len(call.data)

ImplementsByteStream == Stream!Spec

\* A call of file_read returns.
ReadReturns == ~Idle ~> Idle
=============================================================================
